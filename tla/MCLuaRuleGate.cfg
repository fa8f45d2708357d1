CONSTANTS
  w1 = w1
  w2 = w2
  w3 = w3
  nobody = nobody
  Workers <- MCWorkers
  NoWorker <- nobody
  MaxCalls <- MCMaxCalls

SPECIFICATION Spec

INVARIANT TypeOK

PROPERTY RootChangedOnlyUnderGate
PROPERTY EveryCallReturns

\* The process exits at the end: no step follows ProcessExit.
CHECK_DEADLOCK FALSE
