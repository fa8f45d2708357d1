CONSTANTS
  w1 = w1
  w2 = w2
  e1 = e1
  e2 = e2
  e3 = e3
  none = none
  Workers = {w1, w2}
  Engines = {e1, e2, e3}
  NoEngine = none
  LogRecs <- MCLogRecs
  ExLens <- MCExLens
  EngineLevels <- MCEngineLevels
  ManagerLevel = 6
  TxIdLen = 36
  AllocResults = {TRUE, FALSE}
  HasFlushFn = TRUE
  MaxLogs = 3

SPECIFICATION Spec

INVARIANT TypeOK
INVARIANT FormattedRecordFits
