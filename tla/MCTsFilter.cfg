CONSTANTS
  BodyLen   <- MCBodyLen
  MaxChunk  <- MCMaxChunk
  MaxEdits  <- MCMaxEdits
  MaxDelete <- MCMaxDelete
  MaxRepl   <- MCMaxRepl
  Limits    <- MCLimits
  EditsInBlock <- MCEditsInBlock

SPECIFICATION Spec

INVARIANT TypeOK
INVARIANT BufferHoldsNextBytes
INVARIANT EveryEditResolvedOnce

PROPERTY ImplementsStreamEdit

\* The transform ends when the producer closes it.
CHECK_DEADLOCK FALSE
