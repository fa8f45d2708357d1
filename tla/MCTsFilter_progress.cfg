CONSTANTS
  BodyLen   <- MCBodyLen
  MaxChunk  <- MCMaxChunk
  MaxEdits  = 1
  MaxDelete <- MCMaxDelete
  MaxRepl   <- MCMaxRepl
  Limits    <- MCLimits
  EditsInBlock <- MCEditsInBlock
  \* BUFFER_FLUSHALL left out: it hangs (flushall_overrun).
  CoreCfg   <- MCCoreCfgNoFlushAll

SPECIFICATION Spec

PROPERTY EventuallyDelivered

\* The transform ends when the producer closes it.
CHECK_DEADLOCK FALSE
