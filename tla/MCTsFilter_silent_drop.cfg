CONSTANTS
  BodyLen   <- MCBodyLen
  MaxChunk  <- MCMaxChunk
  MaxEdits  <- MCMaxEdits
  MaxDelete <- MCMaxDelete
  MaxRepl   <- MCMaxRepl
  Limits    <- MCLimits
  EditsInBlock <- MCEditsInBlock


SPECIFICATION Spec

INVARIANT DroppedEditsReported

CHECK_DEADLOCK FALSE
