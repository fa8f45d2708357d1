---------------------------- MODULE MCManagerLog ----------------------------
(* Two workers, three engine generations, three log calls.  The messages are *)
(* the extremes of the record's size: the longest level name (EMERGENCY),  *)
(* a transaction id, a file name longer than 23 characters and a 6-digit   *)
(* line number with an empty message; and a short INFO message with none   *)
(* of them.  Engines log at INFO or DEBUG (file info only at DEBUG).       *)
EXTENDS ManagerLog

MCLogRecs ==
  { [level |-> 0, name |-> 9, tx |-> TRUE, file |-> 40, line |-> 6, len |-> 0],
    [level |-> 6, name |-> 4, tx |-> FALSE, file |-> 0, line |-> 0, len |-> 30] }

\* A manager message of ordinary length, and one longer than the buffer.
MCExLens == {40, 2000}

\* IB_LOG_INFO and IB_LOG_DEBUG.
MCEngineLevels == {6, 7}
=============================================================================
