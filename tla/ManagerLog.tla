----------------------------- MODULE ManagerLog -----------------------------
(***************************************************************************)
(* The engine manager's log writer (src/engine/engine_manager_log.c).      *)
(*                                                                         *)
(* Worker threads log through the engine's logger.  For each message the   *)
(* logger calls the writer's format function, manager_logger_format, which *)
(* acquires the current engine to read its log level, builds a record and *)
(* hands it back; the logger queues it, and manager_logger_record later    *)
(* dequeues every queued record into the server's log_buf_fn.  The        *)
(* manager's own messages (ib_manager_log_ex) bypass the queue.           *)
(*                                                                         *)
(* The engine manager itself (engine creation, acquire, release, cleanup)  *)
(* and the logger's queue are not in the repository.  They are modelled as *)
(* the environment, by the contract the writer relies on: acquire takes a  *)
(* reference on the current engine or returns IB_ENOENT when there is none,*)
(* cleanup destroys an engine that is not current once its references are *)
(* all released, and the logger queues a record only when format returns   *)
(* IB_OK with a record.                                                    *)
(*                                                                         *)
(* A message is abstracted to the lengths that decide the record's size.   *)
(***************************************************************************)
EXTENDS Integers, Sequences

CONSTANTS
  Workers,       \* threads that run transactions and log
  Engines,       \* engines the manager may create, in any order
  NoEngine,      \* no current engine
  LogRecs,       \* messages: [level, name, tx, file, line, len]
  ExLens,        \* lengths ib_manager_log_ex's format expands to
  EngineLevels,  \* log levels an engine may be configured with
  ManagerLevel,  \* the manager logger's level
  TxIdLen,       \* length of a transaction id
  AllocResults,  \* what malloc may return: TRUE success, FALSE NULL
  HasFlushFn,    \* the server gave a log_flush_fn
  MaxLogs        \* bound on log calls

VARIABLES
  current,   \* the engine acquire hands out, or NoEngine
  alive,     \* engines created and not destroyed
  created,   \* engines created so far
  level,     \* each engine's logger level
  refs,      \* each engine's reference count
  txEngine,  \* the engine a worker's transaction holds, or NoEngine
  queue,     \* records the logger has queued for the writer
  buf,       \* records handed to log_buf_fn and not yet flushed
  leaked,    \* records built and never queued or freed
  crashed,   \* a NULL log_flush_fn was called
  logs       \* log calls so far

vars == <<current, alive, created, level, refs, txEngine, queue, buf,
          leaked, crashed, logs>>

Larger(a, b) == IF a >= b THEN a ELSE b
Smaller(a, b) == IF a <= b THEN a ELSE b

\* Mutant: a padding that does not cover the prefixes.
FmtPadSizeSmall == 64

\* Buffer sizes of the writer.
FmtPadSize == 128
FileInfoSize == 35
MsgSzMax == 1024

\* IB_LOG_DEBUG in ib_logger_level_t.
Debug == 7

-----------------------------------------------------------------------------
(* The record manager_logger_format builds for message m when the logger's *)
(* level is lvl: "%-10s- ", then "[tx:<id>] ", then "(%23s:%-5d) " of the  *)
(* file name stripped of "../" and cut to its last 23 characters, then the *)
(* message.  m.file is the stripped name's length (0 for no file), m.line  *)
(* the line number's digits (0 for line 0).                               *)
(***************************************************************************)
BufferSize(m) == m.len + FmtPadSize

FileInfoLen(m) ==
  Smaller(1 + Larger(Smaller(m.file, 23), 23) + 1 + Larger(m.line, 5) + 2,
          FileInfoSize - 1)

FormattedLen(m, lvl) ==
  Smaller(Larger(m.name, 10) + 2, BufferSize(m) - 1)
    + (IF m.tx THEN 4 + TxIdLen + 2 ELSE 0)
    + (IF m.file > 0 /\ m.line > 0 /\ lvl >= Debug THEN FileInfoLen(m) ELSE 0)
    + m.len

\* The record: its string length and the bytes allocated for the string.
FormatRecord(m, lvl) ==
  [src |-> "format", level |-> m.level, sz |-> FormattedLen(m, lvl),
   cap |-> BufferSize(m)]

\* What ib_manager_engine_acquire may return.
AcquireResults ==
  IF current = NoEngine THEN {"ENOENT", "EUNKNOWN"} ELSE {"OK", "EUNKNOWN"}

\* log_flush_fn, called without a NULL check.
CallFlush ==
  IF HasFlushFn THEN /\ buf' = <<>> /\ UNCHANGED crashed
  ELSE /\ crashed' = TRUE /\ UNCHANGED buf

-----------------------------------------------------------------------------
Init ==
  /\ current = NoEngine
  /\ alive = {}
  /\ created = {}
  /\ level = [e \in Engines |-> ManagerLevel]
  /\ refs = [e \in Engines |-> 0]
  /\ txEngine = [w \in Workers |-> NoEngine]
  /\ queue = <<>>
  /\ buf = <<>>
  /\ leaked = 0
  /\ crashed = FALSE
  /\ logs = 0

\* Mutant: the leak fixed by a release at cleanup whenever there is a
\* current engine, whether or not the acquire succeeded.
FormatReleaseAtCleanup(w, m) ==
  /\ logs < MaxLogs
  /\ \E acq \in AcquireResults, recOk \in AllocResults, msgOk \in AllocResults :
       LET lvl == IF acq = "OK" THEN level[current] ELSE ManagerLevel
           built == acq # "EUNKNOWN" /\ recOk /\ msgOk
           rc == IF acq # "EUNKNOWN" /\ ~recOk THEN "EALLOC" ELSE acq
       IN /\ refs' = IF acq # "OK" /\ current # NoEngine
                     THEN [refs EXCEPT ![current] = @ - 1] ELSE refs
          /\ queue' = IF built /\ rc = "OK"
                      THEN Append(queue, FormatRecord(m, lvl)) ELSE queue
          /\ leaked' = IF acq # "EUNKNOWN" /\ recOk /\ ~(built /\ rc = "OK")
                       THEN leaked + 1 ELSE leaked
  /\ logs' = logs + 1
  /\ UNCHANGED <<current, alive, created, level, txEngine, buf, crashed>>

\* manager_logger_format for worker w's message m, and the logger queueing
\* what it returns.  The level comes from the acquired engine, or from the
\* manager's logger on IB_ENOENT; the engine is never released.  A failed
\* record malloc returns IB_EALLOC; a failed message malloc jumps to
\* cleanup and returns rc with the record allocated and not handed back.
Format(w, m) ==
  /\ logs < MaxLogs
  /\ \E acq \in AcquireResults, recOk \in AllocResults, msgOk \in AllocResults :
       LET lvl == IF acq = "OK" THEN level[current] ELSE ManagerLevel
           built == acq # "EUNKNOWN" /\ recOk /\ msgOk
           rc == IF acq # "EUNKNOWN" /\ ~recOk THEN "EALLOC" ELSE acq
       IN /\ refs' = IF acq = "OK" THEN [refs EXCEPT ![current] = @ + 1] ELSE refs
          /\ queue' = IF built /\ rc = "OK"
                      THEN Append(queue, FormatRecord(m, lvl)) ELSE queue
          /\ leaked' = IF acq # "EUNKNOWN" /\ recOk /\ ~(built /\ rc = "OK")
                       THEN leaked + 1 ELSE leaked
  /\ logs' = logs + 1
  /\ UNCHANGED <<current, alive, created, level, txEngine, buf, crashed>>

\* manager_logger_record: ib_logger_dequeue hands every queued record, in
\* order, to write_log_record, which passes it to log_buf_fn and frees it.
ManagerLoggerRecord ==
  /\ queue # <<>>
  /\ buf' = buf \o queue
  /\ queue' = <<>>
  /\ UNCHANGED <<current, alive, created, level, refs, txEngine, leaked,
                 crashed, logs>>

\* manager_logger_close and manager_logger_reopen.
ManagerLoggerClose ==
  /\ CallFlush
  /\ UNCHANGED <<current, alive, created, level, refs, txEngine, queue,
                 leaked, logs>>

\* ib_manager_log_flush: calls log_flush_fn if there is one.
LogFlush ==
  /\ HasFlushFn
  /\ buf' = <<>>
  /\ UNCHANGED <<current, alive, created, level, refs, txEngine, queue,
                 leaked, crashed, logs>>

\* ib_manager_log_ex: formats into a 1024-byte buffer, passes the record
\* to log_buf_fn with msg_sz set to vsnprintf's result (the length the
\* message would have had), then flushes if there is a flush function.
LogEx(n) ==
  /\ logs < MaxLogs
  /\ \E ok \in AllocResults :
       IF ok
       THEN buf' = IF HasFlushFn THEN <<>>
                   ELSE Append(buf, [src |-> "ex", level |-> ManagerLevel,
                                     sz |-> n, cap |-> MsgSzMax - 1])
       ELSE UNCHANGED buf
  /\ logs' = logs + 1
  /\ UNCHANGED <<current, alive, created, level, refs, txEngine, queue,
                 leaked, crashed>>

-----------------------------------------------------------------------------
(* The engine manager, the environment of the writer.                     *)
(***************************************************************************)
CreateEngine(e, l) ==
  /\ e \notin created
  /\ current' = e
  /\ alive' = alive \cup {e}
  /\ created' = created \cup {e}
  /\ level' = [level EXCEPT ![e] = l]
  /\ UNCHANGED <<refs, txEngine, queue, buf, leaked, crashed, logs>>

Cleanup(e) ==
  /\ e \in alive
  /\ e # current
  /\ refs[e] = 0
  /\ alive' = alive \ {e}
  /\ UNCHANGED <<current, created, level, refs, txEngine, queue, buf,
                 leaked, crashed, logs>>

TxBegin(w) ==
  /\ txEngine[w] = NoEngine
  /\ current # NoEngine
  /\ txEngine' = [txEngine EXCEPT ![w] = current]
  /\ refs' = [refs EXCEPT ![current] = @ + 1]
  /\ UNCHANGED <<current, alive, created, level, queue, buf, leaked,
                 crashed, logs>>

TxEnd(w) ==
  /\ txEngine[w] # NoEngine
  /\ txEngine' = [txEngine EXCEPT ![w] = NoEngine]
  /\ refs' = [refs EXCEPT ![txEngine[w]] = @ - 1]
  /\ UNCHANGED <<current, alive, created, level, queue, buf, leaked,
                 crashed, logs>>

Next ==
  /\ ~crashed
  /\ \/ \E w \in Workers, m \in LogRecs : Format(w, m)
     \/ ManagerLoggerRecord
     \/ ManagerLoggerClose
     \/ LogFlush
     \/ \E n \in ExLens : LogEx(n)
     \/ \E e \in Engines, l \in EngineLevels : CreateEngine(e, l)
     \/ \E e \in Engines : Cleanup(e)
     \/ \E w \in Workers : TxBegin(w) \/ TxEnd(w)

\* The manager cleans up periodically and transactions end.
Fairness ==
  /\ \A e \in Engines : WF_vars(~crashed /\ Cleanup(e))
  /\ \A w \in Workers : WF_vars(~crashed /\ TxEnd(w))

Spec == Init /\ [][Next]_vars /\ Fairness

-----------------------------------------------------------------------------
TypeOK ==
  /\ current \in Engines \cup {NoEngine}
  /\ alive \subseteq created /\ created \subseteq Engines
  /\ refs \in [Engines -> Nat]
  /\ txEngine \in [Workers -> Engines \cup {NoEngine}]
  /\ \A r \in {queue[i] : i \in DOMAIN queue} : r.src = "format"
  /\ leaked \in 0..MaxLogs
  /\ logs \in 0..MaxLogs

\* Every record manager_logger_format builds fits what it writes into: the
\* string (with its NUL) fits the buffer_sz + 1 bytes malloc'd at line 112:
\* fmt_pad_size covers the level, "[tx:<id>] " and "(file:line) " prefixes
\* whatever the level string, the file name and line number, and the
\* logger level.
FormattedRecordFits ==
  \A r \in {queue[i] : i \in DOMAIN queue} \cup {buf[i] : i \in DOMAIN buf} :
    r.src = "format" => r.sz <= r.cap

\* An engine that is no longer current and that no transaction holds is
\* eventually destroyed by the manager's cleanup: the references the
\* writer takes to read the engine's log level are given back.
OldEngineReclaimed ==
  \A e \in Engines :
    (e \in alive /\ e # current /\ \A w \in Workers : txEngine[w] # e)
      ~> e \notin alive

=============================================================================
