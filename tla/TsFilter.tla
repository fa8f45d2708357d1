------------------------------- MODULE TsFilter -------------------------------
(***************************************************************************)
(* The body filter of the IronBee Traffic Server plugin for one direction  *)
(* of one transaction (src/servers/trafficserver/ts_filter.c).             *)
(*                                                                         *)
(* The transform sits between an upstream producer, which writes the body  *)
(* into the input VIO's buffer, and a downstream consumer, which reads the *)
(* output VIO.  Every data event runs process_data: each input block is    *)
(* handed to the engine (which may add stream edits or decide to serve an  *)
(* error document) and then to buffer_data_chunk, which buffers it and,    *)
(* according to the buffering mode, calls flush_data.  flush_data sorts    *)
(* the pending edits and applies them while copying buffered bytes to the  *)
(* output buffer.                                                          *)
(*                                                                         *)
(* Bytes are abstracted to their identity: stream byte p is the token      *)
(* <<0, p>>, byte k of the replacement of edit e is <<e, k>>.              *)
(***************************************************************************)
EXTENDS Integers, Sequences, SequencesExt, FiniteSets, TLC

CONSTANTS
  BodyLen,    \* nbytes of the input VIO: length of the body
  MaxChunk,   \* largest block the upstream producer writes at once
  MaxEdits,   \* number of edits the engine may add in one transaction
  MaxDelete,  \* largest edit->bytes
  MaxRepl,    \* largest edit->repl_len
  Limits,     \* values *_body_buffer_limit may have (negative: unlimited)
  EditsInBlock \* whether a rule may edit bytes of the block being notified,
               \* or only bytes of earlier blocks

ASSUME /\ BodyLen \in Nat /\ MaxChunk \in Nat \ {0}
       /\ MaxEdits \in Nat /\ MaxDelete \in Nat /\ MaxRepl \in Nat
       /\ Limits \subseteq Int /\ EditsInBlock \in BOOLEAN

VARIABLES
  fctx,       \* the tsib_filter_ctx of this direction
  pc,         \* "idle"; "loop" while process_data walks the input blocks;
              \* "hung" once flush_data's copy loop cannot make progress
  dir,        \* direction of this transform: "REQ" or "RESP"
  inBlocks,   \* sizes of the blocks in the input VIO's buffer, not yet read
  written,    \* bytes the upstream producer has written so far
  ndone,      \* TSVIONDoneGet(input_vio)
  inBufNull,  \* TSVIOBufferGet(input_vio) == NULL
  closed,     \* TSVConnClosedGet(contp)
  status,     \* HTTP_CODE(txndata->status): an error document will be served
  txFlags,    \* the IB_TX_F* flags the WRITE_COMPLETE handler tests
  upSignals,  \* events sent to the input VIO's continuation
  dsRead,     \* bytes the downstream consumer has read from the output
  shutdown,   \* TSVConnShutdown has been called on the output vconn
  nedits,     \* number of edits the engine has added (their ids: 1..nedits)
  applied,    \* history: the edits flush_data applied, in order
  dropped,    \* history: ids of the edits flush_data abandoned
  silent,     \* history: ids of abandoned edits no caller logged
  committed,  \* history: the output VIO has been given its final size
  decidedAt   \* history: bytes_done when the engine decided on an error
              \* document (-1: not decided)

vars == <<fctx, pc, dir, inBlocks, written, ndone, inBufNull, closed, status,
          txFlags, upSignals, dsRead, shutdown, nedits, applied, dropped,
          silent, committed, decidedAt>>

Modes == {"NOBUF", "DISCARD", "BUFFER_ALL", "BUFFER_FLUSHALL",
          "BUFFER_FLUSHPART"}

Edit == [id: 1..MaxEdits, start: 0..BodyLen, bytes: 0..MaxDelete,
         repl: 0..MaxRepl]

Token == ({0} \X (0..BodyLen)) \cup ((1..MaxEdits) \X (1..MaxRepl))

-----------------------------------------------------------------------------
(* Byte movement.                                                          *)

\* Stream positions held in the reader, as they appear in the output.
Verbatim(ps) == [i \in DOMAIN ps |-> <<0, ps[i]>>]

\* The bytes TSIOBufferWrite inserts for an edit's replacement string.
Replacement(e) == [k \in 1..e.repl |-> <<e.id, k>>]

\* The first n bytes of a reader, as far as it holds them (TSIOBufferCopy).
Take(s, n) == SubSeq(s, 1, IF n < Len(s) THEN n ELSE Len(s))

\* TSIOBufferReaderConsume(reader, n).
Consume(s, n) ==
  CASE n >= Len(s) -> <<>>
    [] n <= 0      -> s
    [] OTHER       -> SubSeq(s, n + 1, Len(s))

\* qsort(edits, qcompare): descending by start.  qsort is not stable, so
\* edits with equal starts may come out in either order.
Sorts(es) ==
  { s \in {[i \in DOMAIN es |-> es[p[i]]] : p \in Permutations(DOMAIN es)} :
      IsSorted(s, LAMBDA a, b : a.start >= b.start) }

\* An edit loop state: the filter context, nbytes still to be flushed, the
\* status flush_data will return, and what happened to the edits.
LoopState(f, n, k) ==
  [f |-> f, nbytes |-> n, rc |-> "OK", applied |-> <<>>, dropped |-> {},
   kept |-> k, overrun |-> FALSE]

\* Mutant: the size change is added to bytes_done as well.
ApplyEditCountsRepl(st, e) ==
  LET used == e.start - st.f.bytes_done + e.bytes IN
  [st EXCEPT !.f = [st.f EXCEPT
                      !.output     = @ \o Verbatim(Take(st.f.reader, used - e.bytes))
                                       \o Replacement(e),
                      !.reader     = Consume(@, used),
                      !.buffered   = @ - used,
                      !.bytes_done = @ + used + e.repl,
                      !.offs       = @ + e.repl - e.bytes],
             !.nbytes = @ - used, !.applied = Append(@, e), !.kept = @ - 1]

\* Lines 131-157: copy up to the edit, skip the deleted bytes, write the
\* replacement, account for the size change and pop the edit.
ApplyEdit(st, e) ==
  LET f    == st.f
      gap  == e.start - f.bytes_done
      used == gap + e.bytes
  IN [st EXCEPT
        !.f = [f EXCEPT
                 !.output     = @ \o Verbatim(Take(f.reader, gap))
                                  \o Replacement(e),
                 !.reader     = Consume(@, used),
                 !.buffered   = @ - used,
                 !.bytes_done = @ + used,
                 !.offs       = @ + e.repl - e.bytes],
        !.nbytes  = @ - used,
        !.applied = Append(@, e),
        !.kept    = @ - 1]

\* Mutant: the abandoned edit is not popped.
DropEditNoPop(st, e) ==
  [st EXCEPT !.rc = "EBADVAL", !.dropped = @ \cup {e.id}]

\* Lines 100-104 and 125-127: abandon an edit.
DropEdit(st, e) ==
  [st EXCEPT !.rc = "EBADVAL", !.dropped = @ \cup {e.id}, !.kept = @ - 1]

\* Mutant: no check that the edit starts at or after bytes_done.
RECURSIVE EditLoopNoStaleCheck(_, _, _, _)
EditLoopNoStaleCheck(st, sorted, i, last) ==
  IF i = 0 THEN st
  ELSE LET e == sorted[i]
           beyond == e.start + e.bytes > st.f.bytes_done + st.nbytes
       IN CASE beyond /\ ~last ->
                 [st EXCEPT !.nbytes = e.start - st.f.bytes_done,
                            !.rc = "EAGAIN"]
            [] beyond /\ last ->
                 EditLoopNoStaleCheck(DropEdit(st, e), sorted, i - 1, last)
            [] OTHER ->
                 EditLoopNoStaleCheck(ApplyEdit(st, e), sorted, i - 1, last)

\* Lines 92-158: walk the sorted edits from the end (lowest start first).
RECURSIVE EditLoop(_, _, _, _)
EditLoop(st, sorted, i, last) ==
  IF i = 0 THEN st
  ELSE LET e == sorted[i]
           beyond == e.start + e.bytes > st.f.bytes_done + st.nbytes
           stale  == e.start < st.f.bytes_done
       IN CASE stale ->
                 EditLoop(DropEdit(st, e), sorted, i - 1, last)
            [] ~stale /\ beyond /\ ~last ->
                 [st EXCEPT !.nbytes = e.start - st.f.bytes_done,
                            !.rc = "EAGAIN"]
            [] ~stale /\ beyond /\ last ->
                 EditLoop(DropEdit(st, e), sorted, i - 1, last)
            [] OTHER ->
                 EditLoop(ApplyEdit(st, e), sorted, i - 1, last)

\* Lines 164-171: move n buffered bytes to the output unchanged.  When n
\* exceeds what the reader holds, TSIOBufferCopy copies what there is and
\* then returns 0: assert(n > 0) aborts, or without asserts the loop spins;
\* FlushData reports that as an overrun.
CopyThrough(f, n) ==
  LET m == Len(Take(f.reader, n)) IN
  [f EXCEPT !.output     = @ \o Verbatim(Take(f.reader, n)),
            !.reader     = Consume(@, m),
            !.buffered   = @ - m,
            !.bytes_done = @ + m]

\* flush_data(fctx, nbytes, last) (lines 68-179), with the edits already in
\* the order qsort left them.  nbytes = -1 flushes everything buffered.
FlushData(f, nbytes, last, sorted) ==
  LET n0 == IF nbytes = -1 THEN f.buffered ELSE nbytes
      st == EditLoop(LoopState(f, n0, Len(sorted)), sorted, Len(sorted), last)
      g  == [CopyThrough(st.f, st.nbytes) EXCEPT
               !.edits = SubSeq(sorted, 1, st.kept)]
  IN [st EXCEPT !.f = IF last
                      THEN [g EXCEPT !.output_vio_nbytes =
                                       g.bytes_done + g.offs]
                      ELSE g,
                !.overrun = st.nbytes > Len(st.f.reader)]

\* A buffer_data_chunk call that flushes nothing.
NoFlush(f) == LoopState(f, 0, 0)

\* Mutant: DISCARD consumes the reader but leaves buffered as it was.
BufferDataChunkKeepCount(f, chunk, sorted) ==
  IF f.buffering = "DISCARD"
  THEN NoFlush([f EXCEPT !.reader = <<>>])
  ELSE LET pre == IF /\ f.buffering = "BUFFER_FLUSHALL"
                     /\ f.buffered + Len(chunk) > f.buf_limit
                  THEN FlushData(f, -1, FALSE, sorted)
                  ELSE NoFlush(f)
           g   == [pre.f EXCEPT !.reader = @ \o chunk,
                                !.buffered = @ + Len(chunk)]
       IN CASE g.buffering = "NOBUF" ->
                 FlushData(g, -1, FALSE, sorted)
            [] g.buffering = "BUFFER_FLUSHPART" /\ g.buffered > g.buf_limit ->
                 FlushData(g, g.buffered - g.buf_limit, FALSE, sorted)
            [] OTHER -> [pre EXCEPT !.f = g]

\* buffer_data_chunk(fctx, reader, nbytes) (lines 189-228): chunk holds the
\* stream positions of the block.
BufferDataChunk(f, chunk, sorted) ==
  IF f.buffering = "DISCARD"
  THEN NoFlush([f EXCEPT !.reader = <<>>, !.buffered = 0])
  ELSE LET pre == IF /\ f.buffering = "BUFFER_FLUSHALL"
                     /\ f.buffered + Len(chunk) > f.buf_limit
                  THEN FlushData(f, -1, FALSE, sorted)
                  ELSE NoFlush(f)
           g   == [pre.f EXCEPT !.reader = @ \o chunk,
                                !.buffered = @ + Len(chunk)]
       IN CASE g.buffering = "NOBUF" ->
                 FlushData(g, -1, FALSE, sorted)
            [] g.buffering = "BUFFER_FLUSHPART" /\ g.buffered > g.buf_limit ->
                 FlushData(g, g.buffered - g.buf_limit, FALSE, sorted)
            [] OTHER -> [pre EXCEPT !.f = g]

-----------------------------------------------------------------------------
(* Buffering policy.                                                       *)

\* Configuration the core module may hand buffer_init: buffer_req/res, the
\* body buffer limit, whether its action is FLUSH_ALL, and whether
\* ib_core_context_config succeeded.
CoreCfg == [buffer: BOOLEAN, limit: Limits, flush_all: BOOLEAN, ok: BOOLEAN]

\* The transaction flags buffer_init tests, for this direction.
TxFlagSets == SUBSET {"ALLOW_ALL", "ALLOW_REQUEST", "INSPECT_BODY",
                      "INSPECT_HDR"}

\* Lines 255-261 / 265-271.
ConfiguredMode(c) ==
  CASE ~c.buffer      -> "NOBUF"
    [] c.limit < 0    -> "BUFFER_ALL"
    [] c.flush_all    -> "BUFFER_FLUSHALL"
    [] OTHER          -> "BUFFER_FLUSHPART"

\* Lines 277-296: allow-all, or no inspection of the direction, disables
\* buffering.
Bypass(d, fl) ==
  \/ "ALLOW_ALL" \in fl
  \/ d = "REQ" /\ "ALLOW_REQUEST" \in fl
  \/ "INSPECT_BODY" \notin fl /\ "INSPECT_HDR" \notin fl

\* buffer_init(ibd, tx) (lines 237-298).
BufferInit(f, d, c, fl) ==
  LET g == IF c.ok
           THEN [f EXCEPT !.buffering = ConfiguredMode(c), !.buf_limit = c.limit]
           ELSE f
  IN IF g.buffering # "NOBUF" /\ Bypass(d, fl)
     THEN [g EXCEPT !.buffering = "NOBUF"]
     ELSE g

\* Lines 324-329: an error document turns the filter into a discard filter.
ErrorDocCheck(f) == IF status THEN [f EXCEPT !.buffering = "DISCARD"] ELSE f

\* Lines 368-397: the contexts the first data event may leave, creating the
\* output VIO for the input's length and choosing the buffering mode.
FirstTimeInit(f) ==
  IF f.output_set THEN {f}
  ELSE LET g == [f EXCEPT !.output_set = TRUE, !.output_vio_nbytes = BodyLen]
       IN IF status THEN {g}
          ELSE {BufferInit(g, dir, c, fl) : c \in CoreCfg, fl \in TxFlagSets}

-----------------------------------------------------------------------------
(* The engine, as seen by the filter (ib_notify_body and the block action  *)
(* are engine code: modelled from the spec).                               *)

\* Edits the notification of the block of nbytes at ndone may add: none,
\* or one new edit of bytes the engine has seen.
NewEdits(nbytes) ==
  LET seen == IF EditsInBlock THEN ndone + nbytes ELSE ndone IN
  {<<>>} \cup
  IF nedits < MaxEdits
  THEN {<<e>> : e \in {x \in Edit : x.id = nedits + 1
                                    /\ x.start + x.bytes <= seen}}
  ELSE {}

\* Tx flags the engine's end, postprocess and logging notifications set.
\* Only the response direction has postprocess and logging callbacks.
NotifyEndFlags(d) ==
  {"FINISHED"} \cup (IF d = "RESP" THEN {"POSTPROCESS", "LOGGING"} ELSE {})

-----------------------------------------------------------------------------
(* Bookkeeping of the history variables for one flush result r; logged     *)
(* says whether the caller logs an EBADVAL status.                         *)
Record(r, logged) ==
  /\ applied'  = applied \o r.applied
  /\ dropped'  = dropped \cup r.dropped
  /\ silent'   = IF logged /\ r.rc = "EBADVAL" THEN silent
                 ELSE silent \cup r.dropped

\* Lines 403-412 and 441-449: end of input: final flush, whose status is
\* ignored, then WRITE_COMPLETE to the input VIO's continuation.  A final
\* flush never clips nbytes, so it cannot overrun.
FinishWrite(f) ==
  \E s \in Sorts(f.edits) :
    LET r == FlushData(f, -1, TRUE, s) IN
    /\ fctx' = r.f
    /\ Record(r, FALSE)
    /\ committed' = TRUE
    /\ upSignals' = upSignals \cup {"WRITE_COMPLETE"}
    /\ pc' = "idle"

-----------------------------------------------------------------------------
Init ==
  /\ fctx = [buffering |-> "NOBUF", buf_limit |-> 0, buffered |-> 0,
             bytes_done |-> 0, offs |-> 0, edits |-> <<>>, reader |-> <<>>,
             output |-> <<>>, output_set |-> FALSE, output_vio_nbytes |-> 0]
  /\ pc = "idle"
  /\ dir \in {"REQ", "RESP"}
  /\ inBlocks = <<>>
  /\ written = 0
  /\ ndone = 0
  /\ inBufNull = FALSE
  /\ closed = FALSE
  /\ status = FALSE
  /\ txFlags = {}
  /\ upSignals = {}
  /\ dsRead = 0
  /\ shutdown = FALSE
  /\ nedits = 0
  /\ applied = <<>>
  /\ dropped = {}
  /\ silent = {}
  /\ committed = FALSE
  /\ decidedAt = -1

\* process_data, lines 317-365: the input buffer is gone.  With an output
\* VIO, flush everything as final; without one, create an empty one.
ProcessInputGone ==
  /\ pc = "idle" /\ ~closed /\ inBufNull
  /\ LET f == ErrorDocCheck(fctx) IN
     \/ /\ f.output_set
        /\ \E s \in Sorts(f.edits) :
             LET r == FlushData(f, -1, TRUE, s) IN
             /\ fctx' = r.f
             /\ Record(r, TRUE)
     \/ /\ ~f.output_set
        /\ fctx' = [f EXCEPT !.output_set = TRUE, !.output_vio_nbytes = 0]
        /\ UNCHANGED <<applied, dropped, silent>>
  /\ committed' = TRUE
  /\ UNCHANGED <<pc, dir, inBlocks, written, ndone, inBufNull, closed, status,
                 txFlags, upSignals, dsRead, shutdown, nedits, decidedAt>>

\* process_data, lines 317-416: a data event with input: initialise on the
\* first call, finish if nothing is left to do, else enter the block loop.
ProcessData ==
  /\ pc = "idle" /\ ~closed /\ ~inBufNull
  /\ \E f \in FirstTimeInit(ErrorDocCheck(fctx)) :
       \/ /\ ndone = BodyLen
          /\ FinishWrite(f)
       \/ /\ ndone # BodyLen
          /\ fctx' = f
          /\ pc' = "loop"
          /\ UNCHANGED <<applied, dropped, silent, committed, upSignals>>
  /\ UNCHANGED <<dir, inBlocks, written, ndone, inBufNull, closed, status,
                 txFlags, dsRead, shutdown, nedits, decidedAt>>

\* Mutant: the input VIO's ndone is not advanced (TSVIONDoneSet missing).
ChunkStepNoAdvance ==
  /\ pc = "loop"
  /\ inBlocks # <<>>
  /\ LET nbytes == Head(inBlocks)
         chunk  == [i \in 1..nbytes |-> ndone + i - 1]
     IN \E new \in NewEdits(nbytes), block \in BOOLEAN :
          LET f == [fctx EXCEPT !.edits = @ \o new] IN
          \E s \in Sorts(f.edits) :
            LET r == BufferDataChunk(f, chunk, s) IN
            /\ fctx' = r.f
            /\ Record(r, TRUE)
            /\ pc' = IF r.overrun THEN "hung" ELSE pc
            /\ nedits' = nedits + Len(new)
            /\ status' = (status \/ block)
            /\ decidedAt' = IF block /\ ~status THEN fctx'.bytes_done
                            ELSE decidedAt
            /\ inBlocks' = Tail(inBlocks)
  /\ UNCHANGED <<dir, written, ndone, inBufNull, closed, txFlags, upSignals,
                 dsRead, shutdown, committed>>

\* Lines 417-438: one block: notify the engine, which may add an edit or
\* decide to serve an error document, buffer the block (logging EBADVAL),
\* consume it and advance the input VIO.
ChunkStep ==
  /\ pc = "loop"
  /\ inBlocks # <<>>
  /\ LET nbytes == Head(inBlocks)
         chunk  == [i \in 1..nbytes |-> ndone + i - 1]
     IN \E new \in NewEdits(nbytes), block \in BOOLEAN :
          LET f == [fctx EXCEPT !.edits = @ \o new] IN
          \E s \in Sorts(f.edits) :
            LET r == BufferDataChunk(f, chunk, s) IN
            /\ fctx' = r.f
            /\ Record(r, TRUE)
            /\ pc' = IF r.overrun THEN "hung" ELSE pc
            /\ nedits' = nedits + Len(new)
            /\ status' = (status \/ block)
            /\ decidedAt' = IF block /\ ~status THEN fctx'.bytes_done
                            ELSE decidedAt
            /\ inBlocks' = Tail(inBlocks)
            /\ ndone' = ndone + nbytes
  /\ UNCHANGED <<dir, written, inBufNull, closed, txFlags, upSignals,
                 dsRead, shutdown, committed>>

\* Lines 440-456: after the loop, finish if the input is complete;
\* otherwise WRITE_READY asks the producer for more.
LoopExit ==
  /\ pc = "loop"
  /\ inBlocks = <<>>
  /\ \/ ndone = BodyLen /\ FinishWrite(fctx)
     \/ ndone # BodyLen
        /\ pc' = "idle"
        /\ UNCHANGED <<fctx, applied, dropped, silent, committed, upSignals>>
  /\ UNCHANGED <<dir, inBlocks, written, ndone, inBufNull, closed, status,
                 txFlags, dsRead, shutdown, nedits, decidedAt>>

\* data_event, lines 485-501: TS_EVENT_ERROR is passed to the input side.
ErrorEvent ==
  /\ pc = "idle" /\ ~closed
  /\ upSignals' = upSignals \cup {"ERROR"}
  /\ UNCHANGED <<fctx, pc, dir, inBlocks, written, ndone, inBufNull, closed,
                 status, txFlags, dsRead, shutdown, nedits, applied, dropped,
                 silent, committed, decidedAt>>

\* data_event, lines 502-533: the output VIO completed: shut the output
\* down and run the end / postprocess / logging notifications not yet run.
\* Delivered once the consumer has read output_vio_nbytes bytes.
WriteCompleteEvent ==
  /\ pc = "idle" /\ ~closed /\ ~shutdown
  /\ fctx.output_set /\ dsRead >= fctx.output_vio_nbytes
  /\ shutdown' = TRUE
  /\ txFlags' = txFlags \cup NotifyEndFlags(dir)
  /\ UNCHANGED <<fctx, pc, dir, inBlocks, written, ndone, inBufNull, closed,
                 status, upSignals, dsRead, nedits, applied, dropped, silent,
                 committed, decidedAt>>

-----------------------------------------------------------------------------
(* The transport around the transform (Traffic Server, not this code).     *)

\* The producer writes a block of k bytes and reenables the transform.
UpstreamWrite(k) ==
  /\ pc = "idle" /\ ~closed /\ ~inBufNull
  /\ written + k <= BodyLen
  /\ inBlocks' = Append(inBlocks, k)
  /\ written' = written + k
  /\ UNCHANGED <<fctx, pc, dir, ndone, inBufNull, closed, status, txFlags,
                 upSignals, dsRead, shutdown, nedits, applied, dropped, silent,
                 committed, decidedAt>>

\* The producer goes away: the input VIO's buffer becomes NULL.
UpstreamDetach ==
  /\ pc = "idle" /\ ~closed /\ ~inBufNull
  /\ inBufNull' = TRUE
  /\ inBlocks' = <<>>
  /\ UNCHANGED <<fctx, pc, dir, written, ndone, closed, status, txFlags,
                 upSignals, dsRead, shutdown, nedits, applied, dropped, silent,
                 committed, decidedAt>>

\* The producer closes the transform after WRITE_COMPLETE or ERROR.
UpstreamClose ==
  /\ pc = "idle" /\ ~closed /\ upSignals # {}
  /\ closed' = TRUE
  /\ UNCHANGED <<fctx, pc, dir, inBlocks, written, ndone, inBufNull, status,
                 txFlags, upSignals, dsRead, shutdown, nedits, applied,
                 dropped, silent, committed, decidedAt>>

\* The consumer reads what the output VIO lets it read.
DownstreamRead ==
  /\ pc = "idle" /\ fctx.output_set /\ ~shutdown
  /\ LET avail == IF Len(fctx.output) < fctx.output_vio_nbytes
                  THEN Len(fctx.output) ELSE fctx.output_vio_nbytes
     IN /\ dsRead < avail
        /\ dsRead' = avail
  /\ UNCHANGED <<fctx, pc, dir, inBlocks, written, ndone, inBufNull, closed,
                 status, txFlags, upSignals, shutdown, nedits, applied,
                 dropped, silent, committed, decidedAt>>

Next ==
  \/ ProcessInputGone
  \/ ProcessData
  \/ ChunkStep
  \/ LoopExit
  \/ ErrorEvent
  \/ WriteCompleteEvent
  \/ \E k \in 1..MaxChunk : UpstreamWrite(k)
  \/ UpstreamDetach
  \/ UpstreamClose
  \/ DownstreamRead

\* Traffic Server schedules the transform on every reenable of either VIO
\* (weak fairness of the handler steps).  The producer and the consumer run
\* between data events, which hold the transaction's mutex: they are
\* enabled only while the transform is idle, so they are strongly fair.
Fairness ==
  /\ WF_vars(ProcessData) /\ WF_vars(ProcessInputGone)
  /\ WF_vars(ChunkStep) /\ WF_vars(LoopExit)
  /\ SF_vars(\E k \in 1..MaxChunk : UpstreamWrite(k))
  /\ SF_vars(DownstreamRead) /\ SF_vars(WriteCompleteEvent)

Spec == Init /\ [][Next]_vars /\ Fairness

-----------------------------------------------------------------------------
(* Properties.                                                             *)

TypeOK ==
  /\ fctx.buffering \in Modes
  /\ fctx.buf_limit \in Limits \cup {0}
  /\ fctx.buffered \in 0..BodyLen
  /\ fctx.bytes_done \in 0..BodyLen
  /\ fctx.offs \in Int
  /\ fctx.edits \in Seq(Edit)
  /\ fctx.reader \in Seq(0..BodyLen)
  /\ fctx.output \in Seq(Token)
  /\ fctx.output_set \in BOOLEAN
  /\ fctx.output_vio_nbytes \in Nat
  /\ pc \in {"idle", "loop", "hung"}
  /\ ndone \in 0..BodyLen /\ written \in ndone..BodyLen
  /\ nedits \in 0..MaxEdits

Running == pc \in {"idle", "loop"}

\* The reader holds exactly the bytes after bytes_done, in order, and
\* buffered counts them; unless the filter discards, they are all the
\* bytes process_data has taken from the input VIO.
BufferHoldsNextBytes ==
  Running =>
    /\ fctx.buffered = Len(fctx.reader)
    /\ \A i \in DOMAIN fctx.reader : fctx.reader[i] = fctx.bytes_done + i - 1
    /\ fctx.buffering # "DISCARD" => fctx.bytes_done + fctx.buffered = ndone

\* The filter as its consumer sees it: the output, bytes_done, the
\* applied edits and, once committed, the output VIO's size.
SE == INSTANCE StreamEdit
        WITH out <- fctx.output, done <- fctx.bytes_done, edits <- applied,
             size <- IF committed THEN fctx.output_vio_nbytes ELSE -1,
             NoSize <- -1

\* The filter implements StreamEdit: every step appends to the output the
\* stream from the old to the new bytes_done with the edits applied in it
\* substituted, in stream order and without overlap (spec section 8,
\* properties 2 and 3), whatever the buffering mode, the block split, the
\* EAGAIN retries and qsort's order of equal starts; the final size, once
\* set by flush_data(last) or the empty write for a vanished input, is the
\* output's length, and no later data event adds bytes or resets it.
ImplementsStreamEdit == SE!Spec

\* Every edit the engine added is pending, applied or abandoned, never two
\* of these and never applied twice; after the final flush none is
\* pending.
EveryEditResolvedOnce ==
  LET pend == {fctx.edits[i].id : i \in DOMAIN fctx.edits}
      app  == {applied[i].id : i \in DOMAIN applied}
  IN Running =>
       /\ pend \cup app \cup dropped = 1..nedits
       /\ pend \cap app = {} /\ pend \cap dropped = {} /\ app \cap dropped = {}
       /\ Len(applied) = Cardinality(app)
       /\ Len(fctx.edits) = Cardinality(pend)
       /\ committed => pend = {}

\* flush_data never sets out to emit bytes it has not buffered: when it
\* clips nbytes at an edit (line 120), the copy loop at lines 164-171 can
\* still complete (otherwise assert(n > 0) fails, or the loop spins).
FlushNeverOverruns == pc # "hung"

\* Every abandoned edit is reported: the flush that drops it returns
\* IB_EBADVAL and its caller logs "Bad/Inconsistent stream edit(s)
\* ignored" (spec section 7: invalid_edit is surfaced and logged).
DroppedEditsReported == silent = {}

\* Once the engine has decided to serve an error document, no further body
\* byte reaches the output: process_data switches the filter to DISCARD
\* ("we discard all this data", lines 324-329), but only at the top of a
\* data event, while blocks of the current event are still flushed.
ErrorDocumentStopsBody == status => fctx.bytes_done <= decidedAt

\* When the consumer finishes (WRITE_COMPLETE on the output VIO, which
\* shuts the output down), it has read every byte flush_data wrote and the
\* final size was set: the body is not truncated.
DownstreamGetsWholeOutput ==
  shutdown => committed /\ dsRead = Len(fctx.output)

\* The transform does not stall: unless the producer closes it, flush_data
\* eventually commits the output VIO's final size (the last flush of
\* process_data) and the consumer reaches WRITE_COMPLETE, having read the
\* bytes the output VIO announced.  Whether those are all the bytes written
\* is DownstreamGetsWholeOutput, which downstream_truncation shows violated.
EventuallyDelivered == <>(closed \/ (committed /\ shutdown))

=============================================================================
