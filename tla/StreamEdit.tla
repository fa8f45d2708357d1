------------------------------ MODULE StreamEdit ------------------------------
(***************************************************************************)
(* What the body filter promises downstream (spec section 4, key contracts *)
(* and section 8, properties 2-4), without buffering, flushing or the     *)
(* transport: the output grows only by the next stretch of the stream with *)
(* the edits that fall in it substituted, edits are applied in stream      *)
(* order without overlap, and once the final size is committed it equals   *)
(* the output's length and nothing changes any more.                       *)
(*                                                                         *)
(* Byte tokens are those of TsFilter: <<0, p>> is stream byte p and        *)
(* <<e.id, k>> byte k of edit e's replacement.                             *)
(***************************************************************************)
EXTENDS Integers, Sequences

CONSTANTS
  BodyLen,  \* length of the stream
  NoSize    \* the final size has not been committed

VARIABLES
  out,      \* bytes emitted downstream
  done,     \* stream bytes consumed: copied through or deleted
  edits,    \* edits applied so far, in order
  size      \* the committed final size, or NoSize

vars == <<out, done, edits, size>>

\* The replacement bytes of an edit.
Inserted(e) == [k \in 1..e.repl |-> <<e.id, k>>]

\* Stream bytes [p, hi) with the edits of es, in order, substituted.
RECURSIVE Edited(_, _, _)
Edited(p, hi, es) ==
  IF es = <<>>
  THEN [i \in 1..(hi - p) |-> <<0, p + i - 1>>]
  ELSE LET e == Head(es) IN
       [i \in 1..(e.start - p) |-> <<0, p + i - 1>>]
         \o Inserted(e) \o Edited(e.start + e.bytes, hi, Tail(es))

\* es lie within [lo, hi), each one after the end of the one before.
Ordered(es, lo, hi) ==
  \A i \in 1..Len(es) :
    /\ es[i].start >= (IF i = 1 THEN lo ELSE es[i - 1].start + es[i - 1].bytes)
    /\ es[i].start + es[i].bytes <= hi

Init ==
  /\ out = <<>>
  /\ done = 0
  /\ edits = <<>>
  /\ size = NoSize

\* Emit the stream up to done' with the newly applied edits substituted,
\* and possibly commit the final size.  Before the commit only.
Emit ==
  LET new == SubSeq(edits', Len(edits) + 1, Len(edits')) IN
  /\ size = NoSize
  /\ done <= done' /\ done' <= BodyLen
  /\ Len(edits) <= Len(edits') /\ SubSeq(edits', 1, Len(edits)) = edits
  /\ Ordered(new, done, done')
  /\ out' = out \o Edited(done, done', new)
  /\ size' \in {NoSize, Len(out')}

Next == Emit

Spec == Init /\ [][Next]_vars

=============================================================================
