----------------------------- MODULE BoundedLog -----------------------------
(***************************************************************************)
(* What GET /api/v1/logs promises: the latest lines that were logged, at   *)
(* most Capacity of them, the oldest first, none of them twice and none    *)
(* left out.                                                               *)
(***************************************************************************)
EXTENDS Integers, Sequences

CONSTANTS Messages, Capacity, Requests  \* the numbers asked for

VARIABLES
  kept,  \* the latest messages, the oldest first
  out    \* the answer to the latest request

Init == kept = << >> /\ out = << >>

(* A message goes to the end; when there is no more room the oldest goes.  *)
Log(e) ==
  /\ kept' = IF Len(kept) < Capacity THEN Append(kept, e) ELSE Append(Tail(kept), e)
  /\ UNCHANGED out

Answer(n) ==
  /\ out' = SubSeq(kept, (IF n < Len(kept) THEN Len(kept) - n ELSE 0) + 1, Len(kept))
  /\ UNCHANGED kept

Next == (\E e \in Messages : Log(e)) \/ (\E n \in Requests : Answer(n))

Spec == Init /\ [][Next]_<<kept, out>>
=============================================================================
