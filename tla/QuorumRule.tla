----------------------------- MODULE QuorumRule -----------------------------
(***************************************************************************)
(* The two decision rules of PingMesh: when enough nodes agree             *)
(* (src/internal/consensus/evaluator.go), and how many of a node's latest  *)
(* check results agree with each other (the two counting queries of        *)
(* src/internal/store/sqlite.go).                                          *)
(***************************************************************************)
EXTENDS Integers, FiniteSets, Sequences

(* EvaluateQuorum: count of the total nodes agree.  A type that is neither *)
(* of the two known names is treated as a majority.                        *)
EvaluateQuorum(type, n, count, total) ==
  IF type = "n_of_m" THEN count >= n ELSE count > total \div 2

-----------------------------------------------------------------------------
(* A window is the answer of the counting queries for one monitor and one  *)
(* node: the statuses of its latest rows, the newest first, cut at the     *)
(* LIMIT of the query.                                                     *)

(* The rows before the first one whose status ends the streak: anything    *)
(* but "up" counts as a failure, a degraded check too.                     *)
CountConsecutiveFailures(window) ==
  Cardinality({i \in DOMAIN window : \A j \in 1..i : window[j] # "up"})

CountConsecutiveSuccesses(window) ==
  Cardinality({i \in DOMAIN window : \A j \in 1..i : window[j] = "up"})

(* Mutant: the query has no LIMIT.                                         *)
InsertRow_Unlimited(window, pos, status, limit) ==
  [i \in 1..(Len(window) + 1) |->
     IF i < pos THEN window[i] ELSE IF i = pos THEN status ELSE window[i - 1]]

(* One more row.  The queries sort by the timestamp the checking node put  *)
(* in the result, so a result that was delayed lands at its place pos among*)
(* the rows it is older than, and the oldest row leaves a full window.     *)
InsertRow(window, pos, status, limit) ==
  [i \in 1..(IF Len(window) < limit THEN Len(window) + 1 ELSE limit) |->
     IF i < pos THEN window[i] ELSE IF i = pos THEN status ELSE window[i - 1]]
=============================================================================
