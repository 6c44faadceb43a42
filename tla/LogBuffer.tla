------------------------------ MODULE LogBuffer ------------------------------
(***************************************************************************)
(* The ring of log lines of an agent (src/internal/logbuf/logbuf.go) and   *)
(* the handler that reads it (handleLogs in                                *)
(* src/internal/api/cli_handlers.go).  The goroutines that log share it    *)
(* under a mutex: a write of several lines keeps it until all are stored.  *)
(***************************************************************************)
EXTENDS Integers, Sequences

CONSTANTS
  Messages,   \* lines of text
  Blank,      \* the line with nothing in it
  Capacity,   \* len(entries), 1000 in the code
  MaxLines,   \* bound on the lines of a write
  Requests    \* the numbers of entries asked for

VARIABLES
  entries,   \* the slots, numbered from 0; a slot nothing was written to is Blank
  pos,       \* next write position
  full,      \* whether the ring has wrapped around
  pending,   \* lines the writer that holds the mutex has still to store
  out        \* the latest answer of Last

vars == <<entries, pos, full, pending, out>>

Slots == 0..(Capacity - 1)
Lines == Messages \cup {Blank}

LogBufferAssumption ==
  /\ Capacity \in Nat \ {0} /\ Blank \notin Messages
  /\ MaxLines \in Nat /\ Requests \subseteq Nat \ {0}

TypeOK ==
  /\ entries \in [Slots -> Lines] /\ pos \in Slots /\ full \in BOOLEAN
  /\ pending \in Seq(Lines) /\ out \in Seq(Messages)

Init ==
  /\ entries = [j \in Slots |-> Blank] /\ pos = 0 /\ full = FALSE
  /\ pending = << >> /\ out = << >>

(* A writer takes the mutex.                                               *)
Write(lines) ==
  /\ pending = << >> /\ pending' = lines
  /\ UNCHANGED <<entries, pos, full, out>>

(* One line of the write; a blank one is skipped.                          *)
StoreLine ==
  /\ pending # << >> /\ pending' = Tail(pending)
  /\ IF Head(pending) = Blank THEN UNCHANGED <<entries, pos, full>>
     ELSE /\ entries' = [entries EXCEPT ![pos] = Head(pending)]
          /\ pos' = IF pos + 1 >= Capacity THEN 0 ELSE pos + 1
          /\ full' = (full \/ pos + 1 >= Capacity)
  /\ UNCHANGED out

Total == IF full THEN Capacity ELSE pos
Clamp(n) == IF n > Total THEN Total ELSE n

(* The n latest entries, n at most Total: in a ring that has wrapped they  *)
(* are read from (pos - n) modulo its length.                              *)
Latest(n) ==
  LET start == (pos - n + Capacity) % Capacity IN
  [i \in 1..n |-> IF full THEN entries[(start + i - 1) % Capacity]
                  ELSE entries[pos - n + i - 1]]

(* handleLogs asks for a positive number.                                  *)
Last(n) ==
  /\ pending = << >>
  /\ out' = Latest(Clamp(n))
  /\ UNCHANGED <<entries, pos, full, pending>>

Next ==
  \/ \E k \in 1..MaxLines : \E lines \in [1..k -> Lines] : Write(lines)
  \/ StoreLine
  \/ \E n \in Requests : Last(n)

Spec == Init /\ [][Next]_vars
-----------------------------------------------------------------------------
(* Properties.                                                             *)

(* The ring implements BoundedLog: read in order it holds the latest       *)
(* messages, whether it has wrapped, is about to or has just been filled,  *)
(* and whatever number is asked for.                                       *)
kept == Latest(Total)
Ring == INSTANCE BoundedLog
ImplementsBoundedLog == Ring!Spec
=============================================================================
