-------------------------- MODULE IncidentLifecycle --------------------------
(***************************************************************************)
(* What the incidents of a PingMesh coordinator promise, whatever happens  *)
(* to the process that keeps them: a monitor has at most one incident at a *)
(* time, an incident only moves forward, the dispatcher hears of a         *)
(* confirmation at most once and while the incident is confirmed, and of a *)
(* recovery at most once and after it.  Why an incident is opened,         *)
(* confirmed or resolved is left open.                                     *)
(***************************************************************************)
EXTENDS Integers, Sequences

CONSTANT Monitors

VARIABLES
  incidents,   \* sequence of [monitor, status], oldest first
  notices      \* sequence of [inc, event]: what the dispatcher was told

Active(m) == {i \in DOMAIN incidents : incidents[i].monitor = m
                                       /\ incidents[i].status # "resolved"}
Told(i, event) == \E k \in DOMAIN notices : notices[k] = [inc |-> i, event |-> event]

Init == incidents = << >> /\ notices = << >>

Open(m) ==
  /\ Active(m) = {}
  /\ incidents' = Append(incidents, [monitor |-> m, status |-> "suspect"])
  /\ UNCHANGED notices

Confirm(i) ==
  /\ incidents[i].status = "suspect"
  /\ incidents' = [incidents EXCEPT ![i] = [@ EXCEPT !.status = "confirmed"]]
  /\ UNCHANGED notices

(* A suspect may be resolved too: its confirmation can be lost with the    *)
(* process, or fail, and the monitor recover before it is tried again.     *)
Resolve(i) ==
  /\ incidents[i].status # "resolved"
  /\ incidents' = [incidents EXCEPT ![i] = [@ EXCEPT !.status = "resolved"]]
  /\ UNCHANGED notices

Tell(i, event) ==
  /\ ~Told(i, event)
  /\ incidents[i].status = IF event = "alert" THEN "confirmed" ELSE "resolved"
  /\ notices' = Append(notices, [inc |-> i, event |-> event])
  /\ UNCHANGED incidents

Next ==
  \/ \E m \in Monitors : Open(m)
  \/ \E i \in DOMAIN incidents :
       Confirm(i) \/ Resolve(i) \/ \E event \in {"alert", "recovery"} : Tell(i, event)

Spec == Init /\ [][Next]_<<incidents, notices>>
=============================================================================
