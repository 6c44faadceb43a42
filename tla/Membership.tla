----------------------------- MODULE Membership -----------------------------
(***************************************************************************)
(* Who is online: the nodes table of the coordinator                       *)
(* (src/internal/cluster/cluster.go, src/internal/store/sqlite.go), the    *)
(* heartbeats the agents send every 30 s (src/internal/agent/agent.go) and *)
(* the handlers that store them, admit nodes and remove them               *)
(* (src/internal/api).                                                     *)
(*                                                                         *)
(* Time passes in units of one heartbeat interval, which is also the       *)
(* interval of the offline detector.  In each unit every running agent     *)
(* sends one heartbeat and the detector runs once, in any order.  A        *)
(* timestamp is kept as its age: the units begun since, up to MaxAge.  The *)
(* goroutines tick at moments of their own, so a row of age a is anything  *)
(* between a - 1 and a + 1 intervals old when the detector compares        *)
(* milliseconds: up to Timeout - 1 it is not beyond the timeout, from      *)
(* Timeout + 1 on it is, and at Timeout it may be or not.                  *)
(***************************************************************************)
EXTENDS Integers, FiniteSets

CONSTANTS
  Nodes, Coordinator,
  Timeout,         \* 90000 ms: three units
  MaxAge,          \* bound on ages, beyond the timeout
  MaxFaults        \* bound on failed queries

ASSUME MembershipAssumption ==
  /\ Coordinator \in Nodes
  /\ Timeout \in Nat \ {0, 1} /\ MaxAge \in Nat /\ MaxAge > Timeout
  /\ MaxFaults \in Nat

VARIABLES
  status,    \* nodes.status; "none" before the row exists, "removed" after
  age,       \* how long ago nodes.last_seen was
  live,      \* nodes whose agent runs
  cut,       \* nodes that cannot reach the coordinator
  due,       \* nodes that have still to send this unit's heartbeat
  inFlight,  \* nodes with a heartbeat on its way to the coordinator
  detDue,    \* the detector has still to run in this unit
  snap,      \* DetectOfflineNodes: the stale rows it still has to mark, as
             \* it read them: a function from nodes to ages
  faults,
  missed,    \* history: heartbeats that were not stored since one was, up to
             \* MissLimit
  steady     \* history: nodes that started at once when they had joined, never
             \* stopped, and never missed MissLimit heartbeats in a row

vars == <<status, age, live, cut, due, inFlight, detDue, snap, faults, missed, steady>>
coordVars == <<detDue, snap>>

(* Two of three: the one that follows may come too late.                   *)
MissLimit == Timeout - 1

NoRows == [n \in {} |-> 0]
Known(n) == status[n] \in {"online", "offline"}
Fault == faults < MaxFaults /\ faults' = faults + 1

TypeOK ==
  /\ status \in [Nodes -> {"none", "online", "offline", "removed"}]
  /\ age \in [Nodes -> 0..MaxAge]
  /\ live \subseteq Nodes /\ cut \subseteq Nodes \ {Coordinator}
  /\ due \subseteq live /\ inFlight \subseteq Nodes \ {Coordinator}
  /\ detDue \in BOOLEAN
  /\ DOMAIN snap \subseteq Nodes /\ \A n \in DOMAIN snap : snap[n] \in Timeout..MaxAge
  /\ (detDue \/ DOMAIN snap # {}) => Coordinator \in live
  /\ faults \in 0..MaxFaults
  /\ missed \in [Nodes -> 0..MissLimit] /\ steady \subseteq Nodes

(* pingmesh init: the coordinator's row exists and its agent starts.       *)
Init ==
  /\ status = [n \in Nodes |-> IF n = Coordinator THEN "online" ELSE "none"]
  /\ age = [n \in Nodes |-> 0]
  /\ live = {Coordinator} /\ cut = {} /\ due = {Coordinator} /\ inFlight = {}
  /\ detDue = FALSE /\ snap = NoRows /\ faults = 0
  /\ missed = [n \in Nodes |-> 0] /\ steady = {Coordinator}
-----------------------------------------------------------------------------
(* The clock.  The work of a unit is done before the next one begins: a    *)
(* request is given up after 10 s, and the detector's queries take         *)
(* milliseconds.                                                           *)
Tick ==
  /\ due = {} /\ inFlight = {} /\ ~detDue /\ DOMAIN snap = {}
  /\ age' = [n \in Nodes |-> IF age[n] < MaxAge THEN age[n] + 1 ELSE MaxAge]
  /\ due' = live
  /\ detDue' = (Coordinator \in live)
  /\ steady' = steady \cap live
  /\ UNCHANGED <<status, live, cut, inFlight, snap, faults, missed>>

(* Mutants: the row is inserted when it is not there; a heartbeat leaves   *)
(* the status of a node that was marked offline.                           *)
UpdateNodeStatus_Upsert(n, s, lastSeenAge) ==
  /\ status' = [status EXCEPT ![n] = s]
  /\ age' = [age EXCEPT ![n] = lastSeenAge]

UpdateNodeStatus_KeepOffline(n, s, lastSeenAge) ==
  IF Known(n)
  THEN /\ status' = [status EXCEPT ![n] = IF status[n] = "offline" THEN "offline" ELSE s]
       /\ age' = [age EXCEPT ![n] = lastSeenAge]
  ELSE UNCHANGED <<status, age>>

(* UpdateNodeStatus: an UPDATE, so a row that is not there stays away.     *)
UpdateNodeStatus(n, s, lastSeenAge) ==
  IF Known(n)
  THEN /\ status' = [status EXCEPT ![n] = s]
       /\ age' = [age EXCEPT ![n] = lastSeenAge]
  ELSE UNCHANGED <<status, age>>

Miss(n) ==
  LET m == IF missed[n] < MissLimit THEN missed[n] + 1 ELSE MissLimit IN
  /\ missed' = [missed EXCEPT ![n] = m]
  /\ steady' = IF m = MissLimit THEN steady \ {n} ELSE steady

(* sendHeartbeat on a node: the request leaves, or fails at once.          *)
SendHeartbeat(n) ==
  /\ n \in due /\ n # Coordinator
  /\ due' = due \ {n}
  /\ IF n \in cut \/ Coordinator \notin live
     THEN Miss(n) /\ UNCHANGED inFlight
     ELSE inFlight' = inFlight \cup {n} /\ UNCHANGED <<missed, steady>>
  /\ UNCHANGED <<status, age, live, cut, coordVars, faults>>

(* handlePeerHeartbeat: UpdateHeartbeat stores the coordinator's own time. *)
Heartbeat(n) ==
  /\ n \in inFlight /\ Coordinator \in live
  /\ inFlight' = inFlight \ {n}
  /\ UpdateNodeStatus(n, "online", 0)
  /\ missed' = [missed EXCEPT ![n] = 0]
  /\ UNCHANGED <<live, cut, due, coordVars, faults, steady>>

(* The request is lost: the network fails, or the coordinator is not there.*)
LoseHeartbeat(n) ==
  /\ n \in inFlight /\ (n \in cut \/ Coordinator \notin live)
  /\ inFlight' = inFlight \ {n}
  /\ Miss(n)
  /\ UNCHANGED <<status, age, live, cut, due, coordVars, faults>>

HeartbeatError(n) ==
  /\ n \in inFlight /\ Coordinator \in live
  /\ Fault
  /\ inFlight' = inFlight \ {n}
  /\ Miss(n)
  /\ UNCHANGED <<status, age, live, cut, due, coordVars>>

(* sendHeartbeat on the coordinator updates its own row, and sends nothing.*)
SelfHeartbeat ==
  /\ Coordinator \in due
  /\ due' = due \ {Coordinator}
  /\ \/ /\ UpdateNodeStatus(Coordinator, "online", 0)
        /\ missed' = [missed EXCEPT ![Coordinator] = 0]
        /\ UNCHANGED <<steady, faults>>
     \/ Fault /\ Miss(Coordinator) /\ UNCHANGED <<status, age>>
  /\ UNCHANGED <<live, cut, inFlight, coordVars>>
-----------------------------------------------------------------------------
(* Rows that the detector finds beyond a timeout of t units: those older   *)
(* than t units, and any of those that are as old.                         *)
ReadStale(t) ==
  \E late \in SUBSET {n \in Nodes : status[n] = "online" /\ age[n] = t} :
    snap' = [n \in late \cup {k \in Nodes : status[k] = "online" /\ age[k] > t} |-> age[n]]

(* Mutants: the timeout is one unit shorter; it is taken for seconds.      *)
Detect_Early ==
  /\ detDue
  /\ detDue' = FALSE
  /\ ReadStale(Timeout - 1)
  /\ UNCHANGED <<status, age, live, cut, due, inFlight, faults, missed, steady>>

Detect_Seconds ==
  /\ detDue
  /\ detDue' = FALSE
  /\ ReadStale(Timeout * 1000)
  /\ UNCHANGED <<status, age, live, cut, due, inFlight, faults, missed, steady>>

(* DetectOfflineNodes reads all rows at once ...                           *)
Detect ==
  /\ detDue
  /\ detDue' = FALSE
  /\ ReadStale(Timeout)
  /\ UNCHANGED <<status, age, live, cut, due, inFlight, faults, missed, steady>>

DetectError ==
  /\ detDue /\ Fault
  /\ detDue' = FALSE
  /\ UNCHANGED <<status, age, live, cut, due, inFlight, snap, missed, steady>>

(* ... and writes each stale one back, status and last_seen, in an UPDATE  *)
(* of its own, which may fail.                                             *)
MarkOffline(n) ==
  /\ n \in DOMAIN snap
  /\ snap' = [k \in DOMAIN snap \ {n} |-> snap[k]]
  /\ \/ UpdateNodeStatus(n, "offline", snap[n]) /\ UNCHANGED faults
     \/ Fault /\ UNCHANGED <<status, age>>
  /\ UNCHANGED <<live, cut, due, inFlight, detDue, missed, steady>>
-----------------------------------------------------------------------------
(* handlePeerJoin creates the row of a new node, online and just seen.     *)
Join(n) ==
  /\ status[n] = "none" /\ Coordinator \in live
  /\ status' = [status EXCEPT ![n] = "online"]
  /\ age' = [age EXCEPT ![n] = 0]
  /\ steady' = steady \cup {n}
  /\ UNCHANGED <<live, cut, due, inFlight, coordVars, faults, missed>>

(* handleDeleteNode: the row goes (unless results or history refer to it,  *)
(* when the DELETE fails), the node's agent is not told.                   *)
Remove(n) ==
  /\ Known(n) /\ Coordinator \in live
  /\ status' = [status EXCEPT ![n] = "removed"]
  /\ UNCHANGED <<age, live, cut, due, inFlight, coordVars, faults, missed, steady>>

(* Mutant: the first heartbeat waits for the ticker.                       *)
StartAgent_NoHeartbeat(n) ==
  /\ n \notin live /\ status[n] # "none"
  /\ live' = live \cup {n}
  /\ UNCHANGED <<status, age, cut, due, inFlight, coordVars, faults, missed, steady>>

(* An agent starts and sends a heartbeat at once; the detector waits for   *)
(* its first tick.                                                         *)
StartAgent(n) ==
  /\ n \notin live /\ status[n] # "none"
  /\ live' = live \cup {n} /\ due' = due \cup {n}
  /\ UNCHANGED <<status, age, cut, inFlight, coordVars, faults, missed, steady>>

StopAgent(n) ==
  /\ n \in live
  /\ live' = live \ {n} /\ due' = due \ {n} /\ steady' = steady \ {n}
  /\ IF n = Coordinator THEN detDue' = FALSE /\ snap' = NoRows
     ELSE UNCHANGED coordVars
  /\ UNCHANGED <<status, age, cut, inFlight, faults, missed>>

CutLink(n) ==
  /\ n # Coordinator
  /\ cut' = IF n \in cut THEN cut \ {n} ELSE cut \cup {n}
  /\ UNCHANGED <<status, age, live, due, inFlight, coordVars, faults, missed, steady>>
-----------------------------------------------------------------------------
Next ==
  \/ Tick \/ SelfHeartbeat \/ Detect \/ DetectError
  \/ \E n \in Nodes :
       \/ SendHeartbeat(n) \/ Heartbeat(n) \/ LoseHeartbeat(n) \/ HeartbeatError(n)
       \/ MarkOffline(n) \/ Join(n) \/ Remove(n) \/ StartAgent(n) \/ StopAgent(n)
       \/ CutLink(n)

Spec == Init /\ [][Next]_vars

(* Time does not stand still, requests that can be served are served, and  *)
(* the two goroutines run.                                                 *)
FairSpec ==
  /\ Spec /\ SF_vars(Tick) /\ WF_vars(SelfHeartbeat) /\ WF_vars(Detect)
  /\ \A n \in Nodes :
       /\ WF_vars(SendHeartbeat(n)) /\ WF_vars(Heartbeat(n)) /\ WF_vars(LoseHeartbeat(n))
       /\ WF_vars(MarkOffline(n))
-----------------------------------------------------------------------------
(* Properties.                                                             *)

(* A node that is there since it joined and never misses two heartbeats in *)
(* a row is never marked offline, however the heartbeats, the detector's   *)
(* snapshot and its UPDATEs interleave, failed queries included.  (After   *)
(* two in a row the third decides: it may reach the coordinator before the *)
(* detector finds the row beyond 90 s, or after.)                          *)
SteadyIsOnline ==
  \A n \in steady : status[n] \in {"online", "removed"}

(* The coordinator never counts itself out: a restart after any time stores*)
(* a heartbeat before the detector runs (as long as no query fails).       *)
CoordinatorIsOnline ==
  faults = 0 => status[Coordinator] \in {"online", "removed"}

(* Once removed, a node stays out: neither a heartbeat that was on its way *)
(* or that its agent goes on sending, nor the detector's snapshot brings   *)
(* the row back.                                                           *)
RemovedForGood ==
  [][\A n \in Nodes : status[n] = "removed" => status'[n] = "removed"]_vars

(* A node that falls silent while the coordinator runs is found out.       *)
SilentIsOffline ==
  \A n \in Nodes \ {Coordinator} :
    <>[](Coordinator \in live /\ (n \in cut \/ n \notin live) /\ status[n] # "none")
      => <>[](status[n] \in {"offline", "removed"})

(* A node that can reach the coordinator from some time on is, from some   *)
(* time on, online for good: a mark on a stale snapshot is undone by the   *)
(* next heartbeat.                                                         *)
ConnectedIsOnline ==
  \A n \in Nodes \ {Coordinator} :
    <>[]({n, Coordinator} \subseteq live /\ n \notin cut /\ status[n] # "none")
      => <>[](status[n] \in {"online", "removed"})

(* cluster.go, DetectOfflineNodes: "marks nodes as offline if they haven't *)
(* been seen recently".  A heartbeat stored between the SELECT and the     *)
(* UPDATE is lost: the row is written back as it was read.                 *)
MarkedOnlyWhenSilent ==
  [][\A n \in Nodes :
       status[n] = "online" /\ status'[n] = "offline" => age[n] >= Timeout]_vars
=============================================================================
