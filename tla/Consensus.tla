------------------------------ MODULE Consensus ------------------------------
(***************************************************************************)
(* The coordinator's consensus loop (src/internal/agent/agent.go), with the *)
(* incident manager it calls (src/internal/consensus/incident.go) and the   *)
(* tables they read and write (src/internal/store/sqlite.go).              *)
(*                                                                         *)
(* The loop is one goroutine, but it shares the database with the HTTP     *)
(* handlers that store results and heartbeats and with the goroutine that  *)
(* marks nodes offline.  The database has one connection, so a query is    *)
(* atomic and everything may change between two queries: each action of    *)
(* the loop below makes at most one query.  A query may fail, and the      *)
(* process may stop anywhere; the database survives, the goroutine's       *)
(* variables do not.                                                       *)
(***************************************************************************)
EXTENDS QuorumRule

CONSTANTS
  Nodes,              \* rows of the nodes table
  Monitors,           \* enabled rows of the monitors table
  NoMonitor,          \* value of cur between two rounds
  FailureThreshold, RecoveryThreshold, QuorumType, QuorumN,
                      \* columns of a monitor, as functions of the monitor:
                      \* no handler changes them once the row is created
  ResultLimit,        \* LIMIT of the counting queries (100 in the code)
  CheckStatuses,      \* the statuses a check may report
  MaxIncidents,       \* bound on the rows of the incidents table
  MaxFaults           \* bound on failed queries and crashes together

ASSUME ConstantsAssumption ==
  /\ IsFiniteSet(Nodes) /\ NoMonitor \notin Monitors
  /\ FailureThreshold \in [Monitors -> Nat \ {0}]
  /\ RecoveryThreshold \in [Monitors -> Nat \ {0}]
  /\ QuorumN \in [Monitors -> Nat]
  /\ CheckStatuses \subseteq {"up", "degraded", "down"}
  /\ ResultLimit \in Nat \ {0} /\ MaxIncidents \in Nat /\ MaxFaults \in Nat

VARIABLES
  results,            \* check_results: the window of each monitor and node
  nodeStatus,         \* nodes.status
  incidents,          \* incidents, in the order of created_at
  notices,            \* the calls made of the alert dispatcher, in order
  faults,             \* failed queries and crashes so far
  pc,                 \* where the loop is
  todo,               \* monitors this round has still to evaluate
  online,             \* onlineNodes, read once per round
  cur,                \* monitor being evaluated
  remaining,          \* nodes the current for loop has still to ask about
  failing,            \* failingNodeIDs, whose size is failCount
  recovered,          \* the nodes recoveryCount has counted
  inc,                \* incident.ID, an index into incidents; 0 is nil
  held                \* *incident: the loop's own copy of that row

incident == <<inc, held>>
loopVars == <<pc, todo, online, cur, remaining, failing, recovered, incident>>
vars == <<results, nodeStatus, incidents, notices, faults, loopVars>>

IncidentStatuses == {"suspect", "confirmed", "resolved"}
IncidentRows == [monitor : Monitors, status : IncidentStatuses, nodes : SUBSET Nodes]
NoIncident == [monitor |-> NoMonitor, status |-> "resolved", nodes |-> {}]
Notices == [inc : 1..MaxIncidents, event : {"alert", "recovery"}]

TablesTypeOK ==
  /\ results \in [Monitors \X Nodes -> Seq(CheckStatuses)]
  /\ \A p \in Monitors \X Nodes : Len(results[p]) <= ResultLimit
  /\ nodeStatus \in [Nodes -> {"online", "offline"}]
  /\ incidents \in Seq(IncidentRows)
  /\ Len(incidents) <= MaxIncidents
  /\ notices \in Seq(Notices)
  /\ faults \in 0..MaxFaults

LoopTypeOK ==
  /\ pc \in {"idle", "failures", "create", "confirm", "alert", "successes",
             "recovery"}
  /\ todo \subseteq Monitors
  /\ cur \in IF pc = "idle" THEN {NoMonitor} ELSE Monitors
  /\ online \subseteq Nodes /\ remaining \subseteq online
  /\ failing \subseteq online /\ recovered \subseteq online
  /\ inc \in 0..Len(incidents) /\ held \in IncidentRows \cup {NoIncident}

TypeOK == TablesTypeOK /\ LoopTypeOK

-----------------------------------------------------------------------------
(* Queries.                                                                *)

(* Mutant: the query lists the nodes without asking for their status.      *)
OnlineNodes_All == Nodes

(* GetOnlineNodes.                                                         *)
OnlineNodes == {n \in Nodes : nodeStatus[n] = "online"}
IsFailing(m, n) ==
  CountConsecutiveFailures(results[m, n]) >= FailureThreshold[m]
IsRecovered(m, n) ==
  CountConsecutiveSuccesses(results[m, n]) >= RecoveryThreshold[m]
QuorumOf(m, agreeing, nodes) ==
  EvaluateQuorum(QuorumType[m], QuorumN[m],
                 Cardinality(agreeing), Cardinality(nodes))

ActiveIncidents(m) ==
  {i \in DOMAIN incidents : incidents[i].monitor = m
                            /\ incidents[i].status # "resolved"}

(* Mutant: the query asks for status = 'confirmed'.                        *)
GetActiveIncident_Confirmed(m) ==
  LET confirmed == {i \in ActiveIncidents(m) : incidents[i].status = "confirmed"} IN
  IF confirmed = {} THEN 0 ELSE CHOOSE i \in confirmed : \A j \in confirmed : j <= i

(* GetActiveIncident: the newest one that is not resolved, 0 if none.      *)
GetActiveIncident(m) ==
  IF ActiveIncidents(m) = {} THEN 0
  ELSE CHOOSE i \in ActiveIncidents(m) : \A j \in ActiveIncidents(m) : j <= i

-----------------------------------------------------------------------------
(* Where the loop goes: to another monitor, or to wait for the next tick.  *)

Hold(i, row) == inc' = i /\ held' = row

(* Mutant: the counters are declared outside the range over the monitors.  *)
StartMonitor_KeepCounts(m, rest, nodes) ==
  /\ pc' = "failures" /\ cur' = m /\ todo' = rest /\ online' = nodes
  /\ remaining' = nodes /\ Hold(0, NoIncident) /\ UNCHANGED <<failing, recovered>>

StartMonitor(m, rest, nodes) ==
  /\ pc' = "failures" /\ cur' = m /\ todo' = rest /\ online' = nodes
  /\ remaining' = nodes /\ failing' = {} /\ recovered' = {}
  /\ Hold(0, NoIncident)

EndRound ==
  /\ pc' = "idle" /\ cur' = NoMonitor /\ todo' = {} /\ online' = {}
  /\ remaining' = {} /\ failing' = {} /\ recovered' = {} /\ Hold(0, NoIncident)

(* evaluateMonitorConsensus returns, and the range over monitors goes on.  *)
Return ==
  \/ todo = {} /\ EndRound
  \/ \E m \in todo : StartMonitor(m, todo \ {m}, online)

Goto(label) == pc' = label /\ UNCHANGED <<todo, online, cur>>
Tables == <<results, nodeStatus, incidents, notices>>
Fault == faults < MaxFaults /\ faults' = faults + 1
-----------------------------------------------------------------------------
(* What the rest of the process does to the tables.                        *)

(* handlePeerResult, or the coordinator's own scheduler, stores a result.  *)
(* It is the newest of its monitor and node, or it is late and lands       *)
(* behind pos - 1 newer ones.                                              *)
RecordResult(m, n, status, pos) ==
  /\ pos \in 1..(Len(results[m, n]) + 1) /\ pos <= ResultLimit
  /\ results' = [results EXCEPT ![<<m, n>>] =
                   InsertRow(@, pos, status, ResultLimit)]
  /\ UNCHANGED <<nodeStatus, incidents, notices, faults, loopVars>>

(* UpdateHeartbeat, and the UPDATE that DetectOfflineNodes makes.          *)
SetNodeStatus(n, status) ==
  /\ nodeStatus' = [nodeStatus EXCEPT ![n] = status]
  /\ UNCHANGED <<results, incidents, notices, faults, loopVars>>
-----------------------------------------------------------------------------
(* evaluateConsensus, on a tick: the monitors and the online nodes are     *)
(* read once for the whole round.  With no node online it returns.         *)
Tick ==
  /\ pc = "idle" /\ OnlineNodes # {}
  /\ \E m \in Monitors : StartMonitor(m, Monitors \ {m}, OnlineNodes)
  /\ UNCHANGED <<Tables, faults>>

(* The first loop of evaluateMonitorConsensus, one node.                   *)
CountFailures(n) ==
  /\ pc = "failures" /\ n \in remaining
  /\ remaining' = remaining \ {n}
  /\ failing' = IF IsFailing(cur, n) THEN failing \cup {n} ELSE failing
  /\ UNCHANGED <<Tables, faults, pc, todo, online, cur, recovered, incident>>

FailureQuorum == QuorumOf(cur, failing, online)

(* GetActiveIncident found a row, and all its columns are copied.          *)
ReadActiveIncident ==
  Hold(GetActiveIncident(cur), incidents[GetActiveIncident(cur)])

(* The failure quorum is met.  GetOrCreateIncident finds an active         *)
(* incident, which is already confirmed or is left over as a suspect, or   *)
(* finds none and goes on to create one.                                   *)
FindConfirmed ==
  /\ pc = "failures" /\ remaining = {} /\ FailureQuorum
  /\ GetActiveIncident(cur) # 0
  /\ incidents[GetActiveIncident(cur)].status # "suspect"
  /\ Return
  /\ UNCHANGED <<Tables, faults>>

(* Mutants: any active incident is confirmed (again); only an incident     *)
(* this evaluation creates is confirmed.                                   *)
FindSuspect_Any ==
  /\ pc = "failures" /\ remaining = {} /\ FailureQuorum
  /\ GetActiveIncident(cur) # 0
  /\ ReadActiveIncident
  /\ Goto("confirm")
  /\ UNCHANGED <<Tables, faults, remaining, failing, recovered>>

FindSuspect_Leave ==
  /\ pc = "failures" /\ remaining = {} /\ FailureQuorum
  /\ GetActiveIncident(cur) # 0
  /\ Return
  /\ UNCHANGED <<Tables, faults>>

FindSuspect ==
  /\ pc = "failures" /\ remaining = {} /\ FailureQuorum
  /\ GetActiveIncident(cur) # 0
  /\ incidents[GetActiveIncident(cur)].status = "suspect"
  /\ ReadActiveIncident
  /\ Goto("confirm")
  /\ UNCHANGED <<Tables, faults, remaining, failing, recovered>>

FindNone ==
  /\ pc = "failures" /\ remaining = {} /\ FailureQuorum
  /\ GetActiveIncident(cur) = 0
  /\ Goto("create")
  /\ UNCHANGED <<Tables, faults, remaining, failing, recovered, incident>>

NewIncident == [monitor |-> cur, status |-> "suspect", nodes |-> {}]

(* Mutant: the new incident is alerted of as a suspect.                    *)
CreateIncident_AlertAtOnce ==
  /\ pc = "create" /\ Len(incidents) < MaxIncidents
  /\ incidents' = Append(incidents, NewIncident)
  /\ Hold(Len(incidents) + 1, NewIncident)
  /\ Goto("alert")
  /\ UNCHANGED <<results, nodeStatus, notices, faults,
                 remaining, failing, recovered>>

CreateIncident ==
  /\ pc = "create" /\ Len(incidents) < MaxIncidents
  /\ incidents' = Append(incidents, NewIncident)
  /\ Hold(Len(incidents) + 1, NewIncident)
  /\ Goto("confirm")
  /\ UNCHANGED <<results, nodeStatus, notices, faults,
                 remaining, failing, recovered>>

(* UpdateIncident: every column of the row is written from the copy, which *)
(* was read or made by an earlier query and then assigned to.              *)
UpdateIncident(row) ==
  /\ incidents' = [incidents EXCEPT ![inc] = row]
  /\ held' = row

(* Mutant: nobody is told.                                                 *)
ConfirmIncident_Silent ==
  /\ pc = "confirm"
  /\ incidents' = [incidents EXCEPT ![inc] =
                     [held EXCEPT !.status = "confirmed", !.nodes = failing]]
  /\ Return
  /\ UNCHANGED <<results, nodeStatus, notices, faults>>

ConfirmIncident ==
  /\ pc = "confirm"
  /\ UpdateIncident([held EXCEPT !.status = "confirmed", !.nodes = failing])
  /\ Goto("alert")
  /\ UNCHANGED <<results, nodeStatus, notices, faults,
                 remaining, failing, recovered, inc>>

Notify(event) == notices' = Append(notices, [inc |-> inc, event |-> event])

SendAlert ==
  /\ pc = "alert"
  /\ Notify("alert")
  /\ Return
  /\ UNCHANGED <<results, nodeStatus, incidents, faults>>

(* No failure quorum.  With no active incident there is nothing to do;     *)
(* otherwise the successes are counted, in new queries.                    *)
NothingActive ==
  /\ pc = "failures" /\ remaining = {} /\ ~FailureQuorum
  /\ GetActiveIncident(cur) = 0
  /\ Return
  /\ UNCHANGED <<Tables, faults>>

(* Mutant: the row is read without its confirming_nodes.                   *)
FindActive_WithoutNodes ==
  /\ pc = "failures" /\ remaining = {} /\ ~FailureQuorum
  /\ GetActiveIncident(cur) # 0
  /\ Hold(GetActiveIncident(cur), [incidents[GetActiveIncident(cur)] EXCEPT !.nodes = {}])
  /\ remaining' = online
  /\ Goto("successes")
  /\ UNCHANGED <<Tables, faults, failing, recovered>>

FindActive ==
  /\ pc = "failures" /\ remaining = {} /\ ~FailureQuorum
  /\ GetActiveIncident(cur) # 0
  /\ ReadActiveIncident
  /\ remaining' = online
  /\ Goto("successes")
  /\ UNCHANGED <<Tables, faults, failing, recovered>>

(* Mutant: a node that does not see a failure has recovered.               *)
CountSuccesses_NotFailing(n) ==
  /\ pc = "successes" /\ n \in remaining
  /\ remaining' = remaining \ {n}
  /\ recovered' = IF IsFailing(cur, n) THEN recovered ELSE recovered \cup {n}
  /\ UNCHANGED <<Tables, faults, pc, todo, online, cur, failing, incident>>

CountSuccesses(n) ==
  /\ pc = "successes" /\ n \in remaining
  /\ remaining' = remaining \ {n}
  /\ recovered' = IF IsRecovered(cur, n) THEN recovered \cup {n} ELSE recovered
  /\ UNCHANGED <<Tables, faults, pc, todo, online, cur, failing, incident>>

RecoveryQuorum == QuorumOf(cur, recovered, online)

NotRecovered ==
  /\ pc = "successes" /\ remaining = {} /\ ~RecoveryQuorum
  /\ Return
  /\ UNCHANGED <<Tables, faults>>

ResolveIncident ==
  /\ pc = "successes" /\ remaining = {} /\ RecoveryQuorum
  /\ UpdateIncident([held EXCEPT !.status = "resolved"])
  /\ Goto("recovery")
  /\ UNCHANGED <<results, nodeStatus, notices, faults,
                 remaining, failing, recovered, inc>>

SendRecovery ==
  /\ pc = "recovery"
  /\ Notify("recovery")
  /\ Return
  /\ UNCHANGED <<results, nodeStatus, incidents, faults>>
-----------------------------------------------------------------------------
(* A counting query fails: the node is skipped, but it stays in the total. *)
SkipNode(n) ==
  /\ pc \in {"failures", "successes"} /\ n \in remaining
  /\ Fault
  /\ remaining' = remaining \ {n}
  /\ UNCHANGED <<Tables, pc, todo, online, cur, failing, recovered, incident>>

(* Mutant: the error of ResolveIncident is logged, and the recovery sent.  *)
GiveUp_SendRecovery ==
  /\ pc = "successes" /\ remaining = {} /\ RecoveryQuorum
  /\ Fault
  /\ Goto("recovery")
  /\ UNCHANGED <<Tables, remaining, failing, recovered, incident>>

(* Any other query fails, and the evaluation of this monitor is given up:  *)
(* GetActiveIncident, the INSERT, or one of the two UPDATEs.               *)
GiveUp ==
  /\ \/ pc = "failures" /\ remaining = {}
     \/ pc \in {"create", "confirm"}
     \/ pc = "successes" /\ remaining = {} /\ RecoveryQuorum
  /\ Fault
  /\ Return
  /\ UNCHANGED Tables

(* The coordinator stops and is started again.                             *)
Crash ==
  /\ pc # "idle"
  /\ Fault
  /\ EndRound
  /\ UNCHANGED Tables
-----------------------------------------------------------------------------
Init ==
  /\ results = [p \in Monitors \X Nodes |-> << >>]
  /\ nodeStatus = [n \in Nodes |-> "offline"]
  /\ incidents = << >> /\ notices = << >> /\ faults = 0
  /\ pc = "idle" /\ cur = NoMonitor /\ todo = {} /\ online = {}
  /\ remaining = {} /\ failing = {} /\ recovered = {}
  /\ inc = 0 /\ held = NoIncident

(* The steps of the loop that go on with its work.                         *)
LoopStep ==
  \/ Tick \/ \E n \in Nodes : CountFailures(n) \/ CountSuccesses(n)
  \/ FindConfirmed \/ FindSuspect \/ FindNone \/ CreateIncident
  \/ ConfirmIncident \/ SendAlert
  \/ NothingActive \/ FindActive \/ NotRecovered \/ ResolveIncident
  \/ SendRecovery

FaultStep == GiveUp \/ Crash \/ \E n \in Nodes : SkipNode(n)

Environment ==
  \/ \E m \in Monitors, n \in Nodes, s \in CheckStatuses, pos \in 1..ResultLimit :
       RecordResult(m, n, s, pos)
  \/ \E n \in Nodes, s \in {"online", "offline"} : SetNodeStatus(n, s)

Next == LoopStep \/ FaultStep \/ Environment

Spec == Init /\ [][Next]_vars
-----------------------------------------------------------------------------
(* Properties.                                                             *)

(* A monitor never has two incidents that are not resolved, although the   *)
(* look-up and the INSERT of GetOrCreateIncident are two queries and the   *)
(* process may stop between any two of them.                               *)
AtMostOneActive ==
  \A m \in Monitors : \A i, j \in ActiveIncidents(m) : i = j

(* The dispatcher is told of a confirmation, and of a recovery, at most    *)
(* once per incident, across failed queries and restarts.                  *)
NoDuplicateNotices ==
  \A j, k \in DOMAIN notices : notices[j] = notices[k] => j = k

(* What the loop's copy of the incident is worth, although it was read or  *)
(* written by an earlier query: where a query or a notification follows,   *)
(* the row still is that copy, has the status the step relies on, and the  *)
(* notification has not been made.  NoticesAreEarned says what a           *)
(* notification made earlier proves of the row.                            *)
Told(i, event) == \E k \in DOMAIN notices : notices[k] = [inc |-> i, event |-> event]
LoopHolds(status) ==
  /\ inc \in DOMAIN incidents /\ held = incidents[inc]
  /\ held.monitor = cur /\ held.status \in status

LoopKnowsItsIncident ==
  /\ pc = "create" => ActiveIncidents(cur) = {}
  /\ pc = "confirm" => LoopHolds({"suspect"})
  /\ pc = "alert" => LoopHolds({"confirmed"}) /\ ~Told(inc, "alert")
  /\ pc = "successes" => LoopHolds({"suspect", "confirmed"})
  /\ pc = "recovery" => LoopHolds({"resolved"}) /\ ~Told(inc, "recovery")

NoticesAreEarned ==
  \A k \in DOMAIN notices :
    LET i == notices[k].inc IN
    /\ i \in DOMAIN incidents
    /\ notices[k].event = "alert" => incidents[i].status # "suspect"
    /\ notices[k].event = "recovery" => incidents[i].status = "resolved"

(* The coordinator implements the life cycle of IncidentLifecycle: the     *)
(* confirming nodes of a row are forgotten and the rest of the loop        *)
(* stutters.                                                               *)
withoutNodes ==
  [i \in DOMAIN incidents |->
     [monitor |-> incidents[i].monitor, status |-> incidents[i].status]]
Lifecycle == INSTANCE IncidentLifecycle WITH incidents <- withoutNodes
ImplementsLifecycle == Lifecycle!Spec

(* The nodes that confirmed an outage stay on record.  The resolution      *)
(* writes every column back from the copy GetActiveIncident made before    *)
(* the successes were counted, and must not take them off.                 *)
ConfirmingNodesAreFinal ==
  [][\A i \in DOMAIN incidents :
       incidents[i].status # "suspect" => incidents'[i].nodes = incidents[i].nodes]_vars

(* As long as no query fails and the process keeps running, nobody hears   *)
(* of a recovery without having heard of the outage before.                *)
RecoveryFollowsAlert ==
  \A k \in DOMAIN notices :
    notices[k].event = "recovery" =>
      \E j \in 1..(k - 1) : notices[j] = [inc |-> notices[k].inc, event |-> "alert"]

(* README.md: "Only when a quorum of nodes agrees does an incident get     *)
(* confirmed".  With n_of_m and no quorum_n, which no default fills in and *)
(* no validation refuses, no node has to agree.                            *)
ConfirmedBySomeNode ==
  \A i \in DOMAIN incidents :
    incidents[i].status = "confirmed" => incidents[i].nodes # {}
=============================================================================
