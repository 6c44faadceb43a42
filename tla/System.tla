------------------------------- MODULE System -------------------------------
(***************************************************************************)
(* The consensus loop in its cluster.  Consensus leaves its environment    *)
(* free; here the rows it reads come from somewhere: the agents that run   *)
(* check what they see of the targets, their heartbeats keep them online,  *)
(* and the detector takes those that stopped off line                      *)
(* (src/internal/agent/agent.go, src/internal/cluster/cluster.go).         *)
(*                                                                         *)
(* How a check comes to its verdict and a result to its place in the table *)
(* is Checking's subject, the timing of heartbeats and detector            *)
(* Membership's.  Here each is one step that does what those modules       *)
(* promise, and what is new is how they meet: the agents that make the     *)
(* quorum come and go, and come back with windows of old results, between  *)
(* any two queries of a round.                                             *)
(***************************************************************************)
EXTENDS Consensus

CONSTANT Coordinator

ASSUME SystemAssumption ==
  /\ Coordinator \in Nodes /\ {"up", "down"} \subseteq CheckStatuses

VARIABLES
  sees,   \* what a check of the monitor by the node would report
  live,   \* nodes whose agent runs and reaches the coordinator
  stale   \* nodes online whose row is too old, or was when the detector read it

environment == <<sees, live, stale>>
systemVars == <<vars, environment>>

SystemTypeOK ==
  /\ TypeOK
  /\ sees \in [Monitors \X Nodes -> CheckStatuses]
  /\ live \subseteq Nodes /\ Coordinator \in live /\ stale \subseteq Nodes

SystemInit ==
  /\ Init
  /\ sees = [p \in Monitors \X Nodes |-> "up"]
  /\ live = {Coordinator} /\ stale = {}
-----------------------------------------------------------------------------
(* A target goes up or down, or the way to it from one of the nodes.       *)
TargetChanges(m, n, status) ==
  /\ sees' = [sees EXCEPT ![<<m, n>>] = status]
  /\ UNCHANGED <<vars, live, stale>>

(* An agent is started or its link mended; it stops or is cut off.         *)
StartAgent(n) ==
  /\ n \notin live /\ live' = live \cup {n}
  /\ UNCHANGED <<vars, sees, stale>>

StopAgent(n) ==
  /\ n \in live \ {Coordinator} /\ live' = live \ {n}
  /\ UNCHANGED <<vars, sees, stale>>

(* A heartbeat of the node is stored.  The detector may have read its row  *)
(* before that.                                                            *)
Heartbeat(n) ==
  /\ n \in live
  /\ SetNodeStatus(n, "online")
  /\ stale' \in {stale, stale \ {n}}
  /\ UNCHANGED <<sees, live>>

(* A node that is online has been silent for too long: how long that is is *)
(* for Membership, which shows that one that keeps sending is left alone.  *)
FallSilent(n) ==
  /\ n \in Nodes \ live /\ nodeStatus[n] = "online"
  /\ stale' = stale \cup {n}
  /\ UNCHANGED <<vars, sees, live>>

(* The detector marks a node, which may have come back in the meantime.    *)
MarkOffline(n) ==
  /\ n \in stale
  /\ SetNodeStatus(n, "offline")
  /\ stale' = stale \ {n}
  /\ UNCHANGED <<sees, live>>

(* A check ends, and its result is the newest the coordinator has.         *)
Check(m, n) ==
  /\ n \in live
  /\ RecordResult(m, n, sees[<<m, n>>], 1)
  /\ UNCHANGED environment

(* The coordinator's loop goes on, or suffers a fault.                     *)
GoOn == LoopStep /\ UNCHANGED environment
Fail == FaultStep /\ UNCHANGED environment
-----------------------------------------------------------------------------
Cluster ==
  \/ \E n \in Nodes :
       StartAgent(n) \/ StopAgent(n) \/ Heartbeat(n) \/ FallSilent(n) \/ MarkOffline(n)
  \/ \E m \in Monitors, n \in Nodes :
       Check(m, n) \/ \E s \in CheckStatuses : TargetChanges(m, n, s)

SystemNext == GoOn \/ Fail \/ Cluster

SystemSpec == SystemInit /\ [][SystemNext]_systemVars

(* The loop goes round; agents that run send heartbeats, and check their   *)
(* monitors (MonitorsAreChecked of Scheduler) with results that do arrive; *)
(* the detector runs.                                                      *)
FairSystem ==
  /\ SystemSpec
  /\ WF_systemVars(GoOn)
  /\ \A n \in Nodes : /\ WF_systemVars(Heartbeat(n))
                       /\ WF_systemVars(FallSilent(n)) /\ WF_systemVars(MarkOffline(n))
  /\ \A m \in Monitors, n \in Nodes : WF_systemVars(Check(m, n))
-----------------------------------------------------------------------------
(* Properties.                                                             *)

TableFull == Len(incidents) = MaxIncidents

(* A confirmed incident, of which the channels were told unless a crash    *)
(* came between.                                                           *)
Alerted(m) ==
  \E i \in ActiveIncidents(m) :
    incidents[i].status = "confirmed" /\ (Told(i, "alert") \/ faults > 0)

(* Whatever nodes came, went and reported before: when from some time on   *)
(* the agents that run are L, and those in S, enough for a quorum of L,    *)
(* see the target down, the monitor is Alerted for good (unless it would   *)
(* be one more incident than the model has room for).                      *)
OutageIsAlerted ==
  \A m \in Monitors : \A L \in SUBSET Nodes : \A S \in SUBSET L :
    QuorumOf(m, S, L) /\ <>[](live = L /\ \A n \in S : sees[<<m, n>>] = "down")
      => <>[](Alerted(m) \/ (TableFull /\ ActiveIncidents(m) = {}))

(* No incident is open, and the channels were told of every recovery       *)
(* unless a crash came between.                                            *)
Announced(m) ==
  /\ ActiveIncidents(m) = {}
  /\ faults = 0 => \A i \in DOMAIN incidents : incidents[i].monitor = m => Told(i, "recovery")

(* When those that see the target up are a quorum of L that the others     *)
(* cannot overrule, the monitor is Announced for good: suspects left over, *)
(* and nodes that went away in the middle of the outage, do not hold it up.*)
RecoveryIsAnnounced ==
  \A m \in Monitors : \A L \in SUBSET Nodes : \A S \in SUBSET L :
    QuorumOf(m, S, L) /\ ~QuorumOf(m, L \ S, L)
        /\ <>[](live = L /\ \A n \in S : sees[<<m, n>>] = "up")
      => <>[](Announced(m))
=============================================================================
