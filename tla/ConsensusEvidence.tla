-------------------------- MODULE ConsensusEvidence --------------------------
(***************************************************************************)
(* The consensus loop reads the result window of each node in a query of   *)
(* its own, while results keep arriving, so the counts it adds up never    *)
(* held together.  What can still be said of a decision is that every node *)
(* it names did see the failure (the recovery) at some moment of the       *)
(* evaluation, and that a failure which enough nodes see all the time is   *)
(* not taken for a recovery.  This module adds the history these           *)
(* statements need to Consensus: the nodes that were beyond a threshold of *)
(* the monitor, or were not, at some moment since its evaluation began.    *)
(***************************************************************************)
EXTENDS Consensus

VARIABLES
  sawFailing,  \* nodes that were failing at some moment of this evaluation
  sawUp,       \* nodes that were recovered at some moment of it
  sawSound,    \* nodes that were not failing at some moment of it
  skipped      \* whether a query of it failed and its node was skipped

historyVars == <<sawFailing, sawUp, sawSound, skipped>>

FailingNow == {n \in Nodes : cur \in Monitors /\ IsFailing(cur, n)}
UpNow == {n \in Nodes : cur \in Monitors /\ IsRecovered(cur, n)}
SoundNow == {n \in Nodes : cur \in Monitors /\ ~IsFailing(cur, n)}

HistoryInit == sawFailing = {} /\ sawUp = {} /\ sawSound = {} /\ skipped = FALSE

(* An evaluation begins, and ends, where the loop turns to another monitor.*)
HistoryNext ==
  IF cur' # cur
  THEN /\ sawFailing' = FailingNow' /\ sawUp' = UpNow' /\ sawSound' = SoundNow'
       /\ skipped' = FALSE
  ELSE /\ sawFailing' = sawFailing \cup FailingNow'
       /\ sawUp' = sawUp \cup UpNow'
       /\ sawSound' = sawSound \cup SoundNow'
       /\ skipped' = (skipped \/ faults' # faults)

EvidenceInit == Init /\ HistoryInit
EvidenceNext == Next /\ HistoryNext
EvidenceSpec == EvidenceInit /\ [][EvidenceNext]_<<vars, historyVars>>

(* Where an incident has just been confirmed (evaluateMonitorConsensus,    *)
(* before SendAlert): it is this monitor's, the nodes it names were online *)
(* when the round began, each of them reached the failure threshold during *)
(* the evaluation, and they are a quorum of the nodes that were online.    *)
ConfirmedOnEvidence ==
  pc = "alert" =>
    LET nodes == incidents[inc].nodes IN
    /\ incidents[inc].monitor = cur
    /\ nodes \subseteq online
    /\ nodes \subseteq sawFailing
    /\ QuorumOf(cur, nodes, online)

(* Where an incident has just been resolved (before SendRecovery): it is   *)
(* this monitor's, and a quorum of the nodes that were online each reached *)
(* the recovery threshold during the evaluation.  The quorum is that of    *)
(* the monitor, and src/README.md:158 says otherwise: "a monitor is only   *)
(* marked as recovered when a majority of nodes see it healthy".  Under    *)
(* n_of_m the code resolves on quorum_n nodes, a minority perhaps, and the *)
(* instance in MCConsensusEvidence has one. What is left of the sentence   *)
(* then is the last conjunct: the failures are counted first, so unless a  *)
(* query failed no quorum of those nodes was failing all the time, however *)
(* few a quorum takes: a node of each saw the target sound at some moment. *)
ResolvedOnEvidence ==
  pc = "recovery" =>
    /\ incidents[inc].monitor = cur
    /\ \E nodes \in SUBSET online :
         nodes \subseteq sawUp /\ QuorumOf(cur, nodes, online)
    /\ ~skipped => \A nodes \in SUBSET online :
         QuorumOf(cur, nodes, online) => nodes \cap sawSound # {}
=============================================================================
