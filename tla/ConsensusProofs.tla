--------------------------- MODULE ConsensusProofs ---------------------------
(***************************************************************************)
(* Proofs about Consensus, and the two modules that add to it, for every   *)
(* number of nodes, monitors, incidents and faults.  The safety properties *)
(* hold together: what the loop may do to an incident depends on where it  *)
(* is, so the inductive invariant ties pc to the row it holds and to the   *)
(* notices already made.  ConsensusEvidence remembers what the nodes saw   *)
(* in an evaluation, and decisions rest on it.  System says where the      *)
(* loop's input comes from, and is one of the environments Consensus has,  *)
(* so that what is proved of Consensus holds of the cluster.               *)
(***************************************************************************)
EXTENDS System, ConsensusEvidence, FiniteSetTheorems, TLAPS

IndInv ==
  /\ TypeOK
  /\ AtMostOneActive
  /\ LoopKnowsItsIncident
  /\ NoticesAreEarned
  /\ NoDuplicateNotices

-----------------------------------------------------------------------------
(* A window with one more row is again a window: nothing but statuses, and *)
(* never longer than the LIMIT of the query (InsertCheckResult).           *)
LEMMA InsertRowType ==
  ASSUME NEW S, NEW w \in Seq(S), NEW s \in S, NEW limit \in Nat \ {0},
         Len(w) <= limit, NEW pos \in 1..(Len(w) + 1), pos <= limit
  PROVE  /\ InsertRow(w, pos, s, limit) \in Seq(S)
         /\ Len(InsertRow(w, pos, s, limit)) <= limit
<1> DEFINE n == IF Len(w) < limit THEN Len(w) + 1 ELSE limit
<1>1. n \in Nat /\ n <= limit /\ n <= Len(w) + 1
  OBVIOUS
<1>2. ASSUME NEW i \in 1..n
      PROVE  (IF i < pos THEN w[i] ELSE IF i = pos THEN s ELSE w[i - 1]) \in S
  <2>1. CASE i < pos
    <3>1. i \in 1..Len(w)
      BY <2>1, <1>1
    <3> QED BY <2>1, <3>1
  <2>2. CASE i = pos
    BY <2>2
  <2>3. CASE i > pos
    <3>1. i - 1 \in 1..Len(w)
      BY <2>3, <1>1
    <3> QED BY <2>3, <3>1
  <2> QED BY <2>1, <2>2, <2>3, <1>1
<1> DEFINE r == [i \in 1..n |-> IF i < pos THEN w[i] ELSE IF i = pos THEN s ELSE w[i - 1]]
<1>3. InsertRow(w, pos, s, limit) = r
  BY DEF InsertRow
<1>4. r \in [1..n -> S]
  BY <1>2
<1> HIDE DEF n, r
<1>5. r \in Seq(S) /\ Len(r) = n
  BY <1>4, <1>1
<1> QED BY <1>5, <1>3, <1>1

(* An element of a sequence over S is in S.                                *)
LEMMA ElementOfSeq ==
  ASSUME NEW S, NEW q \in Seq(S), NEW i \in DOMAIN q
  PROVE  q[i] \in S
OBVIOUS

(* GetActiveIncident returns an active incident whenever there is one.     *)
LEMMA ActiveFound ==
  ASSUME NEW m \in Monitors, TypeOK, AtMostOneActive
  PROVE  /\ GetActiveIncident(m) = 0 => ActiveIncidents(m) = {}
         /\ GetActiveIncident(m) # 0 => GetActiveIncident(m) \in ActiveIncidents(m)
         /\ ActiveIncidents(m) \subseteq 1..Len(incidents)
<1>1. DOMAIN incidents = 1..Len(incidents) /\ Len(incidents) \in Nat
  BY DEF TypeOK, TablesTypeOK
<1>2. ActiveIncidents(m) \subseteq 1..Len(incidents)
  BY <1>1 DEF ActiveIncidents
<1>3. CASE ActiveIncidents(m) = {}
  BY <1>2, <1>3 DEF GetActiveIncident
<1>4. CASE ActiveIncidents(m) # {}
  <2>1. PICK i \in ActiveIncidents(m) : TRUE
    BY <1>4
  <2>2. \A j \in ActiveIncidents(m) : j = i
    BY <2>1 DEF AtMostOneActive
  <2>3. \A j \in ActiveIncidents(m) : j <= i
    BY <2>1, <2>2, <1>2
  <2>4. GetActiveIncident(m) \in ActiveIncidents(m)
    BY <1>4, <2>1, <2>3 DEF GetActiveIncident
  <2>5. GetActiveIncident(m) # 0
    BY <2>4, <1>2
  <2> QED BY <2>4, <2>5, <1>2
<1> QED BY <1>3, <1>4

(* When an evaluation returns, the loop is between two monitors or between *)
(* two rounds and holds no incident.                                       *)
LEMMA ReturnTypes ==
  ASSUME LoopTypeOK, pc # "idle", Return, Len(incidents') \in Nat
  PROVE  LoopTypeOK' /\ pc' \in {"idle", "failures"}
<1>1. CASE todo = {} /\ EndRound
  BY <1>1 DEF EndRound, Hold, LoopTypeOK
<1>2. ASSUME NEW m \in todo, StartMonitor(m, todo \ {m}, online)
      PROVE  LoopTypeOK' /\ pc' \in {"idle", "failures"}
  BY <1>2 DEF StartMonitor, Hold, LoopTypeOK
<1> QED BY <1>1, <1>2 DEF Return

(* A step that leaves the incidents and the notices alone keeps what is    *)
(* said of them alone.                                                     *)
LEMMA UntouchedTables ==
  ASSUME IndInv, UNCHANGED <<incidents, notices>>
  PROVE  AtMostOneActive' /\ NoticesAreEarned' /\ NoDuplicateNotices'
BY DEF IndInv, AtMostOneActive, ActiveIncidents, NoticesAreEarned, NoDuplicateNotices

(* A step out of which the loop holds no incident and has not gone to      *)
(* create one satisfies LoopKnowsItsIncident whatever the tables are.      *)
LEMMA NothingHeld ==
  ASSUME pc' \in {"idle", "failures"}
  PROVE  LoopKnowsItsIncident'
BY DEF LoopKnowsItsIncident

-----------------------------------------------------------------------------
(* One lemma for each kind of step.                                        *)

LEMMA InitInd == Init => IndInv
BY ConstantsAssumption
   DEF Init, IndInv, TypeOK, TablesTypeOK, LoopTypeOK, AtMostOneActive, ActiveIncidents,
       LoopKnowsItsIncident, NoticesAreEarned, NoDuplicateNotices

LEMMA StutterInd == IndInv /\ UNCHANGED vars => IndInv'
BY DEF vars, loopVars, incident, IndInv, TypeOK, TablesTypeOK, LoopTypeOK, AtMostOneActive,
       ActiveIncidents, LoopKnowsItsIncident, LoopHolds, Told, NoticesAreEarned,
       NoDuplicateNotices

(* handlePeerResult, UpdateHeartbeat and DetectOfflineNodes.               *)
LEMMA EnvironmentInd ==
  ASSUME IndInv, Environment
  PROVE  IndInv'
<1>1. ASSUME NEW m \in Monitors, NEW n \in Nodes, NEW s \in CheckStatuses,
             NEW pos \in 1..ResultLimit, RecordResult(m, n, s, pos)
      PROVE  IndInv'
  <2>1. UNCHANGED <<nodeStatus, incidents, notices, faults, loopVars>>
    BY <1>1 DEF RecordResult
  <2>2. TypeOK'
    <3> DEFINE w == results[<<m, n>>]
    <3>1. w \in Seq(CheckStatuses) /\ Len(w) <= ResultLimit
      BY DEF IndInv, TypeOK, TablesTypeOK
    <3>2. pos \in 1..(Len(w) + 1) /\ pos <= ResultLimit
      BY <1>1 DEF RecordResult
    <3>3. /\ InsertRow(w, pos, s, ResultLimit) \in Seq(CheckStatuses)
          /\ Len(InsertRow(w, pos, s, ResultLimit)) <= ResultLimit
      BY <3>1, <3>2, InsertRowType, ConstantsAssumption
    <3>4. results' = [results EXCEPT ![<<m, n>>] = InsertRow(w, pos, s, ResultLimit)]
      BY <1>1 DEF RecordResult
    <3> QED BY <2>1, <3>3, <3>4
            DEF IndInv, TypeOK, TablesTypeOK, LoopTypeOK, loopVars, incident
  <2>3. LoopKnowsItsIncident'
    BY <2>1
       DEF IndInv, LoopKnowsItsIncident, LoopHolds, Told, ActiveIncidents, loopVars, incident
  <2> QED BY <2>1, <2>2, <2>3, UntouchedTables DEF IndInv
<1>2. ASSUME NEW n \in Nodes, NEW s \in {"online", "offline"}, SetNodeStatus(n, s)
      PROVE  IndInv'
  <2>1. UNCHANGED <<results, incidents, notices, faults, loopVars>>
    BY <1>2 DEF SetNodeStatus
  <2>2. TypeOK'
    BY <1>2, <2>1
       DEF SetNodeStatus, IndInv, TypeOK, TablesTypeOK, LoopTypeOK, loopVars, incident
  <2>3. LoopKnowsItsIncident'
    BY <2>1
       DEF IndInv, LoopKnowsItsIncident, LoopHolds, Told, ActiveIncidents, loopVars, incident
  <2> QED BY <2>1, <2>2, <2>3, UntouchedTables DEF IndInv
<1> QED BY <1>1, <1>2 DEF Environment

(* The steps that leave the loop with no incident in hand and every table  *)
(* as it was: the tick, the ends of an evaluation, the faults.             *)
LEMMA ReturnInd ==
  ASSUME IndInv,
         Tick \/ FindConfirmed \/ NothingActive \/ NotRecovered \/ GiveUp \/ Crash
  PROVE  IndInv'
<1>1. UNCHANGED Tables /\ faults' \in 0..MaxFaults
  BY ConstantsAssumption
     DEF Tick, FindConfirmed, NothingActive, NotRecovered, GiveUp, Crash, Fault, IndInv,
         TypeOK, TablesTypeOK
<1>2. Len(incidents') \in Nat
  BY <1>1 DEF Tables, IndInv, TypeOK, TablesTypeOK
<1>3. LoopTypeOK' /\ pc' \in {"idle", "failures"}
  <2>1. CASE Tick
    BY <2>1, <1>2 DEF Tick, StartMonitor, Hold, OnlineNodes, LoopTypeOK
  <2>2. CASE Crash
    BY <2>2, <1>2 DEF Crash, EndRound, Hold, LoopTypeOK
  <2>3. CASE FindConfirmed \/ NothingActive \/ NotRecovered \/ GiveUp
    <3>1. Return /\ pc # "idle"
      BY <2>3 DEF FindConfirmed, NothingActive, NotRecovered, GiveUp
    <3> QED BY <3>1, <1>2, ReturnTypes DEF IndInv, TypeOK
  <2> QED BY <2>1, <2>2, <2>3
<1>4. TypeOK'
  BY <1>1, <1>3 DEF IndInv, TypeOK, TablesTypeOK, Tables
<1> QED BY <1>1, <1>3, <1>4, UntouchedTables, NothingHeld DEF IndInv, Tables

(* The two loops over the nodes, a failed counting query included.         *)
LEMMA CountInd ==
  ASSUME IndInv, NEW n \in Nodes, CountFailures(n) \/ CountSuccesses(n) \/ SkipNode(n)
  PROVE  IndInv'
<1>1. UNCHANGED <<Tables, pc, todo, online, cur, inc, held>> /\ faults' \in 0..MaxFaults
  BY ConstantsAssumption
     DEF CountFailures, CountSuccesses, SkipNode, Fault, incident, IndInv, TypeOK, TablesTypeOK
<1>2. LoopTypeOK'
  <2>1. n \in online
    BY DEF CountFailures, CountSuccesses, SkipNode, IndInv, TypeOK, LoopTypeOK
  <2>2. /\ remaining' \subseteq remaining
        /\ failing' \subseteq failing \cup {n}
        /\ recovered' \subseteq recovered \cup {n}
    BY DEF CountFailures, CountSuccesses, SkipNode
  <2> QED BY <1>1, <2>1, <2>2 DEF IndInv, TypeOK, LoopTypeOK, Tables
<1>3. TypeOK'
  BY <1>1, <1>2 DEF IndInv, TypeOK, TablesTypeOK, Tables
<1>4. LoopKnowsItsIncident'
  BY <1>1 DEF IndInv, LoopKnowsItsIncident, LoopHolds, Told, ActiveIncidents, Tables
<1> QED BY <1>1, <1>3, <1>4, UntouchedTables DEF IndInv, Tables

(* The steps that take up an incident: GetOrCreateIncident, GetActiveIncident. *)
LEMMA FindInd ==
  ASSUME IndInv, FindSuspect \/ FindNone \/ FindActive
  PROVE  IndInv'
<1>1. UNCHANGED <<Tables, faults, todo, online, cur, failing, recovered>>
  BY DEF FindSuspect, FindNone, FindActive, Goto
<1>2. cur \in Monitors
  BY DEF FindSuspect, FindNone, FindActive, IndInv, TypeOK, LoopTypeOK
<1>3. /\ GetActiveIncident(cur) = 0 => ActiveIncidents(cur) = {}
      /\ GetActiveIncident(cur) # 0 => GetActiveIncident(cur) \in ActiveIncidents(cur)
      /\ ActiveIncidents(cur) \subseteq 1..Len(incidents)
  BY <1>2, ActiveFound DEF IndInv
<1> DEFINE found == GetActiveIncident(cur)
<1>7. found # 0 => incidents[found] \in IncidentRows
  BY <1>3, ElementOfSeq DEF IndInv, TypeOK, TablesTypeOK
<1>4. LoopTypeOK'
  <2>1. /\ pc' \in {"create", "confirm", "successes"}
        /\ remaining' \subseteq online
        /\ inc' \in 0..Len(incidents)
        /\ held' \in IncidentRows \cup {NoIncident}
    BY <1>3, <1>7
       DEF FindSuspect, FindNone, FindActive, ReadActiveIncident, Hold, incident, Goto,
           IndInv, TypeOK, LoopTypeOK
  <2> QED BY <1>1, <1>2, <2>1 DEF IndInv, TypeOK, LoopTypeOK, Tables
<1>5. TypeOK'
  BY <1>1, <1>4 DEF IndInv, TypeOK, TablesTypeOK, Tables
<1>6. LoopKnowsItsIncident'
  <2>1. CASE FindSuspect
    <3>1. /\ pc' = "confirm" /\ inc' \in ActiveIncidents(cur)
          /\ incidents[inc'].status = "suspect" /\ held' = incidents[inc']
      BY <2>1, <1>3 DEF FindSuspect, ReadActiveIncident, Hold, Goto
    <3> QED BY <3>1, <1>1 DEF LoopKnowsItsIncident, LoopHolds, ActiveIncidents, Tables
  <2>2. CASE FindNone
    BY <2>2, <1>1, <1>3
       DEF FindNone, Goto, LoopKnowsItsIncident, ActiveIncidents, Tables
  <2>3. CASE FindActive
    <3>1. pc' = "successes" /\ inc' \in ActiveIncidents(cur) /\ held' = incidents[inc']
      BY <2>3, <1>3 DEF FindActive, ReadActiveIncident, Hold, Goto
    <3>2. incidents[inc'] \in IncidentRows
      BY <3>1, <1>3, ElementOfSeq DEF IndInv, TypeOK, TablesTypeOK
    <3> QED BY <3>1, <3>2, <1>1
            DEF LoopKnowsItsIncident, LoopHolds, ActiveIncidents, Tables, IncidentStatuses,
                IncidentRows
  <2> QED BY <2>1, <2>2, <2>3
<1> QED BY <1>1, <1>5, <1>6, UntouchedTables DEF IndInv, Tables

LEMMA CreateInd == ASSUME IndInv, CreateIncident PROVE IndInv'
<1> DEFINE row == NewIncident
<1> DEFINE k == Len(incidents) + 1
<1>1. /\ incidents \in Seq(IncidentRows)
      /\ incidents' = Append(incidents, row) /\ Len(incidents) < MaxIncidents
      /\ pc' = "confirm" /\ inc' = k /\ held' = row /\ ActiveIncidents(cur) = {}
      /\ cur \in Monitors
      /\ UNCHANGED <<results, nodeStatus, notices, faults, remaining, failing,
                     recovered, todo, online, cur>>
  BY DEF CreateIncident, Hold, Goto, IndInv, TypeOK, TablesTypeOK, LoopTypeOK,
         LoopKnowsItsIncident
<1>2. row \in IncidentRows /\ row.monitor = cur /\ row.status = "suspect"
  BY <1>1 DEF NewIncident, IncidentStatuses, IncidentRows
<1>3. /\ incidents' \in Seq(IncidentRows)
      /\ Len(incidents') = k /\ k \in Nat
      /\ DOMAIN incidents = 1..Len(incidents) /\ DOMAIN incidents' = 1..k
      /\ \A i \in 1..Len(incidents) : incidents'[i] = incidents[i]
      /\ incidents'[k] = row
  BY <1>1, <1>2
<1> HIDE DEF row, k
<1>4. TypeOK'
  <2>1. MaxIncidents \in Nat
    BY ConstantsAssumption
  <2>2. TablesTypeOK'
    BY <1>1, <1>3, <2>1 DEF IndInv, TypeOK, TablesTypeOK, k
  <2>3. LoopTypeOK'
    BY <1>1, <1>2, <1>3 DEF IndInv, TypeOK, LoopTypeOK, k
  <2> QED BY <2>2, <2>3 DEF TypeOK
<1>5. LoopKnowsItsIncident'
  BY <1>1, <1>2, <1>3 DEF LoopKnowsItsIncident, LoopHolds, k
<1>6. AtMostOneActive'
  <2>1. \A m \in Monitors : ActiveIncidents(m)' \subseteq
           ActiveIncidents(m) \cup (IF m = cur THEN {k} ELSE {})
    BY <1>2, <1>3 DEF ActiveIncidents, k
  <2> QED BY <2>1, <1>1 DEF IndInv, AtMostOneActive
<1>7. NoticesAreEarned' /\ NoDuplicateNotices'
  BY <1>1, <1>3 DEF IndInv, NoticesAreEarned, NoDuplicateNotices, k
<1> QED BY <1>4, <1>5, <1>6, <1>7 DEF IndInv

(* What the two UPDATEs do to the row: they write a copy back, and as the  *)
(* copy is current only the columns they set change.                       *)
LEMMA UpdateShape ==
  ASSUME IndInv, ConfirmIncident \/ ResolveIncident
  PROVE  /\ inc \in DOMAIN incidents /\ incidents[inc] \in IncidentRows
         /\ UNCHANGED inc /\ held' = incidents'[inc]
         /\ ConfirmIncident => incidents' = [incidents EXCEPT ![inc] =
                                   [@ EXCEPT !.status = "confirmed", !.nodes = failing]]
         /\ ResolveIncident => incidents' = [incidents EXCEPT ![inc] =
                                   [@ EXCEPT !.status = "resolved"]]
<1>1. inc \in DOMAIN incidents /\ held = incidents[inc] /\ UNCHANGED inc
  BY DEF ConfirmIncident, ResolveIncident, IndInv, LoopKnowsItsIncident, LoopHolds
<1>2. incidents[inc] \in IncidentRows
  BY <1>1, ElementOfSeq DEF IndInv, TypeOK, TablesTypeOK
<1>3. ConfirmIncident => incidents' = [incidents EXCEPT ![inc] =
                            [@ EXCEPT !.status = "confirmed", !.nodes = failing]]
  BY <1>1 DEF ConfirmIncident, UpdateIncident
<1>4. ResolveIncident => incidents' = [incidents EXCEPT ![inc] = [@ EXCEPT !.status = "resolved"]]
  BY <1>1 DEF ResolveIncident, UpdateIncident
<1>5. held' = incidents'[inc]
  BY <1>1 DEF ConfirmIncident, ResolveIncident, UpdateIncident, IndInv, TypeOK, TablesTypeOK
<1> QED BY <1>1, <1>2, <1>3, <1>4, <1>5

LEMMA UpdateInd == ASSUME IndInv, ConfirmIncident \/ ResolveIncident PROVE IndInv'
<1>1. /\ incidents \in Seq(IncidentRows)
      /\ inc \in DOMAIN incidents /\ incidents[inc].monitor = cur
      /\ incidents[inc].status # "resolved"
      /\ UNCHANGED <<results, nodeStatus, notices, faults, remaining, failing,
                     recovered, todo, online, cur, inc>>
      /\ pc' \in {"alert", "recovery"}
      /\ cur \in Monitors /\ failing \subseteq Nodes /\ held' = incidents'[inc]
  BY UpdateShape
     DEF ConfirmIncident, ResolveIncident, Goto, IndInv, TypeOK, TablesTypeOK, LoopTypeOK,
         LoopKnowsItsIncident, LoopHolds
<1>2. \E s \in {"confirmed", "resolved"}, ns \in SUBSET Nodes :
        incidents' = [incidents EXCEPT ![inc] = [@ EXCEPT !.status = s, !.nodes = ns]]
  <2>1. CASE ConfirmIncident
    BY <2>1, <1>1, UpdateShape
  <2>2. CASE ResolveIncident
    <3>1. incidents[inc] \in IncidentRows
      BY <1>1, ElementOfSeq
    <3>2. [incidents[inc] EXCEPT !.status = "resolved"] =
             [incidents[inc] EXCEPT !.status = "resolved", !.nodes = incidents[inc].nodes]
      BY <3>1 DEF IncidentRows
    <3>3. incidents[inc].nodes \in SUBSET Nodes
      BY <3>1 DEF IncidentRows
    <3> QED BY <2>2, <3>2, <3>3, UpdateShape
  <2> QED BY <2>1, <2>2
<1>3. /\ incidents' \in Seq(IncidentRows) /\ Len(incidents') = Len(incidents)
      /\ DOMAIN incidents' = DOMAIN incidents
      /\ \A i \in DOMAIN incidents :
           /\ incidents'[i].monitor = incidents[i].monitor
           /\ i # inc => incidents'[i] = incidents[i]
      /\ incidents'[inc].status \in {"confirmed", "resolved"}
      /\ pc' = "alert" => incidents'[inc].status = "confirmed"
      /\ pc' = "recovery" => incidents'[inc].status = "resolved"
  <2>1. PICK s \in {"confirmed", "resolved"}, ns \in SUBSET Nodes :
          incidents' = [incidents EXCEPT ![inc] = [@ EXCEPT !.status = s, !.nodes = ns]]
    BY <1>2
  <2>2. incidents[inc] \in IncidentRows
    BY <1>1, ElementOfSeq
  <2>3. [incidents[inc] EXCEPT !.status = s, !.nodes = ns] \in IncidentRows
    BY <2>2 DEF IncidentStatuses, IncidentRows
  <2>4. /\ incidents' \in Seq(IncidentRows) /\ Len(incidents') = Len(incidents)
        /\ DOMAIN incidents' = DOMAIN incidents
    BY <2>1, <2>3, <1>1
  <2>5. \A i \in DOMAIN incidents : i # inc => incidents'[i] = incidents[i]
    BY <2>1, <1>1
  <2>6. incidents'[inc] = [incidents[inc] EXCEPT !.status = s, !.nodes = ns]
    BY <2>1, <1>1
  <2>7. incidents'[inc].monitor = incidents[inc].monitor /\ incidents'[inc].status = s
    BY <2>6, <2>2 DEF IncidentRows
  <2>8. /\ pc' = "alert" => incidents'[inc].status = "confirmed"
        /\ pc' = "recovery" => incidents'[inc].status = "resolved"
    <3>1. CASE ConfirmIncident
      <4>1. /\ incidents'[inc] = [incidents[inc] EXCEPT !.status = "confirmed", !.nodes = failing]
            /\ pc' = "alert"
        BY <3>1, <1>1, UpdateShape DEF ConfirmIncident, Goto
      <4> QED BY <4>1, <2>2 DEF IncidentRows
    <3>2. CASE ResolveIncident
      <4>1. /\ incidents'[inc] = [incidents[inc] EXCEPT !.status = "resolved"]
            /\ pc' = "recovery"
        BY <3>2, <1>1, UpdateShape DEF ResolveIncident, Goto
      <4> QED BY <4>1, <2>2 DEF IncidentRows
    <3> QED BY <3>1, <3>2
  <2> QED BY <2>4, <2>5, <2>7, <2>8
<1>4. TypeOK'
  <2>1. held' \in IncidentRows
    BY <1>1, <1>3, ElementOfSeq
  <2> QED BY <1>1, <1>3, <2>1 DEF IndInv, TypeOK, TablesTypeOK, LoopTypeOK
<1>5. LoopKnowsItsIncident'
  <2>1. pc' = "alert" => ~Told(inc, "alert")
    BY <1>1 DEF IndInv, LoopKnowsItsIncident, LoopHolds, Told, NoticesAreEarned,
       ConfirmIncident, ResolveIncident, Goto, TypeOK, TablesTypeOK, Notices
  <2>2. ~Told(inc, "recovery")
    BY <1>1 DEF IndInv, Told, NoticesAreEarned
  <2> QED BY <1>1, <1>3, <2>1, <2>2 DEF LoopKnowsItsIncident, LoopHolds, Told
<1>6. AtMostOneActive'
  <2>1. \A m \in Monitors : ActiveIncidents(m)' \subseteq ActiveIncidents(m)
    BY <1>1, <1>3 DEF ActiveIncidents
  <2> QED BY <2>1 DEF IndInv, AtMostOneActive
<1>7. NoticesAreEarned'
  BY <1>1, <1>3 DEF IndInv, NoticesAreEarned
<1>8. NoDuplicateNotices'
  BY <1>1 DEF IndInv, NoDuplicateNotices
<1> QED BY <1>4, <1>5, <1>6, <1>7, <1>8 DEF IndInv

LEMMA NotifyInd == ASSUME IndInv, SendAlert \/ SendRecovery PROVE IndInv'
<1> DEFINE event == IF pc = "alert" THEN "alert" ELSE "recovery"
<1> DEFINE new == [inc |-> inc, event |-> event]
<1>1. /\ notices' = Append(notices, new) /\ notices \in Seq(Notices)
      /\ UNCHANGED <<results, nodeStatus, incidents, faults>>
      /\ Return /\ pc # "idle"
      /\ inc \in DOMAIN incidents /\ ~Told(inc, event)
      /\ pc = "alert" => incidents[inc].status = "confirmed"
      /\ event = "recovery" => incidents[inc].status = "resolved"
  BY DEF SendAlert, SendRecovery, Notify, IndInv, TypeOK, TablesTypeOK,
         LoopKnowsItsIncident, LoopHolds
<1>2. new \in Notices
  BY <1>1, ConstantsAssumption DEF IndInv, TypeOK, TablesTypeOK, Notices
<1>3. /\ notices' \in Seq(Notices) /\ Len(notices') = Len(notices) + 1 /\ Len(notices) \in Nat
      /\ DOMAIN notices = 1..Len(notices) /\ DOMAIN notices' = 1..(Len(notices) + 1)
      /\ \A k \in 1..Len(notices) : notices'[k] = notices[k]
      /\ notices'[Len(notices) + 1] = new
  BY <1>1, <1>2
<1>4. event \in {"alert", "recovery"} /\ (event = "alert" => incidents[inc].status # "suspect")
  BY <1>1
<1>5. \A k \in 1..Len(notices) : notices[k] # new
  BY <1>1, <1>3 DEF Told
<1>6. new.inc = inc /\ new.event = event
  OBVIOUS
<1> HIDE DEF event, new
<1>7. LoopTypeOK' /\ pc' \in {"idle", "failures"}
  BY <1>1, ReturnTypes DEF IndInv, TypeOK, TablesTypeOK
<1>8. TypeOK'
  BY <1>1, <1>3, <1>7 DEF IndInv, TypeOK, TablesTypeOK
<1>9. AtMostOneActive'
  BY <1>1 DEF IndInv, AtMostOneActive, ActiveIncidents
<1>10. NoticesAreEarned'
  <2>1. ASSUME NEW k \in 1..(Len(notices) + 1)
        PROVE  /\ notices'[k].inc \in DOMAIN incidents
               /\ notices'[k].event = "alert" => incidents[notices'[k].inc].status # "suspect"
               /\ notices'[k].event = "recovery" => incidents[notices'[k].inc].status = "resolved"
    <3>1. CASE k = Len(notices) + 1
      BY <3>1, <1>1, <1>3, <1>4, <1>6
    <3>2. CASE k # Len(notices) + 1
      <4>1. k \in DOMAIN notices /\ notices'[k] = notices[k]
        BY <3>2, <1>3
      <4> QED BY <4>1 DEF IndInv, NoticesAreEarned
    <3> QED BY <3>1, <3>2
  <2> QED BY <2>1, <1>1, <1>3 DEF NoticesAreEarned
<1>11. NoDuplicateNotices'
  <2>1. ASSUME NEW j \in 1..(Len(notices) + 1), NEW k \in 1..(Len(notices) + 1),
               notices'[j] = notices'[k]
        PROVE  j = k
    <3>1. CASE j \in 1..Len(notices) /\ k \in 1..Len(notices)
      BY <3>1, <2>1, <1>3 DEF IndInv, NoDuplicateNotices
    <3>2. CASE j = Len(notices) + 1 \/ k = Len(notices) + 1
      BY <3>2, <2>1, <1>3, <1>5
    <3> QED BY <3>1, <3>2, <1>3
  <2> QED BY <2>1, <1>3 DEF NoDuplicateNotices
<1> QED BY <1>7, <1>8, <1>9, <1>10, <1>11, NothingHeld DEF IndInv

LEMMA NextInd == IndInv /\ [Next]_vars => IndInv'
<1> SUFFICES ASSUME IndInv, [Next]_vars PROVE IndInv'
  OBVIOUS
<1>1. CASE LoopStep
  BY <1>1, ReturnInd, CountInd, FindInd, CreateInd, UpdateInd, NotifyInd DEF LoopStep
<1>2. CASE FaultStep
  BY <1>2, ReturnInd, CountInd DEF FaultStep
<1>3. CASE Environment
  BY <1>3, EnvironmentInd
<1>4. CASE UNCHANGED vars
  BY <1>4, StutterInd
<1> QED BY <1>1, <1>2, <1>3, <1>4 DEF Next

-----------------------------------------------------------------------------
(* Everything that is said of a reachable state follows from IndInv.       *)
THEOREM Invariance == Spec => []IndInv
<1>1. Init => IndInv
  BY InitInd
<1>2. IndInv /\ [Next]_vars => IndInv'
  BY NextInd
<1> QED BY <1>1, <1>2, PTL DEF Spec

(* The variables of the loop and the tables keep their types.              *)
THEOREM TypeCorrect == Spec => []TypeOK
<1>1. IndInv => TypeOK
  BY DEF IndInv
<1> QED BY <1>1, Invariance, PTL

(* A monitor never has two incidents open, wherever the coordinator        *)
(* stopped or a query failed between the look-up and the INSERT of         *)
(* GetOrCreateIncident.                                                    *)
THEOREM OneActive == Spec => []AtMostOneActive
<1>1. IndInv => AtMostOneActive
  BY DEF IndInv
<1> QED BY <1>1, Invariance, PTL

(* The dispatcher is told of a confirmation, and of a recovery, at most    *)
(* once per incident, restarts included.                                   *)
THEOREM ToldOnce == Spec => []NoDuplicateNotices
<1>1. IndInv => NoDuplicateNotices
  BY DEF IndInv
<1> QED BY <1>1, Invariance, PTL

(* The copy of the incident that the loop holds is never stale where it is *)
(* used.                                                                   *)
THEOREM HeldIncidentIsCurrent == Spec => []LoopKnowsItsIncident
<1>1. IndInv => LoopKnowsItsIncident
  BY DEF IndInv
<1> QED BY <1>1, Invariance, PTL

(* A notice that SendAlert or SendRecovery made is borne out by its row    *)
(* for ever.                                                               *)
THEOREM NoticesAreBorneOut == Spec => []NoticesAreEarned
<1>1. IndInv => NoticesAreEarned
  BY DEF IndInv
<1> QED BY <1>1, Invariance, PTL

-----------------------------------------------------------------------------
(* The refinement: under the mapping that forgets the confirming nodes,    *)
(* the loop opens, confirms, resolves and tells as IncidentLifecycle       *)
(* allows, and does nothing else to its variables.                         *)

LEMMA MappedActive ==
  ASSUME NEW m \in Monitors, incidents \in Seq(IncidentRows)
  PROVE  Lifecycle!Active(m) = ActiveIncidents(m)
BY DEF Lifecycle!Active, ActiveIncidents, withoutNodes

LEMMA RefineUpdate ==
  ASSUME IndInv, ConfirmIncident \/ ResolveIncident
  PROVE  Lifecycle!Next
<1>1. /\ incidents \in Seq(IncidentRows)
      /\ inc \in DOMAIN incidents
      /\ UNCHANGED notices
  BY DEF ConfirmIncident, ResolveIncident, IndInv, TypeOK, TablesTypeOK, LoopTypeOK,
         LoopKnowsItsIncident, LoopHolds
<1>2. incidents[inc] \in IncidentRows
  BY <1>1, ElementOfSeq
<1>3. inc \in DOMAIN withoutNodes /\ withoutNodes[inc].status = incidents[inc].status
  BY <1>1 DEF withoutNodes
<1>4. CASE ConfirmIncident
  <2>1. incidents' = [incidents EXCEPT ![inc] =
                        [@ EXCEPT !.status = "confirmed", !.nodes = failing]]
    BY <1>4, UpdateShape
  <2>2. withoutNodes' = [withoutNodes EXCEPT ![inc] = [@ EXCEPT !.status = "confirmed"]]
    BY <2>1, <1>1, <1>2 DEF withoutNodes, IncidentRows
  <2>3. withoutNodes[inc].status = "suspect"
    BY <1>3, <1>4 DEF ConfirmIncident, IndInv, LoopKnowsItsIncident, LoopHolds
  <2> QED BY <2>2, <2>3, <1>1, <1>3 DEF Lifecycle!Next, Lifecycle!Confirm
<1>5. CASE ResolveIncident
  <2>1. incidents' = [incidents EXCEPT ![inc] = [@ EXCEPT !.status = "resolved"]]
    BY <1>5, UpdateShape
  <2>2. withoutNodes' = [withoutNodes EXCEPT ![inc] = [@ EXCEPT !.status = "resolved"]]
    BY <2>1, <1>1, <1>2 DEF withoutNodes, IncidentRows
  <2>3. withoutNodes[inc].status # "resolved"
    BY <1>3, <1>5 DEF ResolveIncident, IndInv, LoopKnowsItsIncident, LoopHolds
  <2> QED BY <2>2, <2>3, <1>1, <1>3 DEF Lifecycle!Next, Lifecycle!Resolve
<1> QED BY <1>4, <1>5

LEMMA RefineCreate ==
  ASSUME IndInv, CreateIncident
  PROVE  Lifecycle!Next
<1>1. /\ incidents \in Seq(IncidentRows) /\ cur \in Monitors /\ ActiveIncidents(cur) = {}
      /\ incidents' = Append(incidents, [monitor |-> cur, status |-> "suspect", nodes |-> {}])
      /\ UNCHANGED notices
  BY DEF CreateIncident, NewIncident, IndInv, TypeOK, TablesTypeOK, LoopTypeOK,
         LoopKnowsItsIncident
<1>2. withoutNodes' = Append(withoutNodes, [monitor |-> cur, status |-> "suspect"])
  BY <1>1 DEF withoutNodes
<1>3. Lifecycle!Open(cur)
  BY <1>1, <1>2, MappedActive DEF Lifecycle!Open
<1> QED BY <1>1, <1>3 DEF Lifecycle!Next

LEMMA RefineNotify ==
  ASSUME IndInv, SendAlert \/ SendRecovery
  PROVE  Lifecycle!Next
<1> DEFINE event == IF pc = "alert" THEN "alert" ELSE "recovery"
<1>1. /\ notices' = Append(notices, [inc |-> inc, event |-> event])
      /\ UNCHANGED incidents /\ incidents \in Seq(IncidentRows)
      /\ inc \in DOMAIN incidents /\ ~Told(inc, event)
      /\ incidents[inc].status = IF event = "alert" THEN "confirmed" ELSE "resolved"
  BY DEF SendAlert, SendRecovery, Notify, IndInv, TypeOK, TablesTypeOK,
         LoopKnowsItsIncident, LoopHolds
<1>2. /\ inc \in DOMAIN withoutNodes /\ withoutNodes[inc].status = incidents[inc].status
      /\ withoutNodes' = withoutNodes
  BY <1>1 DEF withoutNodes
<1>3. event \in {"alert", "recovery"}
  OBVIOUS
<1> HIDE DEF event
<1>4. Lifecycle!Tell(inc, event)
  BY <1>1, <1>2 DEF Lifecycle!Tell, Lifecycle!Told, Told
<1> QED BY <1>2, <1>3, <1>4 DEF Lifecycle!Next

LEMMA RefineNext ==
  IndInv /\ [Next]_vars => [Lifecycle!Next]_<<withoutNodes, notices>>
<1> SUFFICES ASSUME IndInv, [Next]_vars
             PROVE  Lifecycle!Next \/ UNCHANGED <<withoutNodes, notices>>
  OBVIOUS
<1>1. CASE ConfirmIncident \/ ResolveIncident \/ CreateIncident \/ SendAlert \/ SendRecovery
  BY <1>1, RefineUpdate, RefineCreate, RefineNotify
<1>2. CASE UNCHANGED <<incidents, notices>>
  BY <1>2 DEF withoutNodes
<1>3. \/ ConfirmIncident \/ ResolveIncident \/ CreateIncident \/ SendAlert \/ SendRecovery
      \/ UNCHANGED <<incidents, notices>>
  BY DEF Next, LoopStep, FaultStep, Environment, Tick, CountFailures, CountSuccesses,
         FindConfirmed, FindSuspect, FindNone, NothingActive, FindActive, NotRecovered,
         GiveUp, Crash, SkipNode, RecordResult, SetNodeStatus, Tables, vars
<1> QED BY <1>1, <1>2, <1>3

(* The coordinator implements the incident life cycle.                     *)
THEOREM LifecycleRefined == Spec => ImplementsLifecycle
<1>1. Init => Lifecycle!Init
  BY DEF Init, Lifecycle!Init, withoutNodes
<1>2. IndInv /\ [Next]_vars => [Lifecycle!Next]_<<withoutNodes, notices>>
  BY RefineNext
<1> QED BY <1>1, <1>2, Invariance, PTL DEF Spec, ImplementsLifecycle, Lifecycle!Spec

(* The nodes that confirmed an incident stay on record as they were: the   *)
(* resolution writes the whole row back, from a copy that is still current.*)
THEOREM ConfirmingNodesKept == Spec => ConfirmingNodesAreFinal
<1> DEFINE Kept == \A i \in DOMAIN incidents :
       incidents[i].status # "suspect" => incidents'[i].nodes = incidents[i].nodes
<1>1. IndInv /\ [Next]_vars => [Kept]_vars
  <2> SUFFICES ASSUME IndInv, Next PROVE Kept
    BY DEF vars
  <2>1. CASE ConfirmIncident
    <3>1. inc \in DOMAIN incidents /\ incidents[inc].status = "suspect"
      BY <2>1 DEF ConfirmIncident, IndInv, LoopKnowsItsIncident, LoopHolds
    <3> QED BY <3>1, <2>1, UpdateShape DEF IndInv, TypeOK, TablesTypeOK
  <2>2. CASE ResolveIncident
    <3>1. incidents \in Seq(IncidentRows) /\ inc \in DOMAIN incidents
      BY <2>2, UpdateShape DEF IndInv, TypeOK, TablesTypeOK
    <3>2. incidents[inc] \in IncidentRows
      BY <3>1, ElementOfSeq
    <3>3. incidents'[inc] = [incidents[inc] EXCEPT !.status = "resolved"]
      BY <3>1, <2>2, UpdateShape
    <3>4. incidents'[inc].nodes = incidents[inc].nodes
      BY <3>2, <3>3 DEF IncidentRows
    <3>5. \A i \in DOMAIN incidents : i # inc => incidents'[i] = incidents[i]
      BY <3>1, <2>2, UpdateShape
    <3> QED BY <3>4, <3>5
  <2>3. CASE CreateIncident
    BY <2>3 DEF CreateIncident, IndInv, TypeOK, TablesTypeOK
  <2>4. CASE UNCHANGED incidents
    BY <2>4
  <2>5. \/ ConfirmIncident \/ ResolveIncident \/ CreateIncident \/ UNCHANGED incidents
    BY DEF Next, LoopStep, FaultStep, Environment, Tick, CountFailures, CountSuccesses,
           FindConfirmed, FindSuspect, FindNone, NothingActive, FindActive, NotRecovered,
           GiveUp, Crash, SkipNode, RecordResult, SetNodeStatus, SendAlert, SendRecovery, Tables
  <2> QED BY <2>1, <2>2, <2>3, <2>4, <2>5
<1> QED BY <1>1, Invariance, PTL DEF Spec, ConfirmingNodesAreFinal
-----------------------------------------------------------------------------
(* As long as nothing fails, a row that is no suspect was alerted of, or   *)
(* is about to be; only a fault leaves a suspect behind.                   *)
AlertsAreMade ==
  faults = 0 =>
    \A i \in DOMAIN incidents :
      IF incidents[i].status = "suspect" THEN pc = "confirm" /\ inc = i
      ELSE Told(i, "alert") \/ (pc = "alert" /\ inc = i)

RecoveryIsEarned == faults = 0 => RecoveryFollowsAlert

(* A step that neither tells nor touches the rows, and is not at a row.    *)
LEMMA AlertsUntouched ==
  ASSUME IndInv, AlertsAreMade, UNCHANGED <<incidents, notices>>, faults' = 0 => faults = 0,
         pc \in {"confirm", "alert"} => faults' # 0 \/ UNCHANGED <<pc, inc>>
  PROVE  AlertsAreMade'
BY DEF AlertsAreMade, Told

LEMMA CreateAlerts ==
  ASSUME IndInv, AlertsAreMade, CreateIncident
  PROVE  AlertsAreMade'
<1> DEFINE r == NewIncident
<1>1. /\ incidents' = Append(incidents, r) /\ incidents \in Seq(IncidentRows)
      /\ pc = "create" /\ pc' = "confirm" /\ inc' = Len(incidents) + 1
      /\ UNCHANGED <<notices, faults>>
  BY DEF CreateIncident, Hold, Goto, IndInv, TypeOK, TablesTypeOK
<1>a. cur \in Monitors
  BY <1>1 DEF IndInv, TypeOK, LoopTypeOK
<1>b. r \in IncidentRows /\ r.status = "suspect"
  BY <1>a DEF NewIncident, IncidentRows, IncidentStatuses
<1> HIDE DEF r
<1>2. /\ DOMAIN incidents' = 1..(Len(incidents) + 1) /\ DOMAIN incidents = 1..Len(incidents)
      /\ Len(incidents) \in Nat /\ incidents'[Len(incidents) + 1] = r
      /\ \A i \in DOMAIN incidents : incidents'[i] = incidents[i]
  BY <1>1, <1>b
<1>3. ASSUME faults = 0, NEW i \in DOMAIN incidents'
      PROVE  IF incidents'[i].status = "suspect" THEN pc' = "confirm" /\ inc' = i
             ELSE Told(i, "alert")' \/ (pc' = "alert" /\ inc' = i)
  <2>1. CASE i = Len(incidents) + 1
    BY <1>1, <1>b, <1>2, <2>1
  <2>2. CASE i \in DOMAIN incidents
    BY <1>1, <1>2, <1>3, <2>2 DEF AlertsAreMade, Told
  <2> QED BY <1>2, <2>1, <2>2
<1> QED BY <1>1, <1>3 DEF AlertsAreMade

LEMMA UpdateAlerts ==
  ASSUME IndInv, AlertsAreMade, ConfirmIncident \/ ResolveIncident
  PROVE  AlertsAreMade'
<1>1. /\ incidents \in Seq(IncidentRows) /\ inc \in DOMAIN incidents
      /\ UNCHANGED <<notices, faults, inc>>
  BY DEF ConfirmIncident, ResolveIncident, IndInv, TypeOK, TablesTypeOK, LoopKnowsItsIncident,
         LoopHolds
<1>2. incidents[inc] \in IncidentRows
  BY <1>1, ElementOfSeq
<1>3. /\ DOMAIN incidents' = DOMAIN incidents
      /\ \A i \in DOMAIN incidents : i # inc => incidents'[i] = incidents[i]
  BY <1>1, UpdateShape
<1>4. CASE ConfirmIncident
  <2>1. pc = "confirm" /\ pc' = "alert" /\ incidents'[inc].status = "confirmed"
    BY <1>1, <1>2, <1>4, UpdateShape DEF ConfirmIncident, Goto, IncidentRows
  <2> QED BY <1>1, <1>3, <2>1 DEF AlertsAreMade, Told
<1>5. CASE ResolveIncident
  <2>1. pc = "successes" /\ pc' = "recovery" /\ incidents'[inc].status = "resolved"
    BY <1>1, <1>2, <1>5, UpdateShape DEF ResolveIncident, Goto, IncidentRows
  <2> QED BY <1>1, <1>3, <2>1 DEF AlertsAreMade, Told
<1> QED BY <1>4, <1>5

LEMMA TellAlerts ==
  ASSUME IndInv, AlertsAreMade, RecoveryIsEarned, SendAlert \/ SendRecovery
  PROVE  AlertsAreMade' /\ RecoveryIsEarned'
<1> DEFINE event == IF pc = "alert" THEN "alert" ELSE "recovery"
           new == [inc |-> inc, event |-> event]
<1>1. /\ notices' = Append(notices, new) /\ notices \in Seq(Notices)
      /\ UNCHANGED <<incidents, faults>> /\ inc \in DOMAIN incidents
      /\ pc \in {"alert", "recovery"}
      /\ pc = "recovery" => incidents[inc].status = "resolved"
      /\ pc = "alert" => incidents[inc].status = "confirmed"
  BY DEF SendAlert, SendRecovery, Notify, IndInv, TypeOK, TablesTypeOK, LoopKnowsItsIncident,
         LoopHolds
<1>2. new \in Notices
  BY <1>1, ConstantsAssumption DEF IndInv, TypeOK, TablesTypeOK, Notices
<1>3. /\ Len(notices) \in Nat
      /\ DOMAIN notices = 1..Len(notices) /\ DOMAIN notices' = 1..(Len(notices) + 1)
      /\ \A k \in 1..Len(notices) : notices'[k] = notices[k]
      /\ notices'[Len(notices) + 1] = new
  BY <1>1, <1>2
<1>4. new.inc = inc /\ (new.event = "recovery" => pc = "recovery")
      /\ (pc = "alert" => new = [inc |-> inc, event |-> "alert"])
  BY <1>1
<1> HIDE DEF event, new
<1>5. ASSUME NEW i, Told(i, "alert") PROVE Told(i, "alert")'
  BY <1>3, <1>5 DEF Told
<1>6. pc = "alert" => \A i \in DOMAIN incidents : i = inc => Told(i, "alert")'
  BY <1>3, <1>4 DEF Told
<1>7. AlertsAreMade'
  <2> SUFFICES ASSUME faults = 0, NEW i \in DOMAIN incidents
               PROVE  incidents[i].status # "suspect" /\ Told(i, "alert")'
    BY <1>1 DEF AlertsAreMade
  <2>1. incidents[i].status # "suspect"
    BY <1>1 DEF AlertsAreMade
  <2>2. Told(i, "alert") \/ (pc = "alert" /\ inc = i)
    BY <2>1 DEF AlertsAreMade
  <2> QED BY <1>5, <1>6, <2>1, <2>2
<1>8. RecoveryIsEarned'
  <2> SUFFICES ASSUME faults = 0, NEW k \in 1..(Len(notices) + 1), notices'[k].event = "recovery"
               PROVE  \E j \in 1..(k - 1) :
                        notices'[j] = [inc |-> notices'[k].inc, event |-> "alert"]
    BY <1>1, <1>3 DEF RecoveryIsEarned, RecoveryFollowsAlert
  <2>1. CASE k = Len(notices) + 1
    <3>1. pc = "recovery" /\ notices'[k].inc = inc
      BY <1>3, <1>4, <2>1
    <3>2. Told(inc, "alert")
      BY <1>1, <3>1 DEF AlertsAreMade
    <3>3. PICK j \in 1..Len(notices) : notices[j] = [inc |-> inc, event |-> "alert"]
      BY <1>3, <3>2 DEF Told
    <3> QED BY <1>3, <2>1, <3>1, <3>3
  <2>2. CASE k \in 1..Len(notices)
    <3>1. \E j \in 1..(k - 1) : notices[j] = [inc |-> notices[k].inc, event |-> "alert"]
      BY <1>3, <2>2 DEF RecoveryIsEarned, RecoveryFollowsAlert
    <3> QED BY <1>3, <2>2, <3>1
  <2> QED BY <1>3, <2>1, <2>2
<1> QED BY <1>7, <1>8

(* evaluateMonitorConsensus: while no query fails and the coordinator is   *)
(* not restarted, a recovery is told after the outage, for any number of   *)
(* nodes and monitors.                                                     *)
THEOREM RecoveryComesAfterAlert == Spec => [](faults = 0 => RecoveryFollowsAlert)
<1>1. Init => AlertsAreMade /\ RecoveryIsEarned
  BY DEF Init, AlertsAreMade, RecoveryIsEarned, RecoveryFollowsAlert
<1>2. ASSUME IndInv, AlertsAreMade, RecoveryIsEarned, [Next]_vars
      PROVE  AlertsAreMade' /\ RecoveryIsEarned'
  <2>0. faults \in Nat
    BY ConstantsAssumption, <1>2 DEF IndInv, TypeOK, TablesTypeOK
  <2>1. CASE CreateIncident \/ ConfirmIncident \/ ResolveIncident
    <3>1. UNCHANGED <<notices, faults>>
      BY <2>1 DEF CreateIncident, ConfirmIncident, ResolveIncident
    <3> QED BY <1>2, <2>1, <3>1, CreateAlerts, UpdateAlerts DEF RecoveryIsEarned, RecoveryFollowsAlert
  <2>2. CASE SendAlert \/ SendRecovery
    BY <1>2, <2>2, TellAlerts
  <2>3. CASE FaultStep
    <3>1. faults' # 0 /\ UNCHANGED <<incidents, notices>>
      BY <2>0, <2>3 DEF FaultStep, GiveUp, Crash, SkipNode, Fault, Tables
    <3> QED BY <3>1 DEF AlertsAreMade, RecoveryIsEarned
  <2>4. CASE \/ Tick \/ FindConfirmed \/ FindSuspect \/ FindNone \/ NothingActive \/ FindActive
             \/ NotRecovered \/ Environment \/ UNCHANGED vars
             \/ \E n \in Nodes : CountFailures(n) \/ CountSuccesses(n)
    <3>1. /\ UNCHANGED <<incidents, notices, faults>>
          /\ pc \in {"confirm", "alert"} => UNCHANGED <<pc, inc>>
      BY <2>4 DEF Tick, FindConfirmed, FindSuspect, FindNone, NothingActive, FindActive,
         NotRecovered, Environment, RecordResult, SetNodeStatus, CountFailures, CountSuccesses,
         Tables, vars, loopVars, incident
    <3>2. AlertsAreMade'
      BY <1>2, <3>1, AlertsUntouched
    <3> QED BY <1>2, <3>1, <3>2 DEF RecoveryIsEarned, RecoveryFollowsAlert
  <2> QED BY <1>2, <2>1, <2>2, <2>3, <2>4 DEF Next, LoopStep
<1>3. RecoveryIsEarned => (faults = 0 => RecoveryFollowsAlert)
  BY DEF RecoveryIsEarned
<1> QED BY <1>1, <1>2, <1>3, Invariance, PTL DEF Spec
-----------------------------------------------------------------------------
(* Decisions rest on what was seen.                                        *)

(* Each node counted so far was seen, since the evaluation began, beyond   *)
(* the threshold of its monitor, and each one asked and not counted was    *)
(* seen below it.                                                          *)
CountersMean ==
  /\ pc \in {"failures", "create", "confirm"} => failing \subseteq sawFailing
  /\ pc = "failures" => /\ recovered = {}
                        /\ ~skipped => online \ (remaining \cup failing) \subseteq sawSound
  /\ pc \in {"create", "confirm"} => QuorumOf(cur, failing, online)
  /\ pc = "successes" => /\ recovered \subseteq sawUp
                         /\ ~QuorumOf(cur, failing, online)
                         /\ ~skipped => online \ failing \subseteq sawSound
  /\ ConfirmedOnEvidence
  /\ ResolvedOnEvidence

EvidenceInv == IndInv /\ CountersMean

(* A quorum stays one when more nodes agree (EvaluateQuorum).              *)
LEMMA QuorumGrows ==
  ASSUME NEW m \in Monitors, NEW S \in SUBSET Nodes, NEW T \in SUBSET S,
         NEW total \in SUBSET Nodes, QuorumOf(m, T, total)
  PROVE  QuorumOf(m, S, total)
<1> USE ConstantsAssumption
<1>1. IsFiniteSet(S) /\ IsFiniteSet(T) /\ IsFiniteSet(total)
  BY FS_Subset
<1>2. /\ Cardinality(S) \in Nat /\ Cardinality(T) \in Nat /\ Cardinality(total) \in Nat
      /\ Cardinality(T) <= Cardinality(S)
  BY <1>1, FS_CardinalityType, FS_Subset
<1>3. QuorumN[m] \in Nat
  OBVIOUS
<1> QED BY <1>2, <1>3 DEF QuorumOf, EvaluateQuorum

(* An evaluation that goes on forgets nothing of what it has seen.         *)
LEMMA Remembered ==
  ASSUME HistoryNext, cur' = cur
  PROVE  /\ sawFailing \subseteq sawFailing' /\ sawUp \subseteq sawUp'
         /\ sawSound \subseteq sawSound'
         /\ FailingNow' \subseteq sawFailing' /\ UpNow' \subseteq sawUp'
         /\ SoundNow' \subseteq sawSound'
         /\ ~skipped' => ~skipped /\ faults' = faults
BY DEF HistoryNext

(* At the start of an evaluation, and between rounds, nothing is counted.  *)
LEMMA FreshCounters ==
  ASSUME StartMonitor(cur', todo', online') \/ EndRound
  PROVE  CountersMean'
BY DEF StartMonitor, EndRound, CountersMean, ConfirmedOnEvidence, ResolvedOnEvidence

LEMMA ReturnFresh ==
  ASSUME Return
  PROVE  CountersMean'
<1>1. StartMonitor(cur', todo', online') \/ EndRound
  BY DEF Return, StartMonitor, EndRound
<1> QED BY <1>1, FreshCounters

(* A step of some other part of the process leaves the counters with their *)
(* meaning, and so does a query that fails, for it is remembered.          *)
LEMMA SameCounters ==
  ASSUME EvidenceInv, HistoryNext,
         UNCHANGED <<incidents, pc, online, cur, failing, recovered, inc>>,
         remaining' = remaining \/ faults' # faults
  PROVE  CountersMean'
<1>1. /\ sawFailing \subseteq sawFailing' /\ sawUp \subseteq sawUp' /\ sawSound \subseteq sawSound'
      /\ ~skipped' => ~skipped /\ remaining' = remaining
  BY Remembered
<1>2. ConfirmedOnEvidence'
  BY <1>1 DEF EvidenceInv, CountersMean, ConfirmedOnEvidence, QuorumOf
<1>3. ResolvedOnEvidence'
  <2> SUFFICES ASSUME pc = "recovery"
               PROVE  ResolvedOnEvidence'
    BY DEF ResolvedOnEvidence
  <2>1. /\ incidents[inc].monitor = cur
        /\ \E nodes \in SUBSET online : nodes \subseteq sawUp /\ QuorumOf(cur, nodes, online)
        /\ ~skipped => \A nodes \in SUBSET online :
             QuorumOf(cur, nodes, online) => nodes \cap sawSound # {}
    BY DEF EvidenceInv, CountersMean, ResolvedOnEvidence
  <2>2. \A nodes : QuorumOf(cur, nodes, online)' <=> QuorumOf(cur, nodes, online)
    BY DEF QuorumOf
  <2>3. \E nodes \in SUBSET online : nodes \subseteq sawUp' /\ QuorumOf(cur, nodes, online)
    BY <1>1, <2>1
  <2>4. ~skipped' => \A nodes \in SUBSET online :
          QuorumOf(cur, nodes, online) => nodes \cap sawSound' # {}
    BY <1>1, <2>1
  <2> QED BY <2>1, <2>3, <2>4 DEF ResolvedOnEvidence, QuorumOf
<1> QED BY <1>1, <1>2, <1>3 DEF EvidenceInv, CountersMean, QuorumOf

LEMMA CountFailuresMeans ==
  ASSUME EvidenceInv, HistoryNext, NEW n \in Nodes, CountFailures(n)
  PROVE  CountersMean'
<1>1. /\ pc = "failures" /\ pc' = "failures" /\ cur' = cur /\ cur \in Monitors
      /\ recovered' = recovered /\ remaining' = remaining \ {n} /\ UNCHANGED <<results, online>>
      /\ failing' = IF IsFailing(cur, n) THEN failing \cup {n} ELSE failing
  BY DEF CountFailures, Tables, EvidenceInv, IndInv, TypeOK, LoopTypeOK
<1>2. /\ sawFailing \subseteq sawFailing' /\ FailingNow' \subseteq sawFailing'
      /\ sawSound \subseteq sawSound' /\ SoundNow' \subseteq sawSound' /\ (~skipped' => ~skipped)
  BY <1>1, Remembered
<1>3. IF IsFailing(cur, n) THEN n \in FailingNow' ELSE n \in SoundNow'
  BY <1>1 DEF FailingNow, SoundNow, IsFailing
<1>4. /\ failing \subseteq sawFailing /\ recovered = {}
      /\ ~skipped => online \ (remaining \cup failing) \subseteq sawSound
  BY <1>1 DEF EvidenceInv, CountersMean
<1>5. failing' \subseteq sawFailing'
  BY <1>1, <1>2, <1>3, <1>4
<1>6. ~skipped' => online' \ (remaining' \cup failing') \subseteq sawSound'
  BY <1>1, <1>2, <1>3, <1>4
<1> QED BY <1>1, <1>4, <1>5, <1>6 DEF CountersMean, ConfirmedOnEvidence, ResolvedOnEvidence

LEMMA CountSuccessesMeans ==
  ASSUME EvidenceInv, HistoryNext, NEW n \in Nodes, CountSuccesses(n)
  PROVE  CountersMean'
<1>1. /\ pc = "successes" /\ pc' = "successes" /\ cur' = cur /\ cur \in Monitors
      /\ UNCHANGED <<results, online, failing>>
      /\ recovered' = IF IsRecovered(cur, n) THEN recovered \cup {n} ELSE recovered
  BY DEF CountSuccesses, Tables, EvidenceInv, IndInv, TypeOK, LoopTypeOK
<1>2. /\ sawUp \subseteq sawUp' /\ UpNow' \subseteq sawUp'
      /\ sawSound \subseteq sawSound' /\ (~skipped' => ~skipped)
  BY <1>1, Remembered
<1>3. IsRecovered(cur, n) => n \in UpNow'
  BY <1>1 DEF UpNow, IsRecovered
<1>4. /\ recovered \subseteq sawUp /\ ~QuorumOf(cur, failing, online)
      /\ ~skipped => online \ failing \subseteq sawSound
  BY <1>1 DEF EvidenceInv, CountersMean
<1>5. recovered' \subseteq sawUp'
  BY <1>1, <1>2, <1>3, <1>4
<1>6. ~QuorumOf(cur, failing, online)' /\ (~skipped' => online' \ failing' \subseteq sawSound')
  BY <1>1, <1>2, <1>4 DEF QuorumOf
<1> QED BY <1>1, <1>5, <1>6 DEF CountersMean, ConfirmedOnEvidence, ResolvedOnEvidence

(* The failure quorum is met, or it is not and the successes are counted.  *)
LEMMA FindMeans ==
  ASSUME EvidenceInv, HistoryNext, FindSuspect \/ FindNone \/ FindActive
  PROVE  CountersMean'
<1>1. /\ UNCHANGED <<online, cur, failing, recovered>>
      /\ pc = "failures" /\ remaining = {} /\ recovered = {}
      /\ \/ pc' \in {"create", "confirm"} /\ QuorumOf(cur, failing, online)
         \/ pc' = "successes" /\ ~QuorumOf(cur, failing, online)
  BY DEF FindSuspect, FindNone, FindActive, Goto, FailureQuorum, EvidenceInv, CountersMean
<1>2. /\ failing \subseteq sawFailing /\ sawFailing \subseteq sawFailing'
      /\ ~skipped' => online \ failing \subseteq sawSound'
  BY <1>1, Remembered DEF EvidenceInv, CountersMean
<1> QED BY <1>1, <1>2 DEF CountersMean, ConfirmedOnEvidence, ResolvedOnEvidence, QuorumOf

LEMMA CreateMeans ==
  ASSUME EvidenceInv, HistoryNext, CreateIncident
  PROVE  CountersMean'
<1>1. /\ UNCHANGED <<online, cur, failing>> /\ pc = "create" /\ pc' = "confirm"
  BY DEF CreateIncident, Goto
<1>2. failing \subseteq sawFailing /\ sawFailing \subseteq sawFailing'
  BY <1>1, Remembered DEF EvidenceInv, CountersMean
<1> QED BY <1>1, <1>2
        DEF EvidenceInv, CountersMean, ConfirmedOnEvidence, ResolvedOnEvidence, QuorumOf

LEMMA ConfirmMeans ==
  ASSUME EvidenceInv, HistoryNext, ConfirmIncident
  PROVE  CountersMean'
<1>1. /\ UNCHANGED <<online, cur, failing, inc>> /\ pc = "confirm" /\ pc' = "alert"
      /\ incidents \in Seq(IncidentRows) /\ inc \in DOMAIN incidents
      /\ incidents[inc].monitor = cur
      /\ incidents' = [incidents EXCEPT ![inc] =
                         [@ EXCEPT !.status = "confirmed", !.nodes = failing]]
  BY UpdateShape
     DEF ConfirmIncident, Goto, EvidenceInv, IndInv, TypeOK, TablesTypeOK,
         LoopKnowsItsIncident, LoopHolds
<1>2. incidents[inc] \in IncidentRows
  BY <1>1, ElementOfSeq
<1>3. incidents'[inc] = [incidents[inc] EXCEPT !.status = "confirmed", !.nodes = failing]
  BY <1>1
<1>4. incidents'[inc].monitor = cur /\ incidents'[inc].nodes = failing
  BY <1>1, <1>2, <1>3 DEF IncidentRows
<1>5. failing \subseteq sawFailing /\ sawFailing \subseteq sawFailing'
  BY <1>1, Remembered DEF EvidenceInv, CountersMean
<1>6. failing \subseteq online /\ QuorumOf(cur, failing, online)
  BY <1>1 DEF EvidenceInv, CountersMean, IndInv, TypeOK, LoopTypeOK
<1>7. ConfirmedOnEvidence'
  BY <1>1, <1>4, <1>5, <1>6 DEF ConfirmedOnEvidence, QuorumOf
<1> QED BY <1>1, <1>7 DEF CountersMean, ResolvedOnEvidence

(* A quorum of nodes that all kept failing would be among the failing ones *)
(* that were counted, and these were none.                                 *)
LEMMA ResolveMeans ==
  ASSUME EvidenceInv, HistoryNext, ResolveIncident
  PROVE  CountersMean'
<1>1. /\ UNCHANGED <<online, cur, recovered, inc>> /\ pc = "successes" /\ pc' = "recovery"
      /\ incidents \in Seq(IncidentRows) /\ inc \in DOMAIN incidents
      /\ incidents[inc].monitor = cur /\ cur \in Monitors
      /\ incidents' = [incidents EXCEPT ![inc] = [@ EXCEPT !.status = "resolved"]]
      /\ QuorumOf(cur, recovered, online) /\ recovered \subseteq online
      /\ failing \subseteq online /\ online \subseteq Nodes
  BY UpdateShape
     DEF ResolveIncident, RecoveryQuorum, Goto, EvidenceInv, IndInv, TypeOK, TablesTypeOK,
         LoopTypeOK, LoopKnowsItsIncident, LoopHolds
<1>2. incidents[inc] \in IncidentRows
  BY <1>1, ElementOfSeq
<1>3. incidents'[inc].monitor = cur
  BY <1>1, <1>2 DEF IncidentRows
<1>4. recovered \subseteq sawUp /\ sawUp \subseteq sawUp'
  BY <1>1, Remembered DEF EvidenceInv, CountersMean
<1>5. /\ ~QuorumOf(cur, failing, online)
      /\ ~skipped' => online \ failing \subseteq sawSound'
  BY <1>1, Remembered DEF EvidenceInv, CountersMean
<1>6. ASSUME ~skipped', NEW nodes \in SUBSET online, QuorumOf(cur, nodes, online)
      PROVE  nodes \cap sawSound' # {}
  <2>1. ~(nodes \subseteq failing)
    BY <1>1, <1>5, <1>6, QuorumGrows
  <2> QED BY <1>5, <1>6, <2>1
<1>7. ResolvedOnEvidence'
  BY <1>1, <1>3, <1>4, <1>6 DEF ResolvedOnEvidence, QuorumOf
<1> QED BY <1>1, <1>7 DEF CountersMean, ConfirmedOnEvidence

LEMMA EvidenceStep ==
  EvidenceInv /\ [EvidenceNext]_<<vars, historyVars>> => EvidenceInv'
<1>1. ASSUME EvidenceInv, UNCHANGED <<vars, historyVars>> PROVE EvidenceInv'
  <2>1. IndInv'
    BY <1>1, StutterInd DEF EvidenceInv
  <2>2. ConfirmedOnEvidence' /\ ResolvedOnEvidence'
    BY <1>1 DEF EvidenceInv, CountersMean, ConfirmedOnEvidence, ResolvedOnEvidence,
                vars, loopVars, incident, historyVars, QuorumOf
  <2> QED BY <1>1, <2>1, <2>2 DEF EvidenceInv, CountersMean, vars, loopVars, incident, historyVars, QuorumOf
<1>2. ASSUME EvidenceInv, Next, HistoryNext PROVE CountersMean'
  <2> USE <1>2
  <2>1. CASE Environment
    BY <2>1, SameCounters DEF Environment, RecordResult, SetNodeStatus, loopVars, incident
  <2>2. ASSUME NEW n \in Nodes, SkipNode(n)
        PROVE  CountersMean'
    <3>1. faults' # faults
      BY <2>2, ConstantsAssumption
         DEF SkipNode, Fault, EvidenceInv, IndInv, TypeOK, TablesTypeOK
    <3> QED BY <2>2, <3>1, SameCounters DEF SkipNode, Tables, incident
  <2>3. CASE GiveUp \/ FindConfirmed \/ NothingActive \/ NotRecovered \/ SendAlert \/ SendRecovery
    BY <2>3, ReturnFresh
       DEF GiveUp, FindConfirmed, NothingActive, NotRecovered, SendAlert, SendRecovery
  <2>4. CASE Tick \/ Crash
    <3>1. StartMonitor(cur', todo', online') \/ EndRound
      BY <2>4 DEF Tick, Crash, StartMonitor
    <3> QED BY <3>1, FreshCounters
  <2>5. CASE \E n \in Nodes : CountFailures(n) \/ CountSuccesses(n)
    BY <2>5, CountFailuresMeans, CountSuccessesMeans
  <2>6. CASE FindSuspect \/ FindNone \/ FindActive
    BY <2>6, FindMeans
  <2>7. CASE CreateIncident \/ ConfirmIncident \/ ResolveIncident
    BY <2>7, CreateMeans, ConfirmMeans, ResolveMeans
  <2> QED BY <2>1, <2>2, <2>3, <2>4, <2>5, <2>6, <2>7 DEF Next, LoopStep, FaultStep
<1>3. ASSUME EvidenceInv, Next PROVE IndInv'
  BY <1>3, NextInd DEF EvidenceInv
<1> QED BY <1>1, <1>2, <1>3 DEF EvidenceNext, EvidenceInv

LEMMA EvidenceInvariance == EvidenceSpec => []EvidenceInv
<1>1. EvidenceInit => EvidenceInv
  BY InitInd DEF EvidenceInit, Init, EvidenceInv, CountersMean, ConfirmedOnEvidence,
                 ResolvedOnEvidence
<1>2. EvidenceInv /\ [EvidenceNext]_<<vars, historyVars>> => EvidenceInv'
  BY EvidenceStep
<1> QED BY <1>1, <1>2, PTL DEF EvidenceSpec

(* Every incident that is confirmed is confirmed by nodes that were online *)
(* when the round began, each of which crossed the failure threshold of    *)
(* this very monitor during its evaluation, and that are a quorum.         *)
THEOREM ConfirmationsRestOnEvidence == EvidenceSpec => []ConfirmedOnEvidence
<1>1. EvidenceInv => ConfirmedOnEvidence
  BY DEF EvidenceInv, CountersMean
<1> QED BY <1>1, EvidenceInvariance, PTL

(* Every incident that is resolved has a quorum of nodes that crossed the  *)
(* recovery threshold during the evaluation, and no quorum that was        *)
(* failing all through it (evaluateMonitorConsensus).                      *)
THEOREM ResolutionsRestOnEvidence == EvidenceSpec => []ResolvedOnEvidence
<1>1. EvidenceInv => ResolvedOnEvidence
  BY DEF EvidenceInv, CountersMean
<1> QED BY <1>1, EvidenceInvariance, PTL

(* Where evaluateMonitorConsensus goes on to the recovery, or returns for  *)
(* want of an incident, and no query failed, it has not passed over an     *)
(* outage: no quorum of the online nodes was failing all the time, though  *)
(* each was asked at another moment.                                       *)
OutagesAreNotPassedOver ==
  [][NothingActive \/ FindActive =>
       (~skipped => \A nodes \in SUBSET online :
          QuorumOf(cur, nodes, online) => nodes \cap sawSound # {})]_<<vars, historyVars>>

THEOREM NoOutageIsPassedOver == EvidenceSpec => OutagesAreNotPassedOver
<1>1. ASSUME EvidenceInv, NothingActive \/ FindActive, ~skipped,
             NEW nodes \in SUBSET online, QuorumOf(cur, nodes, online)
      PROVE  nodes \cap sawSound # {}
  <2>1. /\ ~QuorumOf(cur, failing, online) /\ online \ failing \subseteq sawSound
        /\ cur \in Monitors /\ failing \subseteq online /\ online \subseteq Nodes
    BY <1>1 DEF NothingActive, FindActive, FailureQuorum, EvidenceInv, CountersMean, IndInv,
                TypeOK, LoopTypeOK
  <2>2. ~(nodes \subseteq failing)
    BY <1>1, <2>1, QuorumGrows
  <2> QED BY <1>1, <2>1, <2>2
<1>2. EvidenceInv =>
        [NothingActive \/ FindActive =>
           (~skipped => \A nodes \in SUBSET online :
              QuorumOf(cur, nodes, online) => nodes \cap sawSound # {})]_<<vars, historyVars>>
  BY <1>1
<1> QED BY <1>2, EvidenceInvariance, PTL DEF OutagesAreNotPassedOver

(* EvaluateQuorum: with a majority, or more than half as quorum_n, those   *)
(* who see a monitor down and those who see it up are never both enough;   *)
(* two quorums share a node.  (With a smaller quorum_n they may both be,   *)
(* and that the failures are counted first is what decides.)               *)
THEOREM QuorumsMeet ==
  ASSUME NEW m \in Monitors, NEW L \in SUBSET Nodes, NEW S \in SUBSET L, NEW T \in SUBSET L,
         QuorumType[m] = "n_of_m" => 2 * QuorumN[m] > Cardinality(L),
         QuorumOf(m, S, L), QuorumOf(m, T, L)
  PROVE  S \cap T # {}
<1> USE ConstantsAssumption
<1>1. IsFiniteSet(L) /\ IsFiniteSet(S) /\ IsFiniteSet(T)
  BY FS_Subset
<1>2. Cardinality(L) \in Nat /\ Cardinality(S) \in Nat /\ Cardinality(T) \in Nat
  BY <1>1, FS_CardinalityType
<1>3. Cardinality(S) + Cardinality(T) > Cardinality(L)
  <2>1. CASE QuorumType[m] = "n_of_m"
    <3>1. /\ QuorumN[m] \in Nat /\ 2 * QuorumN[m] > Cardinality(L)
          /\ Cardinality(S) >= QuorumN[m] /\ Cardinality(T) >= QuorumN[m]
      BY <2>1 DEF QuorumOf, EvaluateQuorum
    <3> QED BY <1>2, <3>1
  <2>2. CASE QuorumType[m] # "n_of_m"
    <3>1. Cardinality(S) > Cardinality(L) \div 2 /\ Cardinality(T) > Cardinality(L) \div 2
      BY <2>2 DEF QuorumOf, EvaluateQuorum
    <3> QED BY <1>2, <3>1
  <2> QED BY <2>1, <2>2
<1> QED BY <1>1, <1>3, FS_MajoritiesIntersect
-----------------------------------------------------------------------------
EnvironmentTypeOK ==
  /\ sees \in [Monitors \X Nodes -> CheckStatuses]
  /\ live \subseteq Nodes /\ Coordinator \in live /\ stale \subseteq Nodes

LEMMA EnvironmentTypes == SystemSpec => []EnvironmentTypeOK
<1>1. SystemInit => EnvironmentTypeOK
  BY SystemAssumption DEF SystemInit, EnvironmentTypeOK
<1>2. ASSUME EnvironmentTypeOK, [SystemNext]_systemVars
      PROVE  EnvironmentTypeOK'
  <2>1. CASE UNCHANGED environment
    BY <1>2, <2>1 DEF EnvironmentTypeOK, environment
  <2>2. ASSUME NEW m \in Monitors, NEW n \in Nodes, NEW s \in CheckStatuses, TargetChanges(m, n, s)
        PROVE  EnvironmentTypeOK'
    BY <1>2, <2>2 DEF EnvironmentTypeOK, TargetChanges
  <2>3. ASSUME NEW n \in Nodes, StartAgent(n) \/ StopAgent(n)
        PROVE  EnvironmentTypeOK'
    BY <1>2, <2>3 DEF EnvironmentTypeOK, StartAgent, StopAgent
  <2>4. ASSUME NEW n \in Nodes, Heartbeat(n) \/ FallSilent(n) \/ MarkOffline(n)
        PROVE  EnvironmentTypeOK'
    BY <1>2, <2>4 DEF EnvironmentTypeOK, Heartbeat, FallSilent, MarkOffline
  <2> QED BY <1>2, <2>1, <2>2, <2>3, <2>4
      DEF SystemNext, GoOn, Fail, Cluster, Check, systemVars
<1> QED BY <1>1, <1>2, PTL DEF SystemSpec

(* A step of the cluster is a step of Consensus or changes nothing of what *)
(* Consensus speaks of.                                                    *)
LEMMA StepIsConsensus ==
  ASSUME EnvironmentTypeOK, [SystemNext]_systemVars
  PROVE  [Next]_vars
<1>1. CASE LoopStep \/ FaultStep
  BY <1>1 DEF Next
<1>2. ASSUME NEW n \in Nodes, StartAgent(n) \/ StopAgent(n) \/ FallSilent(n)
      PROVE  UNCHANGED vars
  BY <1>2 DEF StartAgent, StopAgent, FallSilent
<1>3. ASSUME NEW n \in Nodes, Heartbeat(n) \/ MarkOffline(n)
      PROVE  Next
  BY <1>3 DEF Heartbeat, MarkOffline, Next, Environment
<1>4. ASSUME NEW m \in Monitors, NEW n \in Nodes, Check(m, n)
      PROVE  Next
  <2>1. sees[<<m, n>>] \in CheckStatuses /\ 1 \in 1..ResultLimit
    BY ConstantsAssumption DEF EnvironmentTypeOK
  <2> QED BY <1>4, <2>1 DEF Check, Next, Environment
<1>5. ASSUME NEW m \in Monitors, NEW n \in Nodes, NEW s \in CheckStatuses, TargetChanges(m, n, s)
      PROVE  UNCHANGED vars
  BY <1>5 DEF TargetChanges
<1> QED BY <1>1, <1>2, <1>3, <1>4, <1>5 DEF SystemNext, GoOn, Fail, Cluster, systemVars

(* The cluster is one of the environments Consensus was checked in.        *)
THEOREM SystemIsConsensus == SystemSpec => Spec
<1>1. SystemInit => Init
  BY DEF SystemInit
<1>2. EnvironmentTypeOK /\ [SystemNext]_systemVars => [Next]_vars
  BY StepIsConsensus
<1> QED BY <1>1, <1>2, EnvironmentTypes, PTL DEF SystemSpec, Spec

(* So a cluster whose agents come and go with windows of old results has   *)
(* at most one open incident per monitor, tells of each once and of none   *)
(* that has not come to that, of recoveries after alerts as long as nothing*)
(* fails, and keeps to the life cycle.                                     *)
THEOREM SystemIsSafe ==
  SystemSpec => /\ [](SystemTypeOK /\ AtMostOneActive /\ LoopKnowsItsIncident)
                /\ [](NoDuplicateNotices /\ NoticesAreEarned)
                /\ [](faults = 0 => RecoveryFollowsAlert)
                /\ ImplementsLifecycle /\ ConfirmingNodesAreFinal
<1>1. EnvironmentTypeOK /\ TypeOK => SystemTypeOK
  BY DEF EnvironmentTypeOK, SystemTypeOK
<1> QED BY <1>1, EnvironmentTypes, SystemIsConsensus, TypeCorrect, OneActive, ToldOnce,
           HeldIncidentIsCurrent, NoticesAreBorneOut, RecoveryComesAfterAlert,
           LifecycleRefined, ConfirmingNodesKept, PTL
=============================================================================
