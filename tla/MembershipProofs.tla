--------------------------- MODULE MembershipProofs ---------------------------
(***************************************************************************)
(* Proofs about Membership for any nodes, timeout and failed queries.  A   *)
(* node is marked offline because the detector read its row when it was    *)
(* stale; so the invariant bounds how old the row of a node can be by the  *)
(* heartbeats that did not reach it, and says who can be in the snapshot.  *)
(***************************************************************************)
EXTENDS Membership, TLAPS

(* A node nobody admitted runs no agent, and the detector reads rows only. *)
Unknown ==
  /\ \A n \in Nodes : status[n] = "none" => n \notin live \cup inFlight /\ missed[n] = 0
  /\ \A n \in DOMAIN snap : status[n] # "none"

(* The row of a node is as old as the heartbeats it missed, and one unit   *)
(* more while this unit's is to come.                                      *)
Allowed(n) == IF n \in due \cup inFlight THEN missed[n] + 1 ELSE missed[n]

Punctual(n) ==
  n \in steady =>
    /\ status[n] \in {"online", "removed"}
    /\ missed[n] < MissLimit
    /\ status[n] = "online" => n \notin DOMAIN snap /\ age[n] <= Allowed(n)

(* When the detector of the coordinator runs, its own row is one unit old  *)
(* at most, for an agent sends a heartbeat before it detects.              *)
OwnRow ==
  /\ status[Coordinator] = "online"
  /\ Coordinator \notin DOMAIN snap
  /\ Coordinator \in live \ due => age[Coordinator] = 0
  /\ detDue => age[Coordinator] <= 1

CoordinatorFirst == faults = 0 /\ status[Coordinator] # "removed" => OwnRow

MembershipInv ==
  /\ TypeOK
  /\ Unknown
  /\ \A n \in Nodes : Punctual(n)
  /\ CoordinatorFirst
-----------------------------------------------------------------------------
(* The invariant holds when pingmesh init has just run.                    *)
LEMMA InitInd == Init => MembershipInv
<1> SUFFICES ASSUME Init PROVE MembershipInv
  OBVIOUS
<1> USE MembershipAssumption DEF Init, NoRows, MissLimit
<1>0. DOMAIN snap = {}
  OBVIOUS
<1>1. TypeOK
  <2>1. detDue \in BOOLEAN /\ ~detDue
    OBVIOUS
  <2>2. (detDue \/ DOMAIN snap # {}) => Coordinator \in live
    BY <1>0
  <2>3. status \in [Nodes -> {"none", "online", "offline", "removed"}]
    OBVIOUS
  <2>4. age \in [Nodes -> 0..MaxAge] /\ missed \in [Nodes -> 0..MissLimit] /\ faults \in 0..MaxFaults
    OBVIOUS
  <2> QED BY <1>0, <2>1, <2>2, <2>3, <2>4 DEF TypeOK
<1>2. Unknown
  BY <1>0 DEF Unknown
<1>3. \A n \in Nodes : Punctual(n)
  BY <1>0 DEF Punctual, Allowed
<1>4. CoordinatorFirst
  BY DEF CoordinatorFirst, OwnRow
<1> QED BY <1>1, <1>2, <1>3, <1>4 DEF MembershipInv
-----------------------------------------------------------------------------
(* What an UPDATE of a row leaves of the table.                            *)
LEMMA RowUpdated ==
  ASSUME TypeOK, NEW n \in Nodes, NEW s \in {"online", "offline"}, NEW a \in 0..MaxAge,
         UpdateNodeStatus(n, s, a)
  PROVE  /\ status' \in [Nodes -> {"none", "online", "offline", "removed"}]
         /\ age' \in [Nodes -> 0..MaxAge]
         /\ \A k \in Nodes : k # n \/ ~Known(n) => status'[k] = status[k] /\ age'[k] = age[k]
         /\ Known(n) => status'[n] = s /\ age'[n] = a
BY DEF TypeOK, UpdateNodeStatus, Known

(* A count of missed heartbeats stays within the timeout, and a node that  *)
(* is still steady missed fewer.                                           *)
LEMMA Missed ==
  ASSUME TypeOK, NEW n \in Nodes, Miss(n)
  PROVE  /\ missed' \in [Nodes -> 0..MissLimit]
         /\ steady' \subseteq steady
         /\ \A k \in Nodes \ {n} : missed'[k] = missed[k]
         /\ n \in steady' => missed'[n] = missed[n] + 1 /\ missed'[n] < MissLimit
<1>0. MissLimit \in Nat \ {0}
  BY MembershipAssumption DEF MissLimit
<1>1. missed[n] \in 0..MissLimit
  BY DEF TypeOK
<1>2. CASE missed[n] < MissLimit
  <2>1. missed[n] + 1 \in 0..MissLimit
    BY <1>0, <1>1, <1>2
  <2>2. missed' = [missed EXCEPT ![n] = missed[n] + 1]
    BY <1>2 DEF Miss
  <2>3. steady' = IF missed[n] + 1 = MissLimit THEN steady \ {n} ELSE steady
    BY <1>2 DEF Miss
  <2>4. missed' \in [Nodes -> 0..MissLimit] /\ missed'[n] = missed[n] + 1
        /\ \A k \in Nodes \ {n} : missed'[k] = missed[k]
    BY <2>1, <2>2 DEF TypeOK
  <2> QED BY <1>0, <1>1, <2>1, <2>3, <2>4
<1>3. CASE ~(missed[n] < MissLimit)
  <2>1. missed' = [missed EXCEPT ![n] = MissLimit]
    BY <1>3 DEF Miss
  <2>2. steady' = steady \ {n}
    BY <1>3 DEF Miss
  <2>3. missed' \in [Nodes -> 0..MissLimit] /\ \A k \in Nodes \ {n} : missed'[k] = missed[k]
    BY <1>0, <2>1 DEF TypeOK
  <2> QED BY <2>2, <2>3
<1> QED BY <1>2, <1>3

LEMMA FaultType ==
  ASSUME TypeOK, Fault
  PROVE  faults' \in 0..MaxFaults /\ faults' # 0
BY MembershipAssumption DEF TypeOK, Fault
-----------------------------------------------------------------------------
(* The steps of the clock.                                                 *)
LEMMA TickInd ==
  ASSUME MembershipInv, Tick
  PROVE  MembershipInv'
<1> USE MembershipAssumption DEF MembershipInv, Tick
<1>0. /\ age' \in [Nodes -> 0..MaxAge]
      /\ \A n \in Nodes : age'[n] = IF age[n] < MaxAge THEN age[n] + 1 ELSE MaxAge
  BY DEF TypeOK
<1>1. TypeOK'
  BY <1>0 DEF TypeOK
<1>2. Unknown'
  BY DEF Unknown
<1>3. ASSUME NEW n \in Nodes
      PROVE  Punctual(n)'
  <2> SUFFICES ASSUME n \in steady'
               PROVE  /\ status[n] \in {"online", "removed"} /\ missed[n] < MissLimit
                      /\ status[n] = "online" => n \notin DOMAIN snap /\ age'[n] <= missed[n] + 1
    BY <1>3 DEF Punctual, Allowed
  <2>1. n \in steady /\ n \notin due
    OBVIOUS
  <2>2. age[n] \in 0..MaxAge /\ missed[n] \in 0..MissLimit
    BY DEF TypeOK
  <2> QED BY <1>0, <2>1, <2>2 DEF Punctual, Allowed
<1>4. CoordinatorFirst'
  <2> SUFFICES ASSUME faults = 0, status[Coordinator] # "removed"
               PROVE  OwnRow'
    BY DEF CoordinatorFirst
  <2>1. OwnRow
    BY DEF CoordinatorFirst
  <2>2. detDue' => age[Coordinator] = 0
    BY <2>1 DEF OwnRow
  <2>3. age'[Coordinator] = IF age[Coordinator] < MaxAge THEN age[Coordinator] + 1 ELSE MaxAge
    BY <1>0
  <2>4. detDue' => age'[Coordinator] <= 1
    BY <2>2, <2>3
  <2>5. Coordinator \notin live' \ due'
    OBVIOUS
  <2> QED BY <2>1, <2>4, <2>5 DEF OwnRow
<1> QED BY <1>1, <1>2, <1>3, <1>4

(* A heartbeat of a node that leaves, arrives, or is lost.                 *)
LEMMA SendInd ==
  ASSUME MembershipInv, NEW n \in Nodes, SendHeartbeat(n)
  PROVE  MembershipInv'
<1> USE DEF MembershipInv, SendHeartbeat, coordVars
<1>0. /\ missed' \in [Nodes -> 0..MissLimit] /\ steady' \subseteq steady
      /\ inFlight \subseteq inFlight' /\ inFlight' \subseteq inFlight \cup {n}
      /\ \A k \in Nodes \ {n} : missed'[k] = missed[k]
      /\ n \in steady' => missed'[n] <= MissLimit - 1
      /\ n \in steady' => \/ missed'[n] = missed[n] + 1
                          \/ missed'[n] = missed[n] /\ n \in inFlight'
  <2>1. CASE n \in cut \/ Coordinator \notin live
    <3>1. Miss(n) /\ UNCHANGED inFlight
      BY <2>1
    <3> QED BY <3>1, Missed, MembershipAssumption DEF TypeOK, MissLimit
  <2>2. CASE ~(n \in cut \/ Coordinator \notin live)
    <3>1. inFlight' = inFlight \cup {n} /\ UNCHANGED <<missed, steady>>
      BY <2>2
    <3>2. n \in steady => missed[n] < MissLimit /\ missed[n] \in Nat /\ MissLimit \in Nat
      BY MembershipAssumption DEF Punctual, TypeOK, MissLimit
    <3> QED BY <3>1, <3>2 DEF TypeOK
  <2> QED BY <2>1, <2>2
<1>1. TypeOK'
  <2>1. inFlight' \subseteq Nodes \ {Coordinator}
    BY <1>0 DEF TypeOK
  <2> QED BY <1>0, <2>1 DEF TypeOK
<1>2. Unknown'
  <2>1. status[n] # "none"
    BY DEF TypeOK, Unknown
  <2> QED BY <1>0, <2>1 DEF Unknown
<1>3. ASSUME NEW k \in Nodes
      PROVE  Punctual(k)'
  <2>0. MissLimit \in Nat /\ missed[k] \in Nat /\ missed'[k] \in Nat
    BY <1>0, MembershipAssumption DEF TypeOK, MissLimit
  <2>1. CASE k = n
    <3>1. age'[n] = age[n] /\ age[n] \in Nat
      BY DEF TypeOK
    <3>2. Allowed(n) = missed[n] + 1
      BY DEF Allowed
    <3>3. n \in steady' => Allowed(n)' >= missed[n] + 1
      BY <1>0, <2>0, <2>1 DEF Allowed
    <3>4. Allowed(n)' \in Nat
      BY <2>0, <2>1 DEF Allowed
    <3>5. n \in steady' => missed'[n] < MissLimit
      BY <1>0, <2>0, <2>1
    <3> QED BY ONLY <1>0, <2>0, <2>1, <3>1, <3>2, <3>3, <3>4, <3>5, Punctual(n),
                    UNCHANGED <<status, snap>> DEF Punctual
  <2>2. CASE k # n
    BY <1>0, <2>2 DEF Punctual, Allowed
  <2> QED BY <2>1, <2>2
<1>4. CoordinatorFirst'
  BY DEF CoordinatorFirst, OwnRow
<1> QED BY <1>1, <1>2, <1>3, <1>4

LEMMA HeartbeatInd ==
  ASSUME MembershipInv, NEW n \in Nodes, Heartbeat(n)
  PROVE  MembershipInv'
<1> USE MembershipAssumption DEF MembershipInv, Heartbeat, coordVars, MissLimit
<1>0. /\ status' \in [Nodes -> {"none", "online", "offline", "removed"}]
      /\ age' \in [Nodes -> 0..MaxAge]
      /\ \A k \in Nodes : k # n \/ ~Known(n) => status'[k] = status[k] /\ age'[k] = age[k]
      /\ Known(n) => status'[n] = "online" /\ age'[n] = 0
  BY RowUpdated
<1>1. missed' \in [Nodes -> 0..MissLimit] /\ missed'[n] = 0
      /\ \A k \in Nodes \ {n} : missed'[k] = missed[k]
  BY DEF TypeOK
<1>2. TypeOK'
  BY <1>0, <1>1 DEF TypeOK
<1>3. Unknown'
  BY <1>0, <1>1 DEF Unknown, Known, TypeOK
<1>4. ASSUME NEW k \in Nodes
      PROVE  Punctual(k)'
  <2>1. CASE k = n
    BY <1>0, <1>1, <2>1 DEF Punctual, Allowed, Known
  <2>2. CASE k # n
    BY <1>0, <1>1, <2>2 DEF Punctual, Allowed
  <2> QED BY <2>1, <2>2
<1>5. CoordinatorFirst'
  <2>1. n # Coordinator
    BY DEF TypeOK
  <2> QED BY <1>0, <2>1 DEF CoordinatorFirst, OwnRow
<1> QED BY <1>2, <1>3, <1>4, <1>5

LEMMA LossInd ==
  ASSUME MembershipInv, NEW n \in Nodes, LoseHeartbeat(n) \/ HeartbeatError(n)
  PROVE  MembershipInv'
<1> USE DEF MembershipInv, LoseHeartbeat, HeartbeatError, coordVars
<1>0. /\ missed' \in [Nodes -> 0..MissLimit] /\ steady' \subseteq steady
      /\ \A k \in Nodes \ {n} : missed'[k] = missed[k]
      /\ n \in steady' => missed'[n] = missed[n] + 1 /\ missed'[n] < MissLimit
  BY Missed
<1>1. faults' \in 0..MaxFaults /\ (faults' = 0 => faults = 0)
  BY FaultType DEF TypeOK
<1>2. TypeOK'
  BY <1>0, <1>1 DEF TypeOK
<1>3. Unknown'
  <2>1. status[n] # "none"
    BY DEF Unknown
  <2> QED BY <1>0, <2>1 DEF Unknown
<1>4. ASSUME NEW k \in Nodes
      PROVE  Punctual(k)'
  <2>0. missed[k] \in Nat /\ missed'[k] \in Nat
    BY <1>0, MembershipAssumption DEF TypeOK, MissLimit
  <2>1. CASE k = n
    <3>1. age'[n] = age[n] /\ age[n] \in Nat
      BY DEF TypeOK
    <3>2. Allowed(n) = missed[n] + 1
      BY DEF Allowed
    <3>3. n \in steady' => Allowed(n)' >= missed[n] + 1
      BY <1>0, <2>0, <2>1 DEF Allowed
    <3>4. Allowed(n)' \in Nat
      BY <2>0, <2>1 DEF Allowed
    <3>5. n \in steady' => missed'[n] < MissLimit
      BY <1>0, <2>0, <2>1
    <3> QED BY ONLY <1>0, <2>0, <2>1, <3>1, <3>2, <3>3, <3>4, <3>5, Punctual(n),
                    UNCHANGED <<status, snap>> DEF Punctual
  <2>2. CASE k # n
    BY <1>0, <2>2 DEF Punctual, Allowed
  <2> QED BY <2>1, <2>2
<1>5. CoordinatorFirst'
  BY <1>1 DEF CoordinatorFirst, OwnRow
<1> QED BY <1>2, <1>3, <1>4, <1>5

LEMMA SelfHeartbeatInd ==
  ASSUME MembershipInv, SelfHeartbeat
  PROVE  MembershipInv'
<1> USE MembershipAssumption DEF MembershipInv, SelfHeartbeat, coordVars, MissLimit
<1>0. status[Coordinator] # "none"
  BY DEF Unknown, TypeOK
<1>1. CASE UpdateNodeStatus(Coordinator, "online", 0)
           /\ missed' = [missed EXCEPT ![Coordinator] = 0] /\ UNCHANGED <<steady, faults>>
  <2>1. /\ status' \in [Nodes -> {"none", "online", "offline", "removed"}]
        /\ age' \in [Nodes -> 0..MaxAge]
        /\ \A k \in Nodes : k # Coordinator \/ ~Known(Coordinator)
                              => status'[k] = status[k] /\ age'[k] = age[k]
        /\ Known(Coordinator) => status'[Coordinator] = "online" /\ age'[Coordinator] = 0
    BY <1>1, RowUpdated
  <2>2. missed' \in [Nodes -> 0..MissLimit] /\ missed'[Coordinator] = 0
        /\ \A k \in Nodes \ {Coordinator} : missed'[k] = missed[k]
    BY <1>1 DEF TypeOK
  <2>3. TypeOK'
    BY <1>1, <2>1, <2>2 DEF TypeOK
  <2>4. Unknown'
    <3>1. DOMAIN snap \subseteq Nodes
      BY DEF TypeOK
    <3>2. \A k \in Nodes : status'[k] = "none" => status[k] = "none" /\ k # Coordinator
      BY <1>0, <2>1 DEF Known
    <3> QED BY <1>1, <2>2, <3>1, <3>2 DEF Unknown
  <2>5. ASSUME NEW k \in Nodes
        PROVE  Punctual(k)'
    <3>1. CASE k = Coordinator
      BY <1>1, <2>1, <2>2, <3>1 DEF Punctual, Allowed, Known
    <3>2. CASE k # Coordinator
      BY <1>1, <2>1, <2>2, <3>2 DEF Punctual, Allowed
    <3> QED BY <3>1, <3>2
  <2>6. CoordinatorFirst'
    BY <1>0, <1>1, <2>1 DEF CoordinatorFirst, OwnRow, Known
  <2> QED BY <2>3, <2>4, <2>5, <2>6
<1>2. CASE Fault /\ Miss(Coordinator) /\ UNCHANGED <<status, age>>
  <2>1. /\ missed' \in [Nodes -> 0..MissLimit] /\ steady' \subseteq steady
        /\ \A k \in Nodes \ {Coordinator} : missed'[k] = missed[k]
        /\ Coordinator \in steady' =>
             missed'[Coordinator] = missed[Coordinator] + 1 /\ missed'[Coordinator] < MissLimit
    BY <1>2, Missed
  <2>2. faults' \in 0..MaxFaults /\ faults' # 0
    BY <1>2, FaultType
  <2>3. TypeOK'
    BY <1>2, <2>1, <2>2 DEF TypeOK
  <2>4. Unknown'
    BY <1>0, <1>2, <2>1 DEF Unknown
  <2>5. ASSUME NEW k \in Nodes
        PROVE  Punctual(k)'
    <3>1. CASE k = Coordinator
      <4>1. age[k] \in Nat /\ missed[k] \in Nat /\ missed'[k] \in Nat
        BY <2>1 DEF TypeOK
      <4>2. Allowed(k) = missed[k] + 1
        BY <3>1 DEF Allowed
      <4>3. k \in steady' => Allowed(k)' >= missed[k] + 1 /\ Allowed(k)' \in Nat
        BY <2>1, <3>1, <4>1 DEF Allowed
      <4> QED BY ONLY <1>2, <2>1, <3>1, <4>1, <4>2, <4>3, Punctual(k), snap' = snap DEF Punctual
    <3>2. CASE k # Coordinator
      BY <1>2, <2>1, <3>2 DEF Punctual, Allowed
    <3> QED BY <3>1, <3>2
  <2>6. CoordinatorFirst'
    BY <2>2 DEF CoordinatorFirst
  <2> QED BY <2>3, <2>4, <2>5, <2>6
<1> QED BY <1>1, <1>2
-----------------------------------------------------------------------------
(* The steps of the detector.                                              *)

(* Its SELECT finds every online row beyond the timeout, and no row that   *)
(* is not at least as old as that.                                         *)
LEMMA RowsRead ==
  ASSUME TypeOK, Detect
  PROVE  /\ DOMAIN snap' \subseteq {n \in Nodes : status[n] = "online" /\ age[n] >= Timeout}
         /\ {n \in Nodes : status[n] = "online" /\ age[n] > Timeout} \subseteq DOMAIN snap'
         /\ \A n \in DOMAIN snap' : snap'[n] = age[n]
<1> DEFINE old == {k \in Nodes : status[k] = "online" /\ age[k] > Timeout}
<1>1. PICK late \in SUBSET {n \in Nodes : status[n] = "online" /\ age[n] = Timeout} :
        snap' = [n \in late \cup old |-> age[n]]
  BY DEF Detect, ReadStale
<1>2. DOMAIN snap' = late \cup old /\ \A n \in DOMAIN snap' : snap'[n] = age[n]
  BY <1>1
<1>3. \A n \in Nodes : age[n] \in Nat /\ Timeout \in Nat
  BY MembershipAssumption DEF TypeOK
<1> QED BY <1>2, <1>3

LEMMA DetectInd ==
  ASSUME MembershipInv, Detect
  PROVE  MembershipInv'
<1> USE MembershipAssumption DEF MembershipInv, Detect
<1>0. /\ DOMAIN snap' \subseteq {n \in Nodes : status[n] = "online" /\ age[n] >= Timeout}
      /\ \A n \in DOMAIN snap' : snap'[n] = age[n]
  BY RowsRead
<1>1. TypeOK'
  <2>1. \A n \in DOMAIN snap' : snap'[n] \in Timeout..MaxAge
    BY <1>0 DEF TypeOK
  <2>2. Coordinator \in live
    BY DEF TypeOK
  <2>3. detDue' \in BOOLEAN
    OBVIOUS
  <2> QED BY <1>0, <2>1, <2>2, <2>3 DEF TypeOK
<1>2. Unknown'
  BY <1>0 DEF Unknown
<1>3. ASSUME NEW n \in Nodes
      PROVE  Punctual(n)'
  <2>1. age[n] \in 0..MaxAge /\ missed[n] \in 0..MissLimit
    BY DEF TypeOK
  <2>2. Punctual(n) /\ Allowed(n) \in {missed[n], missed[n] + 1} /\ Allowed(n)' = Allowed(n)
    BY DEF Allowed
  <2>3. n \in steady /\ status[n] = "online" => ~(age[n] >= Timeout)
    BY <2>1, <2>2 DEF Punctual, MissLimit
  <2> QED BY <1>0, <2>2, <2>3 DEF Punctual
<1>4. CoordinatorFirst'
  <2> SUFFICES ASSUME faults = 0, status[Coordinator] # "removed"
               PROVE  OwnRow'
    BY DEF CoordinatorFirst
  <2>1. OwnRow /\ age[Coordinator] \in 0..MaxAge
    BY DEF CoordinatorFirst, TypeOK
  <2>2. age[Coordinator] <= 1
    BY <2>1 DEF OwnRow
  <2>3. ~(age[Coordinator] >= Timeout)
    BY <2>1, <2>2
  <2> QED BY <1>0, <2>1, <2>3 DEF OwnRow
<1> QED BY <1>1, <1>2, <1>3, <1>4

LEMMA DetectErrorInd ==
  ASSUME MembershipInv, DetectError
  PROVE  MembershipInv'
<1> USE DEF MembershipInv, DetectError
<1>1. faults' \in 0..MaxFaults /\ faults' # 0
  BY FaultType
<1>2. TypeOK'
  <2>1. detDue' \in BOOLEAN /\ (detDue' => detDue)
    OBVIOUS
  <2> QED BY <1>1, <2>1 DEF TypeOK
<1>3. Unknown'
  BY DEF Unknown
<1>4. \A n \in Nodes : Punctual(n)'
  BY DEF Punctual, Allowed
<1>5. CoordinatorFirst'
  BY <1>1 DEF CoordinatorFirst
<1> QED BY <1>2, <1>3, <1>4, <1>5

LEMMA MarkOfflineInd ==
  ASSUME MembershipInv, NEW n \in Nodes, MarkOffline(n)
  PROVE  MembershipInv'
<1> USE MembershipAssumption DEF MembershipInv, MarkOffline
<1>0. /\ DOMAIN snap' = DOMAIN snap \ {n} /\ \A k \in DOMAIN snap' : snap'[k] = snap[k]
      /\ n \in DOMAIN snap /\ snap[n] \in 0..MaxAge
  BY DEF TypeOK
<1>1. /\ status' \in [Nodes -> {"none", "online", "offline", "removed"}]
      /\ age' \in [Nodes -> 0..MaxAge]
      /\ \A k \in Nodes : k # n => status'[k] = status[k] /\ age'[k] = age[k]
      /\ status'[n] = status[n] \/ (status'[n] = "offline" /\ Known(n))
  <2>1. CASE UpdateNodeStatus(n, "offline", snap[n])
    BY <1>0, <2>1, RowUpdated
  <2>2. CASE UNCHANGED <<status, age>>
    BY <2>2 DEF TypeOK
  <2> QED BY <2>1, <2>2
<1>2. faults' \in 0..MaxFaults /\ (faults' = 0 => faults = 0)
  BY FaultType DEF TypeOK
<1>3. TypeOK'
  BY <1>0, <1>1, <1>2 DEF TypeOK
<1>4. Unknown'
  <2>1. DOMAIN snap \subseteq Nodes
    BY DEF TypeOK
  <2>2. \A k \in Nodes : status'[k] = "none" => status[k] = "none"
    BY <1>1
  <2>3. \A k \in Nodes : status'[k] = "none" => k \notin live' /\ missed'[k] = 0
    BY <2>2 DEF Unknown
  <2> QED BY <1>0, <2>1, <2>2, <2>3 DEF Unknown
<1>5. ASSUME NEW k \in Nodes
      PROVE  Punctual(k)'
  <2> SUFFICES ASSUME k \in steady
               PROVE  /\ status'[k] \in {"online", "removed"} /\ missed[k] < MissLimit
                      /\ status'[k] = "online" =>
                           k \notin DOMAIN snap' /\ age'[k] <= Allowed(k)
    BY DEF Punctual, Allowed
  <2>1. /\ status[k] \in {"online", "removed"} /\ missed[k] < MissLimit
        /\ status[k] = "online" => k \notin DOMAIN snap /\ age[k] <= Allowed(k)
    BY DEF Punctual
  <2>2. CASE k = n
    BY <1>0, <1>1, <2>1, <2>2 DEF Known
  <2>3. CASE k # n
    BY <1>0, <1>1, <2>1, <2>3
  <2> QED BY <2>2, <2>3
<1>6. CoordinatorFirst'
  <2> SUFFICES ASSUME faults = 0, status'[Coordinator] # "removed"
               PROVE  OwnRow'
    BY <1>2 DEF CoordinatorFirst
  <2>1. CASE n = Coordinator
    <3>1. status[Coordinator] = "removed"
      BY <1>0, <2>1 DEF CoordinatorFirst, OwnRow
    <3> QED BY <1>1, <2>1, <3>1 DEF Known
  <2>2. CASE n # Coordinator
    BY <1>0, <1>1, <2>2 DEF CoordinatorFirst, OwnRow
  <2> QED BY <2>1, <2>2
<1> QED BY <1>3, <1>4, <1>5, <1>6
-----------------------------------------------------------------------------
(* Nodes that come and go.                                                 *)
LEMMA JoinInd ==
  ASSUME MembershipInv, NEW n \in Nodes, Join(n)
  PROVE  MembershipInv'
<1> USE MembershipAssumption DEF MembershipInv, Join, coordVars, MissLimit
<1>0. /\ n \notin live /\ n \notin due /\ missed[n] = 0 /\ n \notin DOMAIN snap
      /\ status'[n] = "online" /\ age'[n] = 0
      /\ \A k \in Nodes \ {n} : status'[k] = status[k] /\ age'[k] = age[k]
  BY DEF TypeOK, Unknown
<1>1. TypeOK'
  BY DEF TypeOK
<1>2. Unknown'
  <2>1. DOMAIN snap \subseteq Nodes
    BY DEF TypeOK
  <2> QED BY <1>0, <2>1 DEF Unknown
<1>3. ASSUME NEW k \in Nodes
      PROVE  Punctual(k)'
  <2>1. CASE k = n
    BY <1>0, <2>1 DEF Punctual, Allowed
  <2>2. CASE k # n
    BY <1>0, <2>2 DEF Punctual, Allowed
  <2> QED BY <2>1, <2>2
<1>4. CoordinatorFirst'
  <2>1. faults = 0 => n # Coordinator
    BY DEF CoordinatorFirst, OwnRow
  <2> QED BY <1>0, <2>1 DEF CoordinatorFirst, OwnRow
<1> QED BY <1>1, <1>2, <1>3, <1>4

LEMMA RemoveInd ==
  ASSUME MembershipInv, NEW n \in Nodes, Remove(n)
  PROVE  MembershipInv'
<1> USE MembershipAssumption DEF MembershipInv, Remove, coordVars
<1>0. status'[n] = "removed" /\ \A k \in Nodes \ {n} : status'[k] = status[k]
  BY DEF TypeOK
<1>1. TypeOK'
  BY DEF TypeOK
<1>2. Unknown'
  <2>1. DOMAIN snap \subseteq Nodes
    BY DEF TypeOK
  <2> QED BY <1>0, <2>1 DEF Unknown
<1>3. ASSUME NEW k \in Nodes
      PROVE  Punctual(k)'
  <2>1. CASE k = n
    BY <1>0, <2>1 DEF Punctual, Allowed
  <2>2. CASE k # n
    BY <1>0, <2>2 DEF Punctual, Allowed
  <2> QED BY <2>1, <2>2
<1>4. CoordinatorFirst'
  BY <1>0 DEF CoordinatorFirst, OwnRow
<1> QED BY <1>1, <1>2, <1>3, <1>4

LEMMA AgentInd ==
  ASSUME MembershipInv, NEW n \in Nodes, StartAgent(n) \/ CutLink(n)
  PROVE  MembershipInv'
<1> USE DEF MembershipInv, StartAgent, CutLink, coordVars
<1>1. TypeOK'
  BY DEF TypeOK
<1>2. Unknown'
  BY DEF Unknown
<1>3. ASSUME NEW k \in Nodes
      PROVE  Punctual(k)'
  <2>1. missed[k] \in 0..MissLimit /\ due \subseteq due' /\ UNCHANGED inFlight
    BY DEF TypeOK
  <2>2. age[k] <= Allowed(k) => age[k] <= Allowed(k)'
    BY <2>1 DEF Allowed, TypeOK
  <2> QED BY <2>2 DEF Punctual
<1>4. CoordinatorFirst'
  <2>1. Coordinator \in live' \ due' => Coordinator \in live \ due
    OBVIOUS
  <2> QED BY <2>1 DEF CoordinatorFirst, OwnRow
<1> QED BY <1>1, <1>2, <1>3, <1>4

LEMMA StopInd ==
  ASSUME MembershipInv, NEW n \in Nodes, StopAgent(n)
  PROVE  MembershipInv'
<1> USE MembershipAssumption DEF MembershipInv, StopAgent, coordVars, NoRows
<1>0. /\ detDue' \in BOOLEAN /\ (detDue' => detDue /\ n # Coordinator)
      /\ DOMAIN snap' \subseteq DOMAIN snap /\ \A k \in DOMAIN snap' : snap'[k] = snap[k]
      /\ DOMAIN snap' # {} => DOMAIN snap # {} /\ n # Coordinator
  BY DEF TypeOK
<1>1. TypeOK'
  BY <1>0 DEF TypeOK
<1>2. Unknown'
  BY <1>0 DEF Unknown
<1>3. ASSUME NEW k \in Nodes
      PROVE  Punctual(k)'
  BY <1>0 DEF Punctual, Allowed
<1>4. CoordinatorFirst'
  <2>1. Coordinator \in live' \ due' => Coordinator \in live \ due
    OBVIOUS
  <2> QED BY <1>0, <2>1 DEF CoordinatorFirst, OwnRow
<1> QED BY <1>1, <1>2, <1>3, <1>4
-----------------------------------------------------------------------------
(* Every step keeps the invariant.                                         *)
LEMMA StepInd ==
  ASSUME MembershipInv, [Next]_vars
  PROVE  MembershipInv'
<1>1. CASE UNCHANGED vars
  <2> USE <1>1 DEF MembershipInv, vars, coordVars
  <2>1. TypeOK' /\ Unknown'
    BY DEF TypeOK, Unknown
  <2>2. \A n \in Nodes : Punctual(n)'
    BY DEF Punctual, Allowed
  <2>3. CoordinatorFirst'
    BY DEF CoordinatorFirst, OwnRow
  <2> QED BY <2>1, <2>2, <2>3
<1>2. CASE Next
  BY <1>2, TickInd, SelfHeartbeatInd, DetectInd, DetectErrorInd, SendInd, HeartbeatInd,
     LossInd, MarkOfflineInd, JoinInd, RemoveInd, AgentInd, StopInd DEF Next
<1> QED BY <1>1, <1>2

LEMMA Invariance == Spec => []MembershipInv
<1>1. MembershipInv /\ [Next]_vars => MembershipInv'
  BY StepInd
<1> QED BY InitInd, <1>1, PTL DEF Spec

(* The variables of the module keep their types, for any nodes, timeout    *)
(* and failed queries.                                                     *)
THEOREM TypeCorrect == Spec => []TypeOK
<1>1. MembershipInv => TypeOK
  BY DEF MembershipInv
<1> QED BY <1>1, Invariance, PTL

(* cluster.go, DetectOfflineNodes and sendHeartbeat: a node that never     *)
(* misses two heartbeats in a row (one fewer than the timeout takes, as    *)
(* the next one may come after the detector) is not marked offline.        *)
THEOREM SteadyStaysOnline == Spec => []SteadyIsOnline
<1>1. MembershipInv => SteadyIsOnline
  BY DEF MembershipInv, SteadyIsOnline, Punctual, TypeOK
<1> QED BY <1>1, Invariance, PTL

(* The coordinator, which both sends itself heartbeats and detects, never  *)
(* marks itself offline while its queries succeed.                         *)
THEOREM CoordinatorStaysOnline == Spec => []CoordinatorIsOnline
<1>1. MembershipInv => CoordinatorIsOnline
  BY DEF MembershipInv, CoordinatorIsOnline, CoordinatorFirst, OwnRow
<1> QED BY <1>1, Invariance, PTL

(* No step gives a removed node its row back: every UPDATE leaves it out,  *)
(* and only a node without a row joins.                                    *)
THEOREM RemovalIsFinal == Spec => RemovedForGood
<1>1. ASSUME MembershipInv, [Next]_vars
      PROVE  \A n \in Nodes : status[n] = "removed" => status'[n] = "removed"
  <2> SUFFICES ASSUME NEW n \in Nodes, status[n] = "removed"
               PROVE  status'[n] = "removed"
    OBVIOUS
  <2>1. \A k \in Nodes, s \in {"online", "offline"}, a \in 0..MaxAge :
          UpdateNodeStatus(k, s, a) => status'[n] = status[n]
    BY <1>1 DEF UpdateNodeStatus, Known, MembershipInv, TypeOK
  <2>2. 0 \in 0..MaxAge /\ Coordinator \in Nodes
    BY MembershipAssumption
  <2>3. CASE SelfHeartbeat
    BY <2>1, <2>2, <2>3 DEF SelfHeartbeat
  <2>4. ASSUME NEW k \in Nodes, Heartbeat(k)
        PROVE  status'[n] = status[n]
    BY <2>1, <2>2, <2>4 DEF Heartbeat
  <2>5. ASSUME NEW k \in Nodes, MarkOffline(k)
        PROVE  status'[n] = status[n]
    <3>1. snap[k] \in 0..MaxAge
      BY <1>1, <2>5, MembershipAssumption DEF MarkOffline, MembershipInv, TypeOK
    <3> QED BY <2>1, <2>5, <3>1 DEF MarkOffline
  <2>6. ASSUME NEW k \in Nodes, Join(k) \/ Remove(k)
        PROVE  status'[n] = "removed"
    BY <1>1, <2>6 DEF Join, Remove, MembershipInv, TypeOK
  <2>7. CASE \/ Tick \/ Detect \/ DetectError \/ UNCHANGED vars
             \/ \E k \in Nodes : \/ SendHeartbeat(k) \/ LoseHeartbeat(k) \/ HeartbeatError(k)
                                 \/ StartAgent(k) \/ StopAgent(k) \/ CutLink(k)
    BY <2>7 DEF Tick, Detect, DetectError, SendHeartbeat, LoseHeartbeat, HeartbeatError,
                StartAgent, StopAgent, CutLink, vars
  <2> QED BY <1>1, <2>3, <2>4, <2>5, <2>6, <2>7 DEF Next
<1>2. MembershipInv /\ [Next]_vars =>
        [\A n \in Nodes : status[n] = "removed" => status'[n] = "removed"]_vars
  BY <1>1
<1> QED BY <1>2, Invariance, PTL DEF Spec, RemovedForGood
-----------------------------------------------------------------------------
(* A silent node is found out in time.                                     *)

(* The coordinator ran all the time, and every query of its succeeded.     *)
Vigilant == Coordinator \in steady /\ faults = 0

(* A row that is too old and still online is about to be found: the        *)
(* detector has this unit's run before it, or has read the row and will    *)
(* mark it.                                                                *)
NextInLine(n) == age[n] = Timeout + 1 /\ (detDue \/ n \in DOMAIN snap)

FoundOut ==
  Vigilant =>
    /\ Coordinator \in live
    /\ \A n \in Nodes : status[n] = "online" => age[n] <= Timeout \/ NextInLine(n)

(* Nothing that happens makes a coordinator vigilant again.                *)
LEMMA VigilanceEnds ==
  ASSUME MembershipInv, [Next]_vars, Vigilant'
  PROVE  Vigilant
<1> USE MembershipAssumption DEF MembershipInv, Vigilant
<1>1. faults \in Nat
  BY DEF TypeOK
<1>2. CASE \/ Tick \/ Detect \/ DetectError \/ UNCHANGED vars
           \/ \E n \in Nodes : \/ Heartbeat(n) \/ MarkOffline(n) \/ Remove(n)
                               \/ StartAgent(n) \/ StopAgent(n) \/ CutLink(n)
  <2>1. steady' \subseteq steady
    BY <1>2 DEF Tick, Detect, DetectError, Heartbeat, MarkOffline, Remove, StartAgent, StopAgent,
                CutLink, vars
  <2>2. faults' = faults \/ faults' = faults + 1
    BY <1>2 DEF Tick, Detect, DetectError, Heartbeat, MarkOffline, Remove, StartAgent, StopAgent,
                CutLink, vars, Fault
  <2> QED BY <1>1, <2>1, <2>2
<1>3. CASE SelfHeartbeat
  <2>1. steady' \subseteq steady
    BY <1>3, Missed DEF SelfHeartbeat
  <2> QED BY <1>1, <1>3, <2>1 DEF SelfHeartbeat, Fault
<1>4. ASSUME NEW n \in Nodes, SendHeartbeat(n) \/ LoseHeartbeat(n) \/ HeartbeatError(n)
      PROVE  Vigilant
  <2>1. steady' \subseteq steady
    BY <1>4, Missed DEF SendHeartbeat, LoseHeartbeat, HeartbeatError
  <2> QED BY <1>1, <1>4, <2>1 DEF SendHeartbeat, LoseHeartbeat, HeartbeatError, Fault
<1>5. ASSUME NEW n \in Nodes, Join(n)
      PROVE  Vigilant
  <2>1. faults = 0 => n # Coordinator
    BY <1>5 DEF Join, CoordinatorFirst, OwnRow
  <2> QED BY <1>5, <2>1 DEF Join
<1> QED BY <1>2, <1>3, <1>4, <1>5 DEF Next

(* The clock moves on when the detector has done its work: until then no   *)
(* online row is beyond the timeout, and afterwards by one unit at most.   *)
LEMMA TickFinds ==
  ASSUME MembershipInv, FoundOut, Vigilant, Tick
  PROVE  FoundOut'
<1> USE MembershipAssumption DEF MembershipInv, FoundOut, Tick
<1>1. Coordinator \in live /\ detDue' = TRUE
  OBVIOUS
<1>2. ASSUME NEW n \in Nodes, status[n] = "online"
      PROVE  age'[n] \in Nat /\ age'[n] <= Timeout + 1
  <2>1. age[n] \in 0..MaxAge /\ age[n] <= Timeout
    BY <1>2 DEF TypeOK, NextInLine
  <2>2. age'[n] = age[n] + 1
    BY <2>1
  <2> QED BY <2>1, <2>2
<1>3. \A n \in Nodes : status'[n] = "online" => age'[n] <= Timeout \/ NextInLine(n)'
  BY <1>1, <1>2 DEF NextInLine
<1> QED BY <1>1, <1>3

LEMMA DetectFinds ==
  ASSUME MembershipInv, FoundOut, Vigilant, Detect
  PROVE  FoundOut'
<1> USE MembershipAssumption DEF MembershipInv, FoundOut, Detect
<1>1. {n \in Nodes : status[n] = "online" /\ age[n] > Timeout} \subseteq DOMAIN snap'
  BY RowsRead
<1>2. ASSUME NEW n \in Nodes, status[n] = "online"
      PROVE  age[n] <= Timeout \/ NextInLine(n)'
  <2>1. age[n] \in 0..MaxAge
    BY DEF TypeOK
  <2> QED BY <1>1, <1>2, <2>1 DEF NextInLine
<1> QED BY <1>2

(* A row the detector marks was online no longer, or is online no longer.  *)
LEMMA MarkFinds ==
  ASSUME MembershipInv, FoundOut, Vigilant, Vigilant', NEW n \in Nodes, MarkOffline(n)
  PROVE  FoundOut'
<1> USE MembershipAssumption DEF MembershipInv, FoundOut, MarkOffline, Vigilant
<1>1. DOMAIN snap' = DOMAIN snap \ {n} /\ snap[n] \in 0..MaxAge
  BY DEF TypeOK
<1>2. UpdateNodeStatus(n, "offline", snap[n])
  BY DEF Fault
<1>3. /\ \A k \in Nodes : k # n \/ ~Known(n) => status'[k] = status[k] /\ age'[k] = age[k]
      /\ Known(n) => status'[n] = "offline"
  BY <1>1, <1>2, RowUpdated
<1>4. ASSUME NEW k \in Nodes, status'[k] = "online"
      PROVE  age'[k] <= Timeout \/ NextInLine(k)'
  <2>1. k # n /\ status[k] = "online" /\ age'[k] = age[k]
    BY <1>3, <1>4 DEF Known
  <2> QED BY <1>1, <2>1 DEF NextInLine
<1> QED BY <1>4

(* A heartbeat that is stored makes the row new, and so does joining.      *)
LEMMA SeenFinds ==
  ASSUME MembershipInv, FoundOut, Vigilant, NEW n \in Nodes,
         \/ UpdateNodeStatus(n, "online", 0)
         \/ status' = [status EXCEPT ![n] = "online"] /\ age' = [age EXCEPT ![n] = 0],
         UNCHANGED <<live, detDue, snap>>
  PROVE  FoundOut'
<1> USE MembershipAssumption DEF MembershipInv, FoundOut
<1>1. 0 \in 0..MaxAge /\ 0 <= Timeout
  OBVIOUS
<1>2. /\ \A k \in Nodes : k # n => status'[k] = status[k] /\ age'[k] = age[k]
      /\ (status'[n] = status[n] /\ age'[n] = age[n]) \/ age'[n] = 0
  <2>1. CASE UpdateNodeStatus(n, "online", 0)
    BY <1>1, <2>1, RowUpdated
  <2>2. CASE status' = [status EXCEPT ![n] = "online"] /\ age' = [age EXCEPT ![n] = 0]
    BY <2>2 DEF TypeOK
  <2> QED BY <2>1, <2>2
<1> QED BY <1>1, <1>2 DEF NextInLine

LEMMA FindsInTime == Spec => []FoundOut
<1>1. Init => FoundOut
  BY MembershipAssumption DEF Init, FoundOut
<1>2. ASSUME MembershipInv, FoundOut, [Next]_vars
      PROVE  FoundOut'
  <2> SUFFICES ASSUME Vigilant'
               PROVE  FoundOut'
    BY DEF FoundOut
  <2> USE <1>2
  <2>1. Vigilant
    BY VigilanceEnds
  <2>2. CASE Tick \/ Detect
    BY <2>1, <2>2, TickFinds, DetectFinds
  <2>3. ASSUME NEW n \in Nodes, MarkOffline(n)
        PROVE  FoundOut'
    BY <2>1, <2>3, MarkFinds
  <2>4. ASSUME NEW n \in Nodes, Heartbeat(n) \/ Join(n)
        PROVE  FoundOut'
    BY <2>1, <2>4, SeenFinds DEF Heartbeat, Join, coordVars
  <2>5. CASE SelfHeartbeat
    <3>1. UpdateNodeStatus(Coordinator, "online", 0) /\ UNCHANGED <<live, detDue, snap>>
      BY <2>1, <2>5 DEF SelfHeartbeat, Fault, Vigilant, coordVars
    <3> QED BY <2>1, <3>1, SeenFinds, MembershipAssumption
  <2>6. CASE DetectError
    BY <2>1, <2>6 DEF DetectError, Fault, Vigilant
  <2>7. ASSUME NEW n \in Nodes, \/ SendHeartbeat(n) \/ LoseHeartbeat(n) \/ HeartbeatError(n)
                                \/ Remove(n) \/ StartAgent(n) \/ CutLink(n)
        PROVE  FoundOut'
    <3>1. /\ UNCHANGED <<age, detDue, snap>> /\ live \subseteq live'
          /\ \A k \in Nodes : status'[k] = "online" => status[k] = "online"
      BY <2>7 DEF SendHeartbeat, LoseHeartbeat, HeartbeatError, Remove, StartAgent, CutLink,
                  coordVars, MembershipInv, TypeOK
    <3> QED BY <2>1, <3>1 DEF FoundOut, NextInLine
  <2>8. ASSUME NEW n \in Nodes, StopAgent(n)
        PROVE  FoundOut'
    <3>1. n # Coordinator
      BY <2>8 DEF StopAgent, Vigilant
    <3> QED BY <2>1, <2>8, <3>1 DEF StopAgent, FoundOut, NextInLine, coordVars
  <2>9. CASE UNCHANGED vars
    BY <2>1, <2>9 DEF vars, FoundOut, NextInLine, coordVars
  <2> QED BY <2>2, <2>3, <2>4, <2>5, <2>6, <2>7, <2>8, <2>9 DEF Next
<1> QED BY <1>1, <1>2, Invariance, PTL DEF Spec

(* DetectOfflineNodes and detectOfflineLoop: while the coordinator runs    *)
(* and its queries succeed, a node that is silent for longer than the      *)
(* timeout is online for no more than one unit of the detector, and when   *)
(* the detector has done a unit's work no row beyond the timeout is online.*)
(* (That such a unit comes is SilentIsOffline.)                            *)
FoundOutInTime ==
  Vigilant =>
    \A n \in Nodes : status[n] = "online" =>
      /\ age[n] <= Timeout + 1
      /\ ~detDue /\ DOMAIN snap = {} => age[n] <= Timeout

THEOREM SilentNodesAreFoundOut == Spec => []FoundOutInTime
<1>1. TypeOK /\ FoundOut => FoundOutInTime
  BY MembershipAssumption DEF TypeOK, FoundOut, FoundOutInTime, NextInLine
<1>2. Spec => []TypeOK
  BY TypeCorrect
<1> QED BY <1>1, <1>2, FindsInTime, PTL
-----------------------------------------------------------------------------
(* What the two columns of a row say together.                             *)

(* DetectOfflineNodes: a node that is marked offline has a last_seen from  *)
(* before the cutoff, and keeps it until its next heartbeat: the detector  *)
(* writes back the last_seen it read, so a heartbeat stored in between is  *)
(* lost whole, and never leaves an offline row that was just seen.         *)
OfflineRowsAreOld == \A n \in Nodes : status[n] = "offline" => age[n] >= Timeout

LEMMA OldRowsInd ==
  ASSUME MembershipInv, OfflineRowsAreOld, [Next]_vars
  PROVE  OfflineRowsAreOld'
<1> USE MembershipAssumption DEF MembershipInv, OfflineRowsAreOld
<1>1. CASE Tick
  <2> SUFFICES ASSUME NEW n \in Nodes, status[n] = "offline" PROVE age'[n] >= Timeout
    BY <1>1 DEF Tick
  <2>1. age[n] \in 0..MaxAge /\ age[n] >= Timeout
    BY DEF TypeOK
  <2> QED BY <1>1, <2>1 DEF Tick
<1>2. ASSUME NEW n \in Nodes, MarkOffline(n)
      PROVE  OfflineRowsAreOld'
  <2>1. snap[n] \in Timeout..MaxAge /\ snap[n] \in 0..MaxAge /\ snap[n] >= Timeout
    BY <1>2 DEF MarkOffline, TypeOK
  <2>2. CASE UpdateNodeStatus(n, "offline", snap[n])
    <3>1. /\ \A k \in Nodes : k # n \/ ~Known(n) => status'[k] = status[k] /\ age'[k] = age[k]
          /\ Known(n) => status'[n] = "offline" /\ age'[n] = snap[n]
      BY <2>1, <2>2, RowUpdated
    <3> QED BY <2>1, <3>1
  <2>3. CASE UNCHANGED <<status, age>>
    BY <2>3
  <2> QED BY <1>2, <2>2, <2>3 DEF MarkOffline
<1>3. ASSUME NEW n \in Nodes, UpdateNodeStatus(n, "online", 0)
      PROVE  OfflineRowsAreOld'
  <2>1. /\ \A k \in Nodes : k # n \/ ~Known(n) => status'[k] = status[k] /\ age'[k] = age[k]
        /\ Known(n) => status'[n] = "online"
    BY <1>3, RowUpdated
  <2> QED BY <2>1
<1>4. ASSUME NEW n \in Nodes, Join(n)
      PROVE  OfflineRowsAreOld'
  BY <1>4 DEF Join, TypeOK
<1>5. CASE \/ SelfHeartbeat
           \/ \E n \in Nodes : Heartbeat(n)
  BY <1>3, <1>5 DEF SelfHeartbeat, Heartbeat
<1>6. CASE \/ Detect \/ DetectError \/ UNCHANGED vars
           \/ \E n \in Nodes : \/ SendHeartbeat(n) \/ LoseHeartbeat(n) \/ HeartbeatError(n)
                               \/ Remove(n) \/ StartAgent(n) \/ StopAgent(n) \/ CutLink(n)
  <2>1. UNCHANGED age /\ \A n \in Nodes : status'[n] = "offline" => status[n] = "offline"
    BY <1>6 DEF Detect, DetectError, SendHeartbeat, LoseHeartbeat, HeartbeatError, Remove,
                StartAgent, StopAgent, CutLink, vars, TypeOK
  <2> QED BY <2>1
<1> QED BY <1>1, <1>2, <1>4, <1>5, <1>6 DEF Next

THEOREM MarkedRowsAreOld == Spec => []OfflineRowsAreOld
<1>1. Init => OfflineRowsAreOld
  BY DEF Init, OfflineRowsAreOld
<1> QED BY <1>1, OldRowsInd, Invariance, PTL DEF Spec
=============================================================================
