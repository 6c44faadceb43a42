--------------------------- MODULE ConfigSyncProofs ---------------------------
(***************************************************************************)
(* Proofs about ConfigSync for any nodes, monitors, edits, pushes and      *)
(* faults.  Two facts carry them: whatever is on its way to a node is      *)
(* something its row has been, to which the node adds its own PUTs only;   *)
(* and an edit that its row does not have was overlapped by a PUT that has *)
(* since written the row.                                                  *)
(***************************************************************************)
EXTENDS ConfigSync, TLAPS

(* Every copy of a row, in a snapshot, on its way or on a node, is one the *)
(* row has been.                                                           *)
RowIsGenuine == \A m \in Monitors : There(m) => row[m].has \in had[m]
SnapIsGenuine == \A m \in DOMAIN snap : snap[m] \in had[m]
TodoIsGenuine ==
  \A a \in Appliers : \A m \in DOMAIN applier[a].todo : applier[a].todo[m] \in had[m]

(* What RowsAreGenuine says of a row, of any copy of it that node n keeps. *)
Copy(H, P, n, m, h) ==
  /\ h \cap Nodes \subseteq {n}
  /\ h \ Nodes \in H[m] \/ (<<n, m>> \in P /\ h \ Nodes = {})

NodePutsAreGenuine ==
  \A n \in Nodes, m \in Monitors :
    nodePut[<<n, m>>].open => Copy(had, posted, n, m, nodePut[<<n, m>>].has)

(* A PUT that has read its row had one to read.                            *)
PutsHaveRows ==
  \A e \in Edits : puts[e].pc # "idle" =>
    puts[e].monitor \in Monitors /\ row[puts[e].monitor].there # "no"

Concurrent == \A e, f \in Open : e # f => <<e, f>> \in overlaps

Overlapped(e, f) == <<e, f>> \in overlaps /\ puts[f].monitor = puts[e].monitor
Excused(e) == \E f \in Edits : puts[f].pc = "done" /\ Overlapped(e, f)

(* An edit that was written is in the row, or was overwritten by a PUT that*)
(* overlapped it; and a PUT that will write the row has read it, overlaps  *)
(* it, or comes too late to make a difference.                             *)
Kept ==
  \A e \in Edits : puts[e].pc = "done" /\ There(puts[e].monitor) =>
    /\ e \in row[puts[e].monitor].has \/ Excused(e)
    /\ \A f \in Open : puts[f].monitor = puts[e].monitor
                         => e \in puts[f].has \/ Overlapped(e, f) \/ Excused(e)

ConfigInv ==
  /\ TypeOK
  /\ RowIsGenuine /\ SnapIsGenuine /\ TodoIsGenuine
  /\ RowsAreGenuine /\ NodePutsAreGenuine
  /\ PutsHaveRows /\ Concurrent /\ Kept
-----------------------------------------------------------------------------
(* Snapshots, and the records the other variables hold.                    *)
PutRecords == [pc : {"idle", "write", "done"}, has : SUBSET Edits,
               monitor : Monitors \cup {NoMonitor}]
ApplierRecords == [todo : Snapshots, found : BOOLEAN, cur : Monitors \cup {NoMonitor}]
NodePutRecords == [open : BOOLEAN, has : SUBSET (Edits \cup Nodes)]

LEMMA SnapshotParts ==
  ASSUME NEW s \in Snapshots
  PROVE  /\ DOMAIN s \in SUBSET Monitors
         /\ \A m \in DOMAIN s : s[m] \in SUBSET Edits
BY DEF Snapshots

LEMMA SnapshotType ==
  ASSUME NEW S \in SUBSET Monitors, NEW s \in [S -> SUBSET Edits]
  PROVE  s \in Snapshots
BY DEF Snapshots

LEMMA NoRowsType == NoRows \in Snapshots /\ DOMAIN NoRows = {}
<1>1. NoRows \in [{} -> SUBSET Edits]
  BY DEF NoRows
<1> QED BY <1>1, SnapshotType DEF NoRows

LEMMA IdleType == Idle \in ApplierRecords /\ Idle.todo = NoRows /\ Idle.cur = NoMonitor
<1>1. FALSE \in BOOLEAN
  OBVIOUS
<1> QED BY <1>1, NoRowsType DEF Idle, ApplierRecords

LEMMA NoPutType ==
  NoPut \in PutRecords /\ NoPut.pc = "idle" /\ NoPut.monitor = NoMonitor
BY DEF NoPut, PutRecords

LEMMA NoNodePutType == NoNodePut \in NodePutRecords /\ NoNodePut.open = FALSE
<1>1. FALSE \in BOOLEAN
  OBVIOUS
<1> QED BY <1>1 DEF NoNodePut, NodePutRecords

(* What the handlers and the pushes read is a snapshot of the table.       *)
LEMMA ListType ==
  ASSUME TypeOK, RowIsGenuine
  PROVE  /\ ListMonitors \in Snapshots
         /\ \A m \in DOMAIN ListMonitors : ListMonitors[m] \in had[m]
<1> DEFINE S == {m \in Monitors : There(m)}
<1>1. S \in SUBSET Monitors
  OBVIOUS
<1>2. \A m \in S : row[m].has \in SUBSET Edits /\ row[m].has \in had[m]
  BY DEF TypeOK, Rows, RowIsGenuine
<1>3. ListMonitors \in [S -> SUBSET Edits]
  BY <1>2 DEF ListMonitors
<1>4. \A m \in S : ListMonitors[m] = row[m].has
  BY DEF ListMonitors
<1> HIDE DEF S
<1> QED BY <1>1, <1>2, <1>3, <1>4, SnapshotType

(* The invariant holds of empty tables.                                    *)
LEMMA InitInd == Init => ConfigInv
<1> SUFFICES ASSUME Init PROVE ConfigInv
  OBVIOUS
<1>1. \A a \in Appliers : applier[a] = Idle
  BY DEF Init
<1>2. \A e \in Edits : puts[e] = NoPut
  BY DEF Init
<1>3. \A m \in Monitors : row[m] = Absent /\ \A n \in Nodes : local[n][m] = Absent
  BY DEF Init
<1>4. Absent \in Rows /\ Absent \in NodeRows /\ Absent.there = "no"
  BY DEF Absent, Rows, NodeRows
<1>a. \A q \in Nodes \X Monitors : nodePut[q] = NoNodePut
  BY DEF Init
<1>5. TypeOK
  <2>1. puts \in [Edits -> PutRecords]
    BY NoPutType DEF Init
  <2>2. applier \in [Appliers -> ApplierRecords]
    BY IdleType DEF Init
  <2>3. row \in [Monitors -> Rows] /\ local \in [Nodes -> [Monitors -> NodeRows]]
    BY <1>4 DEF Init
  <2>4. nodePut \in [Nodes \X Monitors -> NodePutRecords] /\ posted \subseteq Nodes \X Monitors
    BY NoNodePutType DEF Init
  <2>5. snap \in Snapshots /\ pushTo \subseteq Nodes
    BY NoRowsType DEF Init
  <2>6. \A a \in Appliers : applier[a].cur \in DOMAIN applier[a].todo \cup {NoMonitor}
    BY <1>1, IdleType
  <2>7. faults \in 0..MaxFaults /\ had \in [Monitors -> SUBSET SUBSET Edits]
        /\ overlaps \subseteq Edits \X Edits
    BY ConfigAssumption DEF Init
  <2> QED BY <2>1, <2>2, <2>3, <2>4, <2>5, <2>6, <2>7 DEF TypeOK, PutRecords, ApplierRecords, NodePutRecords
<1>6. RowIsGenuine /\ SnapIsGenuine /\ TodoIsGenuine /\ RowsAreGenuine
  BY <1>1, <1>3, <1>4, IdleType, NoRowsType
  DEF Init, RowIsGenuine, SnapIsGenuine, TodoIsGenuine, RowsAreGenuine, There
<1>7. PutsHaveRows /\ Concurrent /\ Kept
  BY <1>2, NoPutType DEF PutsHaveRows, Concurrent, Kept, Open
<1>8. NodePutsAreGenuine
  BY <1>a, NoNodePutType DEF NodePutsAreGenuine
<1> QED BY <1>5, <1>6, <1>7, <1>8 DEF ConfigInv
-----------------------------------------------------------------------------
(* An applier that takes a snapshot, or goes on in one, with contents the  *)
(* rows have had.                                                          *)
LEMMA ApplierMoved ==
  ASSUME ConfigInv, NEW a \in Appliers, NEW r \in ApplierRecords,
         r.cur \in DOMAIN r.todo \cup {NoMonitor}, \A m \in DOMAIN r.todo : r.todo[m] \in had[m],
         applier' = [applier EXCEPT ![a] = r], UNCHANGED had
  PROVE  /\ applier' \in [Appliers -> ApplierRecords]
         /\ \A b \in Appliers : applier'[b].cur \in DOMAIN applier'[b].todo \cup {NoMonitor}
         /\ TodoIsGenuine'
<1>1. applier \in [Appliers -> ApplierRecords]
  BY DEF ConfigInv, TypeOK, ApplierRecords
<1>2. \A b \in Appliers : applier'[b] = IF b = a THEN r ELSE applier[b]
  BY <1>1
<1>3. applier' \in [Appliers -> ApplierRecords]
  BY <1>1
<1>4. \A b \in Appliers : applier'[b].cur \in DOMAIN applier'[b].todo \cup {NoMonitor}
  BY <1>2 DEF ConfigInv, TypeOK
<1>5. TodoIsGenuine'
  BY <1>2 DEF ConfigInv, TodoIsGenuine
<1> QED BY <1>3, <1>4, <1>5

(* What an applier that is done with a row has left to do.                 *)
LEMMA DoneMoves ==
  ASSUME ConfigInv, NEW a \in Appliers, NEW m, Done(a, m), UNCHANGED had
  PROVE  /\ applier' \in [Appliers -> ApplierRecords]
         /\ \A b \in Appliers : applier'[b].cur \in DOMAIN applier'[b].todo \cup {NoMonitor}
         /\ TodoIsGenuine'
<1> DEFINE todo == [k \in DOMAIN applier[a].todo \ {m} |-> applier[a].todo[k]]
           r == [Idle EXCEPT !.todo = todo]
<1>1. applier[a].todo \in Snapshots
  BY DEF ConfigInv, TypeOK
<1>2. /\ DOMAIN todo = DOMAIN applier[a].todo \ {m}
      /\ \A k \in DOMAIN todo : todo[k] = applier[a].todo[k]
  OBVIOUS
<1>3. todo \in Snapshots
  <2>1. /\ DOMAIN applier[a].todo \in SUBSET Monitors
        /\ \A k \in DOMAIN applier[a].todo : applier[a].todo[k] \in SUBSET Edits
    BY <1>1, SnapshotParts
  <2>2. todo \in [DOMAIN applier[a].todo \ {m} -> SUBSET Edits]
    BY <2>1
  <2>3. DOMAIN applier[a].todo \ {m} \in SUBSET Monitors
    BY <2>1
  <2> HIDE DEF todo
  <2> QED BY <2>2, <2>3, SnapshotType
<1>4. \A k \in DOMAIN todo : todo[k] \in had[k]
  BY <1>2 DEF ConfigInv, TodoIsGenuine
<1> HIDE DEF todo
<1>5. r \in ApplierRecords /\ r.todo = todo /\ r.cur = NoMonitor
  BY <1>3, IdleType DEF ApplierRecords
<1>6. applier' = [applier EXCEPT ![a] = r]
  BY DEF Done, todo
<1> HIDE DEF r
<1>7. r.cur \in DOMAIN r.todo \cup {NoMonitor} /\ \A k \in DOMAIN r.todo : r.todo[k] \in had[k]
  BY <1>4, <1>5
<1> QED BY <1>5, <1>6, <1>7, ApplierMoved
-----------------------------------------------------------------------------
(* A step that leaves the coordinator's part alone keeps what is said of   *)
(* it, and one that leaves the nodes alone what is said of them.           *)
CoordInv ==
  /\ row \in [Monitors -> Rows] /\ puts \in [Edits -> PutRecords]
  /\ snap \in Snapshots /\ pushTo \subseteq Nodes
  /\ had \in [Monitors -> SUBSET SUBSET Edits] /\ overlaps \subseteq Edits \X Edits
  /\ RowIsGenuine /\ SnapIsGenuine /\ PutsHaveRows /\ Concurrent /\ Kept

NodeInv ==
  /\ local \in [Nodes -> [Monitors -> NodeRows]]
  /\ nodePut \in [Nodes \X Monitors -> NodePutRecords]
  /\ posted \subseteq Nodes \X Monitors
  /\ RowsAreGenuine /\ NodePutsAreGenuine
  /\ applier \in [Appliers -> ApplierRecords]
  /\ \A a \in Appliers : applier[a].cur \in DOMAIN applier[a].todo \cup {NoMonitor}
  /\ TodoIsGenuine

LEMMA Parts == ConfigInv <=> CoordInv /\ NodeInv /\ faults \in 0..MaxFaults
BY DEF ConfigInv, TypeOK, CoordInv, NodeInv, PutRecords, ApplierRecords, NodePutRecords

LEMMA PartsNext == CoordInv' /\ NodeInv' /\ faults' \in 0..MaxFaults => ConfigInv'
BY DEF ConfigInv, TypeOK, CoordInv, NodeInv, PutRecords, ApplierRecords, NodePutRecords

LEMMA CoordKept ==
  ASSUME CoordInv, UNCHANGED coordVars
  PROVE  CoordInv'
<1> USE DEF CoordInv, coordVars
<1>1. RowIsGenuine' /\ SnapIsGenuine' /\ PutsHaveRows' /\ Concurrent'
  BY DEF RowIsGenuine, SnapIsGenuine, PutsHaveRows, Concurrent, Open, There
<1>2. Kept'
  BY DEF Kept, There, Open, Excused, Overlapped
<1> QED BY <1>1, <1>2

(* More has been had and posted since: what was a copy still is.           *)
LEMMA CopyKept ==
  ASSUME NEW n, NEW m, NEW h, Copy(had, posted, n, m, h), had[m] \subseteq had'[m], posted \subseteq posted'
  PROVE  Copy(had', posted', n, m, h)
BY DEF Copy

LEMMA TablesKept ==
  ASSUME RowsAreGenuine, NodePutsAreGenuine, UNCHANGED <<local, nodePut, posted>>,
         \A m \in Monitors : had[m] \subseteq had'[m]
  PROVE  RowsAreGenuine' /\ NodePutsAreGenuine'
<1>1. RowsAreGenuine'
  BY DEF RowsAreGenuine
<1>2. NodePutsAreGenuine'
  BY DEF NodePutsAreGenuine, Copy
<1> QED BY <1>1, <1>2

LEMMA NodeKept ==
  ASSUME NodeInv, UNCHANGED nodeVars, \A m \in Monitors : had[m] \subseteq had'[m]
  PROVE  NodeInv'
<1> USE DEF NodeInv, nodeVars
<1>1. TodoIsGenuine'
  <2>1. \A a \in Appliers : DOMAIN applier[a].todo \in SUBSET Monitors
    BY SnapshotParts DEF ApplierRecords
  <2> QED BY <2>1 DEF TodoIsGenuine
<1>2. RowsAreGenuine' /\ NodePutsAreGenuine'
  BY TablesKept
<1> QED BY <1>1, <1>2

LEMMA FaultType ==
  ASSUME faults \in 0..MaxFaults, Fault
  PROVE  faults' \in 0..MaxFaults
BY ConfigAssumption DEF Fault
-----------------------------------------------------------------------------
(* The handlers of the API.                                                *)
LEMMA SetRowEffect ==
  ASSUME CoordInv, NEW m \in Monitors, NEW r \in Rows, SetRow(m, r)
  PROVE  /\ row' \in [Monitors -> Rows] /\ had' \in [Monitors -> SUBSET SUBSET Edits]
         /\ row'[m] = r /\ r.has \in had'[m]
         /\ \A k \in Monitors \ {m} : row'[k] = row[k]
         /\ \A k \in Monitors : had[k] \subseteq had'[k]
<1>1. r.has \in SUBSET Edits /\ had[m] \in SUBSET SUBSET Edits
  BY DEF CoordInv, Rows
<1> QED BY <1>1 DEF CoordInv, SetRow

LEMMA SnapKept ==
  ASSUME CoordInv, UNCHANGED snap, \A k \in Monitors : had[k] \subseteq had'[k]
  PROVE  SnapIsGenuine'
<1>1. DOMAIN snap \in SUBSET Monitors
  BY SnapshotParts DEF CoordInv
<1> QED BY <1>1 DEF CoordInv, SnapIsGenuine

LEMMA CreateInd ==
  ASSUME ConfigInv, NEW m \in Monitors, CreateMonitor(m)
  PROVE  ConfigInv'
<1> USE DEF CreateMonitor
<1>0. CoordInv /\ NodeInv /\ faults \in 0..MaxFaults
  BY Parts
<1> DEFINE r == [there |-> "yes", has |-> {}]
<1>1. r \in Rows /\ r.there = "yes" /\ r.has = {}
  BY DEF Rows
<1> HIDE DEF r
<1>2. /\ row' \in [Monitors -> Rows] /\ had' \in [Monitors -> SUBSET SUBSET Edits]
      /\ row'[m] = r /\ r.has \in had'[m]
      /\ \A k \in Monitors \ {m} : row'[k] = row[k]
      /\ \A k \in Monitors : had[k] \subseteq had'[k]
  BY <1>0, <1>1, SetRowEffect DEF r
<1>3. RowIsGenuine'
  BY <1>0, <1>2 DEF CoordInv, RowIsGenuine, There
<1>4. SnapIsGenuine'
  BY <1>0, <1>2, SnapKept
<1>5. row[m].there = "no"
  BY DEF Absent, Unused
<1>6. \A e \in Edits : puts[e].pc # "idle" => puts[e].monitor \in Monitors \ {m}
  BY <1>0, <1>5 DEF CoordInv, PutsHaveRows
<1>7. PutsHaveRows' /\ Concurrent'
  BY <1>0, <1>2, <1>6 DEF CoordInv, PutsHaveRows, Concurrent, Open
<1>8. Kept'
  <2>1. \A e \in Edits : puts[e].pc = "done" => /\ puts[e].monitor \in Monitors \ {m}
                                                /\ row'[puts[e].monitor] = row[puts[e].monitor]
    BY <1>2, <1>6
  <2>2. Kept
    BY <1>0 DEF CoordInv
  <2> QED BY <2>1, <2>2 DEF Kept, There, Open, Excused, Overlapped
<1>9. CoordInv'
  BY <1>0, <1>2, <1>3, <1>4, <1>7, <1>8 DEF CoordInv
<1>10. NodeInv'
  BY <1>0, <1>2, NodeKept
<1> QED BY <1>0, <1>9, <1>10, PartsNext

LEMMA DeleteInd ==
  ASSUME ConfigInv, NEW m \in Monitors, DeleteMonitor(m)
  PROVE  ConfigInv'
<1> USE DEF DeleteMonitor
<1>0. CoordInv /\ NodeInv /\ faults \in 0..MaxFaults
  BY Parts
<1> DEFINE r == [there |-> "deleted", has |-> {}]
<1>1. r \in Rows /\ r.there = "deleted"
  BY DEF Rows
<1> HIDE DEF r
<1>2. /\ row' \in [Monitors -> Rows] /\ row'[m] = r
      /\ \A k \in Monitors \ {m} : row'[k] = row[k]
  BY <1>0, <1>1 DEF CoordInv, r
<1>3. RowIsGenuine'
  BY <1>0, <1>1, <1>2 DEF CoordInv, RowIsGenuine, There
<1>4. SnapIsGenuine' /\ Concurrent'
  BY <1>0 DEF CoordInv, SnapIsGenuine, Concurrent, Open
<1>5. PutsHaveRows'
  BY <1>0, <1>1, <1>2 DEF CoordInv, PutsHaveRows
<1>6. Kept'
  <2>1. \A e \in Edits : puts[e].pc = "done" => puts[e].monitor \in Monitors
    BY <1>0 DEF CoordInv, PutsHaveRows
  <2>2. \A e \in Edits : puts[e].pc = "done" /\ There(puts[e].monitor)' =>
          There(puts[e].monitor) /\ row'[puts[e].monitor] = row[puts[e].monitor]
    BY <1>1, <1>2, <2>1 DEF There
  <2>3. Kept
    BY <1>0 DEF CoordInv
  <2> QED BY <2>2, <2>3 DEF Kept, There, Open, Excused, Overlapped
<1>7. CoordInv'
  BY <1>0, <1>2, <1>3, <1>4, <1>5, <1>6 DEF CoordInv
<1>8. NodeInv'
  BY <1>0, NodeKept
<1> QED BY <1>0, <1>7, <1>8, PartsNext

LEMMA GetForUpdateInd ==
  ASSUME ConfigInv, NEW e \in Edits, NEW m \in Monitors, GetForUpdate(e, m)
  PROVE  ConfigInv'
<1> USE DEF GetForUpdate
<1>0. CoordInv /\ NodeInv /\ faults \in 0..MaxFaults
  BY Parts
<1> DEFINE p == [pc |-> "write", monitor |-> m, has |-> row[m].has]
<1>1. p \in PutRecords /\ p.pc = "write" /\ p.monitor = m /\ p.has = row[m].has
  BY <1>0 DEF CoordInv, Rows, PutRecords
<1> HIDE DEF p
<1>2. /\ puts' \in [Edits -> PutRecords] /\ puts'[e] = p
      /\ \A f \in Edits \ {e} : puts'[f] = puts[f]
  BY <1>0, <1>1 DEF CoordInv, p
<1>3. puts[e].pc = "idle"
  BY NoPutType
<1>4. Open' = Open \cup {e} /\ e \notin Open /\ Open \subseteq Edits
  BY <1>1, <1>2, <1>3 DEF Open
<1>5. /\ overlaps' \subseteq Edits \X Edits /\ overlaps \subseteq overlaps'
      /\ \A f \in Open : <<e, f>> \in overlaps' /\ <<f, e>> \in overlaps'
  BY <1>0, <1>4 DEF CoordInv
<1>6. PutsHaveRows'
  BY <1>0, <1>1, <1>2 DEF CoordInv, PutsHaveRows, There
<1>7. Concurrent'
  BY <1>0, <1>4, <1>5 DEF CoordInv, Concurrent
<1>8. Kept'
  <2> SUFFICES ASSUME NEW d \in Edits, puts'[d].pc = "done", There(puts'[d].monitor)
               PROVE  /\ d \in row[puts'[d].monitor].has \/ Excused(d)'
                      /\ \A f \in Open' : puts'[f].monitor = puts'[d].monitor
                           => d \in puts'[f].has \/ Overlapped(d, f)' \/ Excused(d)'
    BY DEF Kept, There
  <2>1. d # e /\ puts'[d] = puts[d]
    BY <1>1, <1>2
  <2>2. \A f \in Edits : f # e /\ Overlapped(d, f) => Overlapped(d, f)'
    BY <1>2, <1>5, <2>1 DEF Overlapped
  <2>3. Excused(d) => Excused(d)'
    BY <1>2, <1>3, <2>2 DEF Excused
  <2>4. /\ d \in row[puts[d].monitor].has \/ Excused(d)
        /\ \A f \in Open : puts[f].monitor = puts[d].monitor
                             => d \in puts[f].has \/ Overlapped(d, f) \/ Excused(d)
    BY <1>0, <2>1 DEF CoordInv, Kept
  <2>5. ASSUME NEW f \in Open', puts'[f].monitor = puts'[d].monitor
        PROVE  d \in puts'[f].has \/ Overlapped(d, f)' \/ Excused(d)'
    <3>1. CASE f = e
      BY <1>1, <1>2, <2>1, <2>3, <2>4, <2>5, <3>1
    <3>2. CASE f # e
      BY <1>2, <1>4, <2>1, <2>2, <2>3, <2>4, <2>5, <3>2
    <3> QED BY <3>1, <3>2
  <2> QED BY <2>1, <2>3, <2>4, <2>5
<1>9. RowIsGenuine' /\ SnapIsGenuine'
  BY <1>0 DEF CoordInv, RowIsGenuine, SnapIsGenuine, There
<1>10. CoordInv'
  BY <1>0, <1>2, <1>5, <1>6, <1>7, <1>8, <1>9 DEF CoordInv
<1>11. NodeInv'
  BY <1>0, NodeKept
<1> QED BY <1>0, <1>10, <1>11, PartsNext

LEMMA UpdateMonitorInd ==
  ASSUME ConfigInv, NEW e \in Edits, UpdateMonitor(e)
  PROVE  ConfigInv'
<1> USE DEF UpdateMonitor
<1>0. CoordInv /\ NodeInv /\ faults \in 0..MaxFaults
  BY Parts
<1> DEFINE m == puts[e].monitor
           p == [puts[e] EXCEPT !.pc = "done"]
           r == [there |-> "yes", has |-> puts[e].has \cup {e}]
<1>a. puts[e] \in PutRecords /\ puts[e].pc = "write" /\ m \in Monitors
  BY <1>0 DEF CoordInv, PutsHaveRows
<1>1. p \in PutRecords /\ p.pc = "done" /\ p.monitor = m
  BY <1>a DEF PutRecords
<1>2. /\ puts' \in [Edits -> PutRecords] /\ puts'[e] = p
      /\ \A f \in Edits \ {e} : puts'[f] = puts[f]
  <2>1. puts' = [puts EXCEPT ![e] = p]
    BY <1>0 DEF CoordInv
  <2> HIDE DEF p
  <2> QED BY <1>0, <1>1, <2>1 DEF CoordInv
<1>3. r \in Rows /\ r.there = "yes" /\ r.has = puts[e].has \cup {e}
  BY <1>a DEF Rows, PutRecords
<1> HIDE DEF p, r
<1>4. /\ row' \in [Monitors -> Rows] /\ had' \in [Monitors -> SUBSET SUBSET Edits]
      /\ \A k \in Monitors \ {m} : row'[k] = row[k]
      /\ \A k \in Monitors : had[k] \subseteq had'[k]
      /\ There(m) => row'[m] = r /\ r.has \in had'[m]
      /\ ~There(m) => row'[m] = row[m] /\ UNCHANGED had
  <2>1. CASE There(m)
    <3>1. SetRow(m, r)
      BY <2>1 DEF r
    <3> QED BY <1>0, <1>a, <1>3, <2>1, <3>1, SetRowEffect
  <2>2. CASE ~There(m)
    BY <1>0, <2>2 DEF CoordInv
  <2> QED BY <2>1, <2>2
<1>5. \A k \in Monitors : There(k)' <=> There(k)
  BY <1>3, <1>4 DEF There
<1>6. Open' = Open \ {e} /\ e \in Open /\ Open \subseteq Edits
  BY <1>a, <1>1, <1>2 DEF Open
<1>7. RowIsGenuine'
  <2> SUFFICES ASSUME NEW k \in Monitors, There(k)
               PROVE  row'[k].has \in had'[k]
    BY <1>5 DEF RowIsGenuine
  <2>1. row[k].has \in had[k]
    BY <1>0 DEF CoordInv, RowIsGenuine
  <2> QED BY <1>4, <2>1
<1>8. SnapIsGenuine'
  BY <1>0, <1>4, SnapKept
<1>9. PutsHaveRows'
  <2> SUFFICES ASSUME NEW f \in Edits, puts'[f].pc # "idle"
               PROVE  puts'[f].monitor \in Monitors /\ row'[puts'[f].monitor].there # "no"
    BY DEF PutsHaveRows
  <2>1. puts'[f].monitor = puts[f].monitor /\ puts[f].pc # "idle"
    BY <1>a, <1>1, <1>2
  <2>2. puts[f].monitor \in Monitors /\ row[puts[f].monitor].there # "no"
    BY <1>0, <2>1 DEF CoordInv, PutsHaveRows
  <2> QED BY <1>3, <1>4, <2>1, <2>2
<1>10. Concurrent'
  BY <1>0, <1>6 DEF CoordInv, Concurrent
<1>11. Kept'
  <2> SUFFICES ASSUME NEW d \in Edits, puts'[d].pc = "done", row'[puts'[d].monitor].there = "yes"
               PROVE  /\ d \in row'[puts'[d].monitor].has \/ Excused(d)'
                      /\ \A f \in Open' : puts'[f].monitor = puts'[d].monitor
                           => d \in puts'[f].has \/ Overlapped(d, f)' \/ Excused(d)'
    BY DEF Kept, There
  <2>0. \A f \in Edits : puts'[f].monitor = puts[f].monitor
    BY <1>1, <1>2
  <2>1. \A f \in Edits : Overlapped(d, f) => Overlapped(d, f)'
    BY <2>0 DEF Overlapped
  <2>2. \A f \in Edits : puts[f].pc = "done" => puts'[f].pc = "done"
    BY <1>1, <1>2
  <2>3. Excused(d) => Excused(d)'
    BY <2>1, <2>2 DEF Excused
  <2>4. CASE d = e
    <3>1. There(m) /\ puts'[d].monitor = m
      BY <1>a, <1>5, <2>0, <2>4 DEF There
    <3>2. d \in row'[m].has
      BY <1>3, <1>4, <2>4, <3>1
    <3>3. ASSUME NEW f \in Open', puts'[f].monitor = puts'[d].monitor
          PROVE  Overlapped(d, f)'
      <4>1. <<d, f>> \in overlaps
        BY <1>0, <1>6, <2>4, <3>3 DEF CoordInv, Concurrent
      <4> QED BY <3>3, <4>1 DEF Overlapped
    <3> QED BY <3>1, <3>2, <3>3
  <2>5. CASE d # e
    <3>1. puts'[d] = puts[d] /\ puts[d].monitor \in Monitors
      BY <1>0, <1>2, <2>5 DEF CoordInv, PutsHaveRows
    <3>2. /\ d \in row[puts[d].monitor].has \/ Excused(d)
          /\ \A f \in Open : puts[f].monitor = puts[d].monitor
                               => d \in puts[f].has \/ Overlapped(d, f) \/ Excused(d)
      BY <1>0, <1>5, <3>1 DEF CoordInv, Kept, There
    <3>3. d \in row'[puts[d].monitor].has \/ Excused(d)'
      <4>1. CASE puts[d].monitor = m
        <5>1. d \in puts[e].has \/ Overlapped(d, e) \/ Excused(d)
          BY <1>6, <3>2, <4>1
        <5>2. Overlapped(d, e) => Excused(d)'
          BY <1>1, <1>2, <2>1 DEF Excused
        <5>3. row'[m] = r
          BY <1>4, <1>5, <3>1, <4>1 DEF There
        <5> QED BY <1>3, <2>3, <4>1, <5>1, <5>2, <5>3
      <4>2. CASE puts[d].monitor # m
        BY <1>4, <2>3, <3>1, <3>2, <4>2
      <4> QED BY <4>1, <4>2
    <3>4. ASSUME NEW f \in Open', puts'[f].monitor = puts'[d].monitor
          PROVE  d \in puts'[f].has \/ Overlapped(d, f)' \/ Excused(d)'
      BY <1>2, <1>6, <2>1, <2>3, <3>1, <3>2, <3>4
    <3> QED BY <3>1, <3>3, <3>4
  <2> QED BY <2>4, <2>5
<1>12. CoordInv'
  BY <1>0, <1>2, <1>4, <1>7, <1>8, <1>9, <1>10, <1>11 DEF CoordInv
<1>13. NodeInv'
  BY <1>0, <1>4, NodeKept
<1> QED BY <1>0, <1>12, <1>13, PartsNext
-----------------------------------------------------------------------------
(* The two loops that send snapshots.                                      *)
LEMMA PushLoopInd ==
  ASSUME ConfigInv, ReadForPush \/ \E n \in Nodes : LosePush(n)
  PROVE  ConfigInv'
<1> USE DEF ReadForPush, LosePush
<1>0. CoordInv /\ NodeInv /\ faults \in 0..MaxFaults
  BY Parts
<1>1. UNCHANGED <<row, puts, had, overlaps, local, applier, nodePut, posted, faults>>
  BY DEF nodeVars
<1>2. snap' \in Snapshots /\ pushTo' \subseteq Nodes /\ SnapIsGenuine'
  <2>1. CASE ReadForPush
    BY <1>0, <1>1, <2>1, ListType DEF ConfigInv, SnapIsGenuine
  <2>2. CASE \E n \in Nodes : LosePush(n)
    BY <1>0, <1>1, <2>2 DEF CoordInv, SnapIsGenuine
  <2> QED BY <2>1, <2>2
<1>3. RowIsGenuine' /\ PutsHaveRows' /\ Concurrent'
  BY <1>0, <1>1 DEF CoordInv, RowIsGenuine, PutsHaveRows, Concurrent, Open, There
<1>4. Kept'
  BY <1>0, <1>1 DEF CoordInv, Kept, There, Open, Excused, Overlapped
<1>5. CoordInv'
  BY <1>0, <1>1, <1>2, <1>3, <1>4 DEF CoordInv
<1>6. NodeInv'
  BY <1>0, <1>1, NodeKept DEF nodeVars
<1> QED BY <1>0, <1>1, <1>5, <1>6, PartsNext

LEMMA TakeInd ==
  ASSUME ConfigInv, NEW n \in Nodes, Push(n) \/ Pull(n)
  PROVE  ConfigInv'
<1>0. CoordInv /\ NodeInv /\ faults \in 0..MaxFaults
  BY Parts
<1>1. PICK a \in Appliers, s \in {snap, ListMonitors} :
        applier[a] = Idle /\ applier' = [applier EXCEPT ![a].todo = s]
  <2>1. CASE Push(n)
    <3>1. PICK i \in 1..MaxPushes : /\ applier[<<n, i>>] = Idle
                                    /\ applier' = [applier EXCEPT ![<<n, i>>].todo = snap]
      BY <2>1 DEF Push
    <3>2. <<n, i>> \in Appliers
      BY ConfigAssumption DEF Appliers
    <3> QED BY <3>1, <3>2
  <2>2. CASE Pull(n)
    <3>1. <<n, 0>> \in Appliers
      BY ConfigAssumption DEF Appliers
    <3> QED BY <2>2, <3>1 DEF Pull
  <2> QED BY <2>1, <2>2
<1>2. s \in Snapshots /\ \A m \in DOMAIN s : s[m] \in had[m]
  BY <1>0, ListType DEF ConfigInv, CoordInv, SnapIsGenuine
<1> DEFINE r == [Idle EXCEPT !.todo = s]
<1>3. r \in ApplierRecords /\ r.todo = s /\ r.cur = NoMonitor
  BY <1>2, IdleType DEF ApplierRecords
<1>4. applier' = [applier EXCEPT ![a] = r]
  BY <1>0, <1>1 DEF NodeInv
<1>5. UNCHANGED <<row, puts, snap, had, overlaps, local, nodePut, posted, faults>>
      /\ (pushTo' = pushTo \/ pushTo' = pushTo \ {n})
  BY DEF Push, Pull, coordVars
<1> HIDE DEF r
<1>6. /\ applier' \in [Appliers -> ApplierRecords]
      /\ \A b \in Appliers : applier'[b].cur \in DOMAIN applier'[b].todo \cup {NoMonitor}
      /\ TodoIsGenuine'
  BY <1>2, <1>3, <1>4, <1>5, ApplierMoved
<1>7. NodeInv'
  BY <1>0, <1>5, <1>6, TablesKept DEF NodeInv
<1>8. RowIsGenuine' /\ SnapIsGenuine' /\ PutsHaveRows' /\ Concurrent'
  BY <1>0, <1>5 DEF CoordInv, RowIsGenuine, SnapIsGenuine, PutsHaveRows, Concurrent, Open, There
<1>9. Kept'
  BY <1>0, <1>5 DEF CoordInv, Kept, There, Open, Excused, Overlapped
<1>10. CoordInv'
  BY <1>0, <1>5, <1>8, <1>9 DEF CoordInv
<1> QED BY <1>0, <1>5, <1>7, <1>10, PartsNext
-----------------------------------------------------------------------------
(* Applying a snapshot.                                                    *)
LEMMA GetMonitorInd ==
  ASSUME ConfigInv, NEW a \in Appliers, NEW m \in Monitors, GetMonitor(a, m)
  PROVE  ConfigInv'
<1> USE DEF GetMonitor
<1>0. CoordInv /\ NodeInv /\ faults \in 0..MaxFaults
  BY Parts
<1> DEFINE found == local[a[1]][m].there = "yes"
           r == [applier[a] EXCEPT !.cur = m, !.found = found]
<1>1. found \in BOOLEAN /\ applier[a] \in ApplierRecords
  BY <1>0 DEF NodeInv
<1>2. applier' = [applier EXCEPT ![a] = r]
  BY <1>0 DEF NodeInv
<1> HIDE DEF found
<1>3. r \in ApplierRecords /\ r.todo = applier[a].todo /\ r.cur = m
  BY <1>1 DEF ApplierRecords
<1>4. r.cur \in DOMAIN r.todo \cup {NoMonitor} /\ \A k \in DOMAIN r.todo : r.todo[k] \in had[k]
  BY <1>0, <1>3 DEF NodeInv, TodoIsGenuine
<1> HIDE DEF r
<1>5. UNCHANGED had
  BY DEF coordVars
<1>6. NodeInv'
  BY <1>0, <1>2, <1>3, <1>4, <1>5, ApplierMoved, TablesKept DEF NodeInv
<1> QED BY <1>0, <1>6, CoordKept, PartsNext

(* A row of a node written with a copy of it, or deleted.                  *)
LEMMA LocalWritten ==
  ASSUME NodeInv, NEW n \in Nodes, NEW m \in Monitors, NEW r \in NodeRows, SetLocal(n, m, r),
         r.there = "yes" => Copy(had', posted', n, m, r.has), UNCHANGED had, posted \subseteq posted'
  PROVE  local' \in [Nodes -> [Monitors -> NodeRows]] /\ RowsAreGenuine'
<1>1. local \in [Nodes -> [Monitors -> NodeRows]]
  BY DEF NodeInv
<1>2. [local[n] EXCEPT ![m] = r] \in [Monitors -> NodeRows]
  BY <1>1
<1>3. local' = [local EXCEPT ![n] = [local[n] EXCEPT ![m] = r]]
  BY DEF SetLocal
<1>4. local' \in [Nodes -> [Monitors -> NodeRows]]
  BY <1>1, <1>2, <1>3
<1>5. ASSUME NEW k \in Nodes, NEW i \in Monitors, local'[k][i].there = "yes"
      PROVE  Copy(had', posted', k, i, local'[k][i].has)
  <2>1. CASE k = n /\ i = m
    BY <1>1, <1>3, <1>5, <2>1
  <2>2. CASE k # n \/ i # m
    <3>1. local'[k][i] = local[k][i]
      BY <1>1, <1>3, <2>2
    <3>2. Copy(had, posted, k, i, local[k][i].has)
      BY <1>5, <3>1 DEF NodeInv, RowsAreGenuine, Copy
    <3> QED BY <3>1, <3>2, CopyKept
  <2> QED BY <2>1, <2>2
<1>6. RowsAreGenuine'
  BY <1>5 DEF RowsAreGenuine, Copy
<1> QED BY <1>4, <1>6

(* What the coordinator has had is a copy for any node.                    *)
LEMMA SentIsCopy ==
  ASSUME NEW n \in Nodes, NEW m \in Monitors, NEW h \in SUBSET Edits, h \in had[m]
  PROVE  Copy(had, posted, n, m, h)
<1>1. h \cap Nodes = {} /\ h \ Nodes = h
  BY ConfigAssumption
<1> QED BY <1>1 DEF Copy

LEMMA WriteMonitorInd ==
  ASSUME ConfigInv, NEW a \in Appliers, WriteMonitor(a)
  PROVE  ConfigInv'
<1>0. CoordInv /\ NodeInv /\ faults \in 0..MaxFaults
  BY Parts
<1> DEFINE m == applier[a].cur
           n == a[1]
           r == [there |-> "yes", has |-> applier[a].todo[m]]
<1>1. /\ m # NoMonitor /\ Done(a, m) /\ UNCHANGED coordVars
      /\ UNCHANGED <<nodePut, posted, faults>> /\ (SetLocal(n, m, r) \/ UNCHANGED local)
  BY DEF WriteMonitor
<1>2. m \in DOMAIN applier[a].todo /\ applier[a].todo \in Snapshots
  BY <1>0, <1>1 DEF NodeInv, ApplierRecords
<1>3. m \in Monitors /\ n \in Nodes /\ applier[a].todo[m] \in SUBSET Edits
  BY <1>2, SnapshotParts DEF Appliers
<1>4. applier[a].todo[m] \in had[m]
  BY <1>0, <1>2 DEF NodeInv, TodoIsGenuine
<1>5. UNCHANGED had
  BY <1>1 DEF coordVars
<1>6. r \in NodeRows /\ r.has = applier[a].todo[m]
  BY <1>3 DEF NodeRows
<1>7. /\ applier' \in [Appliers -> ApplierRecords]
      /\ \A b \in Appliers : applier'[b].cur \in DOMAIN applier'[b].todo \cup {NoMonitor}
      /\ TodoIsGenuine'
  BY <1>1, <1>5, DoneMoves
<1> HIDE DEF m, n, r
<1>8. Copy(had', posted', n, m, r.has)
  BY <1>1, <1>3, <1>4, <1>5, <1>6, SentIsCopy, CopyKept
<1>9. local' \in [Nodes -> [Monitors -> NodeRows]] /\ RowsAreGenuine'
  <2>1. CASE SetLocal(n, m, r)
    BY <1>0, <1>1, <1>3, <1>5, <1>6, <1>8, <2>1, LocalWritten
  <2>2. CASE UNCHANGED local
    BY <1>0, <1>1, <1>5, <2>2, TablesKept DEF NodeInv
  <2> QED BY <1>1, <2>1, <2>2
<1>10. NodePutsAreGenuine'
  BY <1>0, <1>1, <1>5 DEF NodeInv, NodePutsAreGenuine, Copy
<1>11. NodeInv'
  BY <1>0, <1>1, <1>7, <1>9, <1>10 DEF NodeInv
<1> QED BY <1>0, <1>1, <1>11, CoordKept, PartsNext

LEMMA SkipInd ==
  ASSUME ConfigInv, NEW a \in Appliers, SkipMonitor(a)
  PROVE  ConfigInv'
<1> USE DEF SkipMonitor
<1>0. CoordInv /\ NodeInv /\ faults \in 0..MaxFaults
  BY Parts
<1>1. faults' \in 0..MaxFaults
  BY <1>0, FaultType
<1>2. UNCHANGED had
  BY DEF coordVars
<1>3. \E m : Done(a, m)
  OBVIOUS
<1>4. /\ applier' \in [Appliers -> ApplierRecords]
      /\ \A b \in Appliers : applier'[b].cur \in DOMAIN applier'[b].todo \cup {NoMonitor}
      /\ TodoIsGenuine'
  BY <1>2, <1>3, DoneMoves
<1>5. NodeInv'
  BY <1>0, <1>2, <1>4, TablesKept DEF NodeInv
<1> QED BY <1>0, <1>1, <1>5, CoordKept, PartsNext
-----------------------------------------------------------------------------
(* The handlers of the API on a node.                                      *)
LEMMA NodeWritesInd ==
  ASSUME ConfigInv, NEW n \in Nodes, NEW m \in Monitors, NodeWrites(n, m)
  PROVE  ConfigInv'
<1>0. CoordInv /\ NodeInv /\ faults \in 0..MaxFaults
  BY Parts
<1>1. UNCHANGED coordVars /\ UNCHANGED had /\ UNCHANGED <<applier, faults>>
  BY DEF NodeWrites, CreateAtNode, DeleteAtNode, UpdateAtNode, coordVars
<1>2. TodoIsGenuine'
  BY <1>0, <1>1 DEF NodeInv, TodoIsGenuine
<1>3. /\ local' \in [Nodes -> [Monitors -> NodeRows]] /\ RowsAreGenuine'
      /\ nodePut' \in [Nodes \X Monitors -> NodePutRecords] /\ NodePutsAreGenuine'
      /\ posted' \subseteq Nodes \X Monitors
  <2>1. CASE CreateAtNode(n, m)
    <3> DEFINE r == [there |-> "yes", has |-> {}]
    <3>1. r \in NodeRows /\ r.has = {}
      BY DEF NodeRows
    <3> HIDE DEF r
    <3>2. SetLocal(n, m, r) /\ posted' = posted \cup {<<n, m>>} /\ UNCHANGED nodePut
      BY <2>1 DEF CreateAtNode, r
    <3>3. Copy(had', posted', n, m, r.has)
      BY <3>1, <3>2 DEF Copy
    <3>4. local' \in [Nodes -> [Monitors -> NodeRows]] /\ RowsAreGenuine'
      BY <1>0, <1>1, <3>1, <3>2, <3>3, LocalWritten
    <3>5. NodePutsAreGenuine'
      BY <1>0, <1>1, <3>2 DEF NodeInv, NodePutsAreGenuine, Copy
    <3> QED BY <1>0, <3>2, <3>4, <3>5 DEF NodeInv
  <2>2. CASE DeleteAtNode(n, m)
    <3>1. Absent \in NodeRows /\ Absent.there = "no"
      BY DEF Absent, NodeRows
    <3>2. SetLocal(n, m, Absent) /\ UNCHANGED <<nodePut, posted>>
      BY <2>2 DEF DeleteAtNode
    <3>3. local' \in [Nodes -> [Monitors -> NodeRows]] /\ RowsAreGenuine'
      BY <1>0, <1>1, <3>1, <3>2, LocalWritten
    <3>4. NodePutsAreGenuine'
      BY <1>0, <1>1, <3>2 DEF NodeInv, NodePutsAreGenuine, Copy
    <3> QED BY <1>0, <3>2, <3>3, <3>4 DEF NodeInv
  <2>3. CASE UpdateAtNode(n, m)
    <3> DEFINE h == nodePut[<<n, m>>].has \cup {n}
               r == [there |-> "yes", has |-> h]
    <3>1. /\ nodePut[<<n, m>>].open /\ UNCHANGED posted
          /\ nodePut' = [nodePut EXCEPT ![<<n, m>>] = NoNodePut]
          /\ SetLocal(n, m, r) \/ UNCHANGED local
      BY <2>3 DEF UpdateAtNode
    <3>2. nodePut[<<n, m>>] \in NodePutRecords /\ Copy(had, posted, n, m, nodePut[<<n, m>>].has)
      BY <1>0, <3>1 DEF NodeInv, NodePutsAreGenuine
    <3>3. Copy(had, posted, n, m, h)
      <4>1. h \ Nodes = nodePut[<<n, m>>].has \ Nodes
        OBVIOUS
      <4> QED BY <3>2, <4>1 DEF Copy
    <3>4. r \in NodeRows /\ r.has = h
      BY <3>2 DEF NodePutRecords, NodeRows
    <3> HIDE DEF h, r
    <3>5. Copy(had', posted', n, m, r.has)
      BY <1>1, <3>1, <3>3, <3>4, CopyKept
    <3>6. local' \in [Nodes -> [Monitors -> NodeRows]] /\ RowsAreGenuine'
      <4>1. CASE SetLocal(n, m, r)
        BY <1>0, <1>1, <3>1, <3>4, <3>5, <4>1, LocalWritten
      <4>2. CASE UNCHANGED local
        BY <1>0, <1>1, <3>1, <4>2 DEF NodeInv, RowsAreGenuine
      <4> QED BY <3>1, <4>1, <4>2
    <3>7. /\ nodePut' \in [Nodes \X Monitors -> NodePutRecords]
          /\ \A q \in Nodes \X Monitors : nodePut'[q] = nodePut[q] \/ nodePut'[q] = NoNodePut
      BY <1>0, <3>1, NoNodePutType DEF NodeInv
    <3>8. NodePutsAreGenuine'
      <4> SUFFICES ASSUME NEW k \in Nodes, NEW i \in Monitors, nodePut'[<<k, i>>].open
                   PROVE  Copy(had', posted', k, i, nodePut'[<<k, i>>].has)
        BY DEF NodePutsAreGenuine
      <4>1. nodePut'[<<k, i>>] = nodePut[<<k, i>>]
        BY <3>7, NoNodePutType
      <4>2. Copy(had, posted, k, i, nodePut[<<k, i>>].has)
        BY <1>0, <4>1 DEF NodeInv, NodePutsAreGenuine
      <4> QED BY <1>1, <3>1, <4>1, <4>2, CopyKept
    <3> QED BY <1>0, <3>1, <3>6, <3>7, <3>8 DEF NodeInv
  <2> QED BY <2>1, <2>2, <2>3 DEF NodeWrites
<1>4. NodeInv'
  BY <1>0, <1>1, <1>2, <1>3 DEF NodeInv
<1> QED BY <1>0, <1>1, <1>4, CoordKept, PartsNext

LEMMA GetAtNodeInd ==
  ASSUME ConfigInv, NEW n \in Nodes, NEW m \in Monitors, GetAtNode(n, m)
  PROVE  ConfigInv'
<1> USE DEF GetAtNode
<1>0. CoordInv /\ NodeInv /\ faults \in 0..MaxFaults
  BY Parts
<1> DEFINE p == [open |-> TRUE, has |-> local[n][m].has]
<1>1. TRUE \in BOOLEAN /\ local[n][m] \in NodeRows
  BY <1>0 DEF NodeInv
<1>2. p \in NodePutRecords /\ p.has = local[n][m].has
  BY <1>1 DEF NodePutRecords, NodeRows
<1>3. nodePut' = [nodePut EXCEPT ![<<n, m>>] = p] /\ UNCHANGED <<local, applier, posted>>
  OBVIOUS
<1>4. UNCHANGED had
  BY DEF coordVars
<1>5. Copy(had, posted, n, m, p.has)
  BY <1>0, <1>2 DEF NodeInv, RowsAreGenuine, Copy
<1> HIDE DEF p
<1>6. /\ nodePut' \in [Nodes \X Monitors -> NodePutRecords] /\ nodePut'[<<n, m>>] = p
      /\ \A q \in Nodes \X Monitors : q # <<n, m>> => nodePut'[q] = nodePut[q]
  BY <1>0, <1>2, <1>3 DEF NodeInv
<1>7. NodePutsAreGenuine'
  <2> SUFFICES ASSUME NEW k \in Nodes, NEW i \in Monitors, nodePut'[<<k, i>>].open
               PROVE  Copy(had', posted', k, i, nodePut'[<<k, i>>].has)
    BY DEF NodePutsAreGenuine
  <2>1. CASE k = n /\ i = m
    BY <1>3, <1>4, <1>5, <1>6, <2>1, CopyKept
  <2>2. CASE k # n \/ i # m
    <3>1. nodePut'[<<k, i>>] = nodePut[<<k, i>>]
      BY <1>6, <2>2
    <3>2. Copy(had, posted, k, i, nodePut[<<k, i>>].has)
      BY <1>0, <3>1 DEF NodeInv, NodePutsAreGenuine
    <3> QED BY <1>3, <1>4, <3>1, <3>2, CopyKept
  <2> QED BY <2>1, <2>2
<1>8. TodoIsGenuine' /\ RowsAreGenuine'
  BY <1>0, <1>3, <1>4 DEF NodeInv, TodoIsGenuine, RowsAreGenuine
<1>9. NodeInv'
  BY <1>0, <1>3, <1>6, <1>7, <1>8 DEF NodeInv
<1> QED BY <1>0, <1>9, CoordKept, PartsNext
-----------------------------------------------------------------------------
(* Crashes.                                                                *)
LEMMA CrashNodeInd ==
  ASSUME ConfigInv, NEW n \in Nodes, CrashNode(n)
  PROVE  ConfigInv'
<1> USE DEF CrashNode
<1>0. CoordInv /\ NodeInv /\ faults \in 0..MaxFaults
  BY Parts
<1>1. faults' \in 0..MaxFaults /\ UNCHANGED had
  BY <1>0, FaultType DEF coordVars
<1>2. applier' \in [Appliers -> ApplierRecords]
      /\ \A a \in Appliers : applier'[a] = Idle \/ applier'[a] = applier[a]
  BY <1>0, IdleType DEF NodeInv
<1>3. \A a \in Appliers : applier'[a].cur \in DOMAIN applier'[a].todo \cup {NoMonitor}
  BY <1>0, <1>2, IdleType DEF NodeInv
<1>4. TodoIsGenuine'
  BY <1>0, <1>1, <1>2, IdleType, NoRowsType DEF NodeInv, TodoIsGenuine
<1>5. /\ nodePut' \in [Nodes \X Monitors -> NodePutRecords]
      /\ \A q \in Nodes \X Monitors : nodePut'[q] = nodePut[q] \/ nodePut'[q] = NoNodePut
  BY <1>0, NoNodePutType DEF NodeInv
<1>6. NodePutsAreGenuine'
  <2> SUFFICES ASSUME NEW k \in Nodes, NEW i \in Monitors, nodePut'[<<k, i>>].open
               PROVE  Copy(had', posted', k, i, nodePut'[<<k, i>>].has)
    BY DEF NodePutsAreGenuine
  <2>1. nodePut'[<<k, i>>] = nodePut[<<k, i>>]
    BY <1>5, NoNodePutType
  <2>2. Copy(had, posted, k, i, nodePut[<<k, i>>].has)
    BY <1>0, <2>1 DEF NodeInv, NodePutsAreGenuine
  <2> QED BY <1>1, <2>1, <2>2, CopyKept
<1>7. RowsAreGenuine'
  BY <1>0, <1>1 DEF NodeInv, RowsAreGenuine
<1>8. NodeInv'
  BY <1>0, <1>2, <1>3, <1>4, <1>5, <1>6, <1>7 DEF NodeInv
<1> QED BY <1>0, <1>1, <1>8, CoordKept, PartsNext

LEMMA CrashCoordinatorInd ==
  ASSUME ConfigInv, CrashCoordinator
  PROVE  ConfigInv'
<1> USE DEF CrashCoordinator
<1>0. CoordInv /\ NodeInv /\ faults \in 0..MaxFaults
  BY Parts
<1>1. faults' \in 0..MaxFaults /\ UNCHANGED had
  BY <1>0, FaultType
<1>2. /\ puts' \in [Edits -> PutRecords]
      /\ \A e \in Edits : puts'[e] = IF puts[e].pc = "write" THEN NoPut ELSE puts[e]
  BY <1>0, NoPutType DEF CoordInv
<1>3. Open' = {} /\ \A e \in Edits : puts'[e].pc # "idle" => puts'[e] = puts[e]
  BY <1>2, NoPutType DEF Open
<1>4. PutsHaveRows' /\ Concurrent'
  BY <1>0, <1>3 DEF CoordInv, PutsHaveRows, Concurrent
<1>5. Kept'
  <2> SUFFICES ASSUME NEW d \in Edits, puts'[d].pc = "done", There(puts'[d].monitor)
               PROVE  d \in row[puts'[d].monitor].has \/ Excused(d)'
    BY <1>3 DEF Kept, There
  <2>1. puts'[d] = puts[d]
    BY <1>3
  <2>2. \A f \in Edits : puts[f].pc = "done" => puts'[f] = puts[f]
    BY <1>2
  <2>3. Excused(d) => Excused(d)'
    BY <2>1, <2>2 DEF Excused, Overlapped
  <2> QED BY <1>0, <2>1, <2>3 DEF CoordInv, Kept
<1>6. RowIsGenuine' /\ SnapIsGenuine'
  BY <1>0 DEF CoordInv, RowIsGenuine, SnapIsGenuine, There
<1>7. CoordInv'
  BY <1>0, <1>2, <1>4, <1>5, <1>6 DEF CoordInv
<1>8. NodeInv'
  BY <1>0, <1>1, NodeKept
<1> QED BY <1>1, <1>7, <1>8, PartsNext
-----------------------------------------------------------------------------
(* Every step keeps the invariant.                                         *)
LEMMA StepInd ==
  ASSUME ConfigInv, [Next]_vars
  PROVE  ConfigInv'
<1>1. CASE UNCHANGED vars
  <2>1. CoordInv /\ NodeInv /\ faults \in 0..MaxFaults
    BY Parts
  <2>2. UNCHANGED coordVars /\ UNCHANGED nodeVars /\ UNCHANGED <<faults, had>>
    BY <1>1 DEF vars, nodeVars, coordVars
  <2> QED BY <2>1, <2>2, CoordKept, NodeKept, PartsNext
<1>2. CASE Next
  BY <1>2, CreateInd, DeleteInd, GetForUpdateInd, UpdateMonitorInd, PushLoopInd, TakeInd,
     GetMonitorInd, WriteMonitorInd, SkipInd, NodeWritesInd, GetAtNodeInd,
     CrashNodeInd, CrashCoordinatorInd DEF Next, Apply
<1> QED BY <1>1, <1>2

LEMMA Invariance == Spec => []ConfigInv
<1>1. ConfigInv /\ [Next]_vars => ConfigInv'
  BY StepInd
<1> QED BY InitInd, <1>1, PTL DEF Spec

(* The variables of the module keep their types, for any nodes, monitors,  *)
(* edits, pushes and faults.                                               *)
THEOREM TypeCorrect == Spec => []TypeOK
<1>1. ConfigInv => TypeOK
  BY DEF ConfigInv
<1> QED BY <1>1, Invariance, PTL

(* applyConfigSync and handlePeerConfigSync: whatever order snapshots are  *)
(* applied in, a node holds rows the coordinator has had, never a mixture, *)
(* but for what its own handlers of the API put into them.                 *)
THEOREM NodesHoldGenuineRows == Spec => []RowsAreGenuine
<1>1. ConfigInv => RowsAreGenuine
  BY DEF ConfigInv
<1> QED BY <1>1, Invariance, PTL

(* handleUpdateMonitor: an edit is lost to a PUT that overlapped it only.  *)
THEOREM OnlyOverlapsLoseEdits == Spec => []EditsAreKept
<1>1. ConfigInv => EditsAreKept
  <2> SUFFICES ASSUME ConfigInv, NEW e \in Edits, puts[e].pc = "done", There(puts[e].monitor),
                      e \notin row[puts[e].monitor].has
               PROVE  \E f \in Edits : <<e, f>> \in overlaps /\ puts[f].monitor = puts[e].monitor
    BY DEF EditsAreKept
  <2>1. Excused(e)
    BY DEF ConfigInv, Kept
  <2> QED BY <2>1 DEF Excused, Overlapped
<1> QED BY <1>1, Invariance, PTL
-----------------------------------------------------------------------------
(* What old snapshots can still do.                                        *)

(* A snapshot whose copy of the row of m, if it has one, is the row.       *)
Fresh(s, m) == m \in DOMAIN s => s[m] = row[m].has

(* No older copy of the row of m is on its way to node n, or being applied.*)
Settled(n, m) ==
  /\ There(m)
  /\ n \in pushTo => Fresh(snap, m)
  /\ \A i \in 0..MaxPushes : Fresh(applier[<<n, i>>].todo, m)

(* What an applier has after a step it had before, or has just taken.      *)
LEMMA WhatIsApplied ==
  ASSUME ConfigInv, [Next]_vars, NEW a \in Appliers,
         NEW m \in Monitors, m \in DOMAIN applier'[a].todo
  PROVE  \/ m \in DOMAIN applier[a].todo /\ applier'[a].todo[m] = applier[a].todo[m]
         \/ a[1] \in pushTo /\ m \in DOMAIN snap /\ applier'[a].todo[m] = snap[m]
         \/ applier'[a].todo[m] = row[m].has
<1>0. applier \in [Appliers -> ApplierRecords]
  BY DEF ConfigInv, TypeOK, ApplierRecords
<1>1. CASE UNCHANGED applier
  BY <1>1
<1>2. ASSUME NEW b \in Appliers, NEW k, Done(b, k)
      PROVE  m \in DOMAIN applier[a].todo /\ applier'[a].todo[m] = applier[a].todo[m]
  <2> DEFINE todo == [j \in DOMAIN applier[b].todo \ {k} |-> applier[b].todo[j]]
  <2>1. todo \in Snapshots
    <3>1. applier[b].todo \in Snapshots
      BY <1>0 DEF ApplierRecords
    <3>2. /\ DOMAIN applier[b].todo \ {k} \in SUBSET Monitors
          /\ todo \in [DOMAIN applier[b].todo \ {k} -> SUBSET Edits]
      BY <3>1, SnapshotParts
    <3> HIDE DEF todo
    <3> QED BY <3>2, SnapshotType
  <2>2. \A j \in DOMAIN todo : j \in DOMAIN applier[b].todo /\ todo[j] = applier[b].todo[j]
    OBVIOUS
  <2> HIDE DEF todo
  <2> DEFINE r == [Idle EXCEPT !.todo = todo]
  <2>3. r.todo = todo
    BY <2>1, IdleType DEF ApplierRecords
  <2>4. applier' = [applier EXCEPT ![b] = r]
    BY <1>2 DEF Done, todo
  <2> HIDE DEF r
  <2>5. CASE a = b
    BY <1>0, <2>2, <2>3, <2>4, <2>5
  <2>6. CASE a # b
    BY <1>0, <2>4, <2>6
  <2> QED BY <2>5, <2>6
<1>3. ASSUME NEW n \in Nodes, Push(n) \/ Pull(n)
      PROVE  \/ m \in DOMAIN applier[a].todo /\ applier'[a].todo[m] = applier[a].todo[m]
             \/ a[1] \in pushTo /\ m \in DOMAIN snap /\ applier'[a].todo[m] = snap[m]
             \/ applier'[a].todo[m] = row[m].has
  <2>1. CASE Push(n)
    <3>1. PICK i \in 1..MaxPushes : applier' = [applier EXCEPT ![<<n, i>>].todo = snap]
      BY <2>1 DEF Push
    <3>2. CASE a = <<n, i>>
      <4>1. applier'[a].todo = snap
        BY <1>0, <3>1, <3>2 DEF ApplierRecords
      <4> QED BY <2>1, <3>2, <4>1 DEF Push
    <3>3. CASE a # <<n, i>>
      BY <1>0, <3>1, <3>3
    <3> QED BY <3>2, <3>3
  <2>2. CASE Pull(n)
    <3>1. applier' = [applier EXCEPT ![<<n, 0>>].todo = ListMonitors]
      BY <2>2 DEF Pull
    <3>2. CASE a = <<n, 0>>
      <4>1. applier'[a].todo = ListMonitors
        BY <1>0, <3>1, <3>2 DEF ApplierRecords
      <4> QED BY <4>1 DEF ListMonitors
    <3>3. CASE a # <<n, 0>>
      BY <1>0, <3>1, <3>3
    <3> QED BY <3>2, <3>3
  <2> QED BY <1>3, <2>1, <2>2
<1>4. ASSUME NEW b \in Appliers, NEW k \in Monitors, GetMonitor(b, k)
      PROVE  m \in DOMAIN applier[a].todo /\ applier'[a].todo[m] = applier[a].todo[m]
  <2> DEFINE found == local[b[1]][k].there = "yes"
             r == [applier[b] EXCEPT !.cur = k, !.found = found]
  <2>1. applier' = [applier EXCEPT ![b] = r]
    BY <1>0, <1>4 DEF GetMonitor
  <2>2. found \in BOOLEAN /\ applier[b] \in ApplierRecords
    BY <1>0
  <2> HIDE DEF found
  <2>3. r.todo = applier[b].todo
    BY <2>2 DEF ApplierRecords
  <2> HIDE DEF r
  <2>4. applier'[a].todo = applier[a].todo
    BY <1>0, <2>1, <2>3
  <2> QED BY <2>4
<1>5. ASSUME NEW n \in Nodes, CrashNode(n)
      PROVE  applier'[a].todo = applier[a].todo
  <2>1. applier'[a] = IF a[1] = n THEN Idle ELSE applier[a]
    BY <1>5 DEF CrashNode
  <2>2. applier'[a] # Idle
    BY IdleType, NoRowsType
  <2> QED BY <2>1, <2>2
<1>6. \/ UNCHANGED applier
      \/ \E b \in Appliers, k \in Monitors : GetMonitor(b, k)
      \/ \E b \in Appliers : \E k : Done(b, k)
      \/ \E n \in Nodes : Push(n) \/ Pull(n) \/ CrashNode(n)
  BY DEF Next, vars, Apply, CreateMonitor, DeleteMonitor, UpdateMonitor, GetForUpdate, nodeVars,
         ReadForPush, CrashCoordinator, LosePush, WriteMonitor, SkipMonitor,
         NodeWrites, CreateAtNode, DeleteAtNode, UpdateAtNode, GetAtNode
<1> QED BY <1>1, <1>2, <1>3, <1>4, <1>5, <1>6

(* A node's row changes to what an applier has of it, or as the API of the *)
(* node says.                                                              *)
LEMMA WhatIsWritten ==
  ASSUME ConfigInv, [Next]_vars, NEW n \in Nodes, NEW m \in Monitors,
         local'[n][m] # local[n][m], ~NodeWrites(n, m)
  PROVE  \E i \in 0..MaxPushes :
           /\ m \in DOMAIN applier[<<n, i>>].todo
           /\ local'[n][m] = [there |-> "yes", has |-> applier[<<n, i>>].todo[m]]
<1>a. local \in [Nodes -> [Monitors -> NodeRows]]
  BY DEF ConfigInv, TypeOK
<1>b. ASSUME NEW k \in Nodes, NEW i \in Monitors, NodeWrites(k, i)
      PROVE  FALSE
  <2>1. PICK r : SetLocal(k, i, r)
    BY <1>b DEF NodeWrites, CreateAtNode, DeleteAtNode, UpdateAtNode
  <2>2. local' = [local EXCEPT ![k] = [local[k] EXCEPT ![i] = r]]
    BY <2>1 DEF SetLocal
  <2>3. k = n /\ i = m
    BY <1>a, <2>2
  <2> QED BY <1>b, <2>3
<1>1. PICK a \in Appliers : WriteMonitor(a)
  BY <1>b DEF Next, vars, coordVars, nodeVars, Apply, CreateMonitor, DeleteMonitor, UpdateMonitor,
         GetForUpdate, ReadForPush, CrashCoordinator, Push, LosePush, Pull, CrashNode,
         SkipMonitor, GetMonitor, GetAtNode
<1> DEFINE k == applier[a].cur
           r == [there |-> "yes", has |-> applier[a].todo[k]]
<1>2. SetLocal(a[1], k, r) /\ k \in DOMAIN applier[a].todo
  <2>1. k # NoMonitor /\ (SetLocal(a[1], k, r) \/ UNCHANGED local)
    BY <1>1 DEF WriteMonitor
  <2> QED BY <2>1 DEF ConfigInv, TypeOK
<1> HIDE DEF r
<1>3. local \in [Nodes -> [Monitors -> NodeRows]]
  BY <1>a
<1>4. local' = [local EXCEPT ![a[1]] = [local[a[1]] EXCEPT ![k] = r]]
  BY <1>2 DEF SetLocal
<1>5. n = a[1] /\ m = k /\ local'[n][m] = r
  BY <1>3, <1>4
<1>6. a[2] \in 0..MaxPushes /\ a = <<a[1], a[2]>>
  BY DEF Appliers
<1>7. a = <<n, a[2]>> /\ m \in DOMAIN applier[a].todo /\ r.has = applier[a].todo[m]
  BY <1>2, <1>5, <1>6 DEF r
<1> QED BY <1>5, <1>6, <1>7 DEF r

(* pushConfigSync, pullConfigSync, applyConfigSync: snapshots carry no     *)
(* version that is looked at, so an old one may undo a newer one.  But a   *)
(* node passes on nothing it was sent: once no older copy of a row is on   *)
(* its way to a node there will be none until the row is edited again, and *)
(* all that is still written there is the row, or what the node's own API  *)
(* writes.  (That old copies are gone in the end, and the row arrives, is  *)
(* Converges.)                                                             *)
OldRowsDoNotReturn ==
  [][\A n \in Nodes, m \in Monitors : Settled(n, m) /\ row'[m] = row[m] =>
       /\ Settled(n, m)'
       /\ local'[n][m] \in {local[n][m], row[m]} \/ NodeWrites(n, m)]_vars

THEOREM OldRowsStayAway == Spec => OldRowsDoNotReturn
<1>1. ASSUME ConfigInv, [Next]_vars, NEW n \in Nodes, NEW m \in Monitors,
             Settled(n, m), row'[m] = row[m]
      PROVE  Settled(n, m)' /\ (local'[n][m] \in {local[n][m], row[m]} \/ NodeWrites(n, m))
  <2> USE <1>1
  <2>1. There(m)'
    BY DEF Settled, There
  <2>2. n \in pushTo' => (m \in DOMAIN snap' => snap'[m] = row'[m].has)
    <3>1. CASE ReadForPush
      <4>1. snap' = ListMonitors
        BY <3>1 DEF ReadForPush
      <4> QED BY <4>1 DEF ListMonitors
    <3>2. CASE ~ReadForPush
      <4>1. snap' = snap /\ (n \in pushTo' => n \in pushTo)
        BY <3>2 DEF Next, vars, coordVars, nodeVars, Apply, CreateMonitor, DeleteMonitor,
          UpdateMonitor, GetForUpdate, CrashCoordinator, Push, LosePush, Pull, CrashNode,
          SkipMonitor, GetMonitor, WriteMonitor,
          NodeWrites, CreateAtNode, DeleteAtNode, UpdateAtNode, GetAtNode
      <4> QED BY <4>1 DEF Settled, Fresh
    <3> QED BY <3>1, <3>2
  <2>3. ASSUME NEW i \in 0..MaxPushes, m \in DOMAIN applier'[<<n, i>>].todo
        PROVE  applier'[<<n, i>>].todo[m] = row'[m].has
    <3>1. <<n, i>> \in Appliers /\ <<n, i>>[1] = n
      BY DEF Appliers
    <3>2. \/ m \in DOMAIN applier[<<n, i>>].todo
             /\ applier'[<<n, i>>].todo[m] = applier[<<n, i>>].todo[m]
          \/ n \in pushTo /\ m \in DOMAIN snap /\ applier'[<<n, i>>].todo[m] = snap[m]
          \/ applier'[<<n, i>>].todo[m] = row[m].has
      BY <2>3, <3>1, WhatIsApplied
    <3> QED BY <3>2 DEF Settled, Fresh
  <2>4. Settled(n, m)'
    BY <2>1, <2>2, <2>3 DEF Settled, Fresh
  <2>5. ASSUME local'[n][m] # local[n][m], ~NodeWrites(n, m)
        PROVE  local'[n][m] = row[m]
    <3>1. local'[n][m] = [there |-> "yes", has |-> row[m].has]
      BY <2>5, WhatIsWritten DEF Settled, Fresh
    <3>2. row[m] \in Rows /\ row[m].there = "yes"
      BY DEF ConfigInv, TypeOK, Settled, There
    <3> QED BY <3>1, <3>2 DEF Rows
  <2> QED BY <2>4, <2>5
<1>2. ConfigInv /\ [Next]_vars =>
        [\A n \in Nodes, m \in Monitors : Settled(n, m) /\ row'[m] = row[m] =>
           /\ Settled(n, m)'
           /\ local'[n][m] \in {local[n][m], row[m]} \/ NodeWrites(n, m)]_vars
  BY <1>1
<1> QED BY <1>2, Invariance, PTL DEF Spec, OldRowsDoNotReturn
=============================================================================
