----------------------------- MODULE ConfigSync -----------------------------
(***************************************************************************)
(* How the monitors get from the coordinator's table to the nodes: the     *)
(* coordinator pushes a snapshot every 30 s, each node pulls one every     *)
(* 30 s (src/internal/agent/agent.go), and both are applied row by row     *)
(* (handlePeerConfigSync in src/internal/api/peer_handlers.go,             *)
(* applyConfigSync in agent.go) while the API's handlers change the table  *)
(* (src/internal/api/cli_handlers.go).                                     *)
(*                                                                         *)
(* The content of a row is the set of edits in it: an edit is a PUT that   *)
(* changes a field of its own.  Nothing compares the Version of snapshots, *)
(* and a push whose sender has given up goes on being applied, so that     *)
(* snapshots are applied late, side by side and in any order.              *)
(*                                                                         *)
(* Every node serves the same handlers for its own table, which nothing    *)
(* but the next snapshots undo.  What a PUT served by node n leaves in a   *)
(* row is stood for by n itself.                                           *)
(***************************************************************************)
EXTENDS Integers, FiniteSets

CONSTANTS
  Nodes, Monitors,
  NoMonitor,
  Edits,              \* the PUTs there may be, each of them once
  MaxPushes,          \* bound on the pushes a node handles at a time
  MaxFaults           \* bound on failed queries and crashes together

ASSUME ConfigAssumption ==
  /\ NoMonitor \notin Monitors /\ MaxPushes \in Nat /\ MaxFaults \in Nat
  /\ Edits \cap Nodes = {}

VARIABLES
  row,       \* monitors table of the coordinator
  puts,      \* handleUpdateMonitor, one record per edit
  snap,      \* pushConfigSync: the snapshot it read ...
  pushTo,    \* ... and the nodes it has still to send it to
  local,     \* monitors table of each node
  applier,   \* the goroutines that apply snapshots
  nodePut,   \* handleUpdateMonitor on a node, one at a time for each monitor
  posted,    \* history: the monitors that were created on a node
  faults,
  had,       \* history: the contents each row has had
  overlaps   \* history: pairs of PUTs that were in progress together

coordVars == <<row, puts, snap, pushTo, had, overlaps>>
nodeVars == <<local, applier, nodePut, posted>>
vars == <<coordVars, nodeVars, faults>>

Absent == [there |-> "no", has |-> {}]
NoPut == [pc |-> "idle", monitor |-> NoMonitor, has |-> {}]
NoNodePut == [open |-> FALSE, has |-> {}]
NoRows == [m \in {} |-> {}]
Idle == [todo |-> NoRows, cur |-> NoMonitor, found |-> FALSE]
Appliers == Nodes \X (0..MaxPushes)   \* 0 is the node's pull loop

Rows == [there : {"no", "yes", "deleted"}, has : SUBSET Edits]
NodeRows == [there : {"no", "yes"}, has : SUBSET (Edits \cup Nodes)]
Snapshots == UNION {[S -> SUBSET Edits] : S \in SUBSET Monitors}

TypeOK ==
  /\ row \in [Monitors -> Rows] /\ local \in [Nodes -> [Monitors -> NodeRows]]
  /\ nodePut \in [Nodes \X Monitors -> [open : BOOLEAN, has : SUBSET (Edits \cup Nodes)]]
  /\ posted \subseteq Nodes \X Monitors
  /\ puts \in [Edits -> [pc : {"idle", "write", "done"}, has : SUBSET Edits,
                         monitor : Monitors \cup {NoMonitor}]]
  /\ snap \in Snapshots /\ pushTo \subseteq Nodes
  /\ applier \in [Appliers -> [todo : Snapshots, found : BOOLEAN,
                               cur : Monitors \cup {NoMonitor}]]
  /\ \A a \in Appliers : applier[a].cur \in DOMAIN applier[a].todo \cup {NoMonitor}
  /\ faults \in 0..MaxFaults
  /\ had \in [Monitors -> SUBSET SUBSET Edits] /\ overlaps \subseteq Edits \X Edits

Init ==
  /\ row = [m \in Monitors |-> Absent] /\ puts = [e \in Edits |-> NoPut]
  /\ snap = NoRows /\ pushTo = {}
  /\ local = [n \in Nodes |-> [m \in Monitors |-> Absent]]
  /\ applier = [a \in Appliers |-> Idle]
  /\ nodePut = [p \in Nodes \X Monitors |-> NoNodePut] /\ posted = {}
  /\ faults = 0 /\ had = [m \in Monitors |-> {}] /\ overlaps = {}

There(m) == row[m].there = "yes"
ListMonitors == [m \in {m \in Monitors : There(m)} |-> row[m].has]
Fault == faults < MaxFaults /\ faults' = faults + 1
-----------------------------------------------------------------------------
(* The API of the coordinator.                                             *)

SetRow(m, r) ==
  /\ row' = [row EXCEPT ![m] = r]
  /\ had' = [had EXCEPT ![m] = @ \cup {r.has}]

(* A monitor gets an id of its own wherever it is created.                 *)
Unused(m) == row[m] = Absent /\ \A n \in Nodes : <<n, m>> \notin posted

CreateMonitor(m) ==
  /\ Unused(m)
  /\ SetRow(m, [there |-> "yes", has |-> {}])
  /\ UNCHANGED <<puts, snap, pushTo, overlaps, nodeVars, faults>>

DeleteMonitor(m) ==
  /\ There(m)
  /\ row' = [row EXCEPT ![m] = [there |-> "deleted", has |-> {}]]
  /\ UNCHANGED <<puts, snap, pushTo, had, overlaps, nodeVars, faults>>

(* handleUpdateMonitor reads the row (404 without one) ...                 *)
Open == {e \in Edits : puts[e].pc = "write"}
GetForUpdate(e, m) ==
  /\ puts[e] = NoPut /\ There(m)
  /\ puts' = [puts EXCEPT ![e] = [pc |-> "write", monitor |-> m, has |-> row[m].has]]
  /\ overlaps' = overlaps \cup ({e} \X Open) \cup (Open \X {e})
  /\ UNCHANGED <<row, snap, pushTo, had, nodeVars, faults>>

(* Mutant: a field that is not in the body is written as it decodes, empty.*)
UpdateMonitor_Whole(e) ==
  /\ puts[e].pc = "write"
  /\ puts' = [puts EXCEPT ![e].pc = "done"]
  /\ IF There(puts[e].monitor)
     THEN SetRow(puts[e].monitor, [there |-> "yes", has |-> {e}])
     ELSE UNCHANGED <<row, had>>
  /\ UNCHANGED <<snap, pushTo, overlaps, nodeVars, faults>>

(* ... and writes back what it read, with the fields of the body.          *)
UpdateMonitor(e) ==
  /\ puts[e].pc = "write"
  /\ puts' = [puts EXCEPT ![e].pc = "done"]
  /\ IF There(puts[e].monitor)
     THEN SetRow(puts[e].monitor, [there |-> "yes", has |-> puts[e].has \cup {e}])
     ELSE UNCHANGED <<row, had>>
  /\ UNCHANGED <<snap, pushTo, overlaps, nodeVars, faults>>
-----------------------------------------------------------------------------
(* pushConfigSync.  The nodes it sends to are those that are online then;  *)
(* a node that does not answer in 10 s is left for the next one.           *)
ReadForPush ==
  /\ pushTo = {}
  /\ snap' = ListMonitors /\ pushTo' \in SUBSET Nodes \ {{}}
  /\ UNCHANGED <<row, puts, had, overlaps, nodeVars, faults>>

Push(n) ==
  /\ n \in pushTo
  /\ pushTo' = pushTo \ {n}
  /\ \E i \in 1..MaxPushes :
       /\ applier[<<n, i>>] = Idle
       /\ applier' = [applier EXCEPT ![<<n, i>>].todo = snap]
  /\ UNCHANGED <<row, puts, snap, had, overlaps, local, nodePut, posted, faults>>

LosePush(n) ==
  /\ n \in pushTo
  /\ pushTo' = pushTo \ {n}
  /\ UNCHANGED <<row, puts, snap, had, overlaps, nodeVars, faults>>

(* pullConfigSync, up to the coordinator's answer.                         *)
Pull(n) ==
  /\ applier[<<n, 0>>] = Idle
  /\ applier' = [applier EXCEPT ![<<n, 0>>].todo = ListMonitors]
  /\ UNCHANGED <<coordVars, local, nodePut, posted, faults>>
-----------------------------------------------------------------------------
(* Applying a snapshot: for each monitor a query that looks for the row,   *)
(* then an UPDATE or an INSERT.                                            *)
GetMonitor(a, m) ==
  /\ applier[a].cur = NoMonitor /\ m \in DOMAIN applier[a].todo
  /\ applier' = [applier EXCEPT ![a] = [@ EXCEPT !.cur = m,
                                        !.found = local[a[1]][m].there = "yes"]]
  /\ UNCHANGED <<coordVars, local, nodePut, posted, faults>>

Done(a, m) ==
  applier' = [applier EXCEPT ![a] =
    [Idle EXCEPT !.todo = [k \in DOMAIN applier[a].todo \ {m} |-> applier[a].todo[k]]]]

SetLocal(n, m, r) == local' = [local EXCEPT ![n] = [@ EXCEPT ![m] = r]]

(* Mutants: an UPDATE keeps what it does not find in the snapshot; rows    *)
(* that are there are left alone.                                          *)
WriteMonitor_Merge(a) ==
  LET m == applier[a].cur  n == a[1] IN
  /\ m # NoMonitor
  /\ IF applier[a].found = (local[n][m].there = "yes")
     THEN SetLocal(n, m, [there |-> "yes", has |-> applier[a].todo[m] \cup local[n][m].has])
     ELSE UNCHANGED local
  /\ Done(a, m)
  /\ UNCHANGED <<coordVars, nodePut, posted, faults>>

WriteMonitor_CreateOnly(a) ==
  LET m == applier[a].cur  n == a[1] IN
  /\ m # NoMonitor
  /\ IF ~applier[a].found /\ local[n][m].there = "no"
     THEN SetLocal(n, m, [there |-> "yes", has |-> applier[a].todo[m]])
     ELSE UNCHANGED local
  /\ Done(a, m)
  /\ UNCHANGED <<coordVars, nodePut, posted, faults>>

(* The INSERT fails when another applier has inserted the row since, and   *)
(* the UPDATE changes nothing when the row has been deleted.               *)
WriteMonitor(a) ==
  LET m == applier[a].cur  n == a[1] IN
  /\ m # NoMonitor
  /\ IF applier[a].found = (local[n][m].there = "yes")
     THEN SetLocal(n, m, [there |-> "yes", has |-> applier[a].todo[m]])
     ELSE UNCHANGED local
  /\ Done(a, m)
  /\ UNCHANGED <<coordVars, nodePut, posted, faults>>

(* The handlers of the API on a node.                                      *)
CreateAtNode(n, m) ==
  /\ Unused(m)
  /\ SetLocal(n, m, [there |-> "yes", has |-> {}])
  /\ posted' = posted \cup {<<n, m>>}
  /\ UNCHANGED <<coordVars, applier, nodePut, faults>>

DeleteAtNode(n, m) ==
  /\ local[n][m].there = "yes" /\ SetLocal(n, m, Absent)
  /\ UNCHANGED <<coordVars, applier, nodePut, posted, faults>>

GetAtNode(n, m) ==
  /\ ~nodePut[<<n, m>>].open /\ local[n][m].there = "yes"
  /\ nodePut' = [nodePut EXCEPT ![<<n, m>>] = [open |-> TRUE, has |-> local[n][m].has]]
  /\ UNCHANGED <<coordVars, local, applier, posted, faults>>

UpdateAtNode(n, m) ==
  /\ nodePut[<<n, m>>].open
  /\ nodePut' = [nodePut EXCEPT ![<<n, m>>] = NoNodePut]
  /\ IF local[n][m].there = "yes"
     THEN SetLocal(n, m, [there |-> "yes", has |-> nodePut[<<n, m>>].has \cup {n}])
     ELSE UNCHANGED local
  /\ UNCHANGED <<coordVars, applier, posted, faults>>

NodeWrites(n, m) == CreateAtNode(n, m) \/ DeleteAtNode(n, m) \/ UpdateAtNode(n, m)
-----------------------------------------------------------------------------
(* Either query fails: the row is skipped.                                 *)
SkipMonitor(a) ==
  /\ Fault
  /\ \/ applier[a].cur # NoMonitor /\ Done(a, applier[a].cur)
     \/ /\ applier[a].cur = NoMonitor
        /\ \E m \in DOMAIN applier[a].todo : Done(a, m)
  /\ UNCHANGED <<coordVars, local, nodePut, posted>>

(* A node, or the coordinator, stops; both start again with their tables.  *)
CrashNode(n) ==
  /\ Fault
  /\ applier' = [a \in Appliers |-> IF a[1] = n THEN Idle ELSE applier[a]]
  /\ nodePut' = [p \in Nodes \X Monitors |-> IF p[1] = n THEN NoNodePut ELSE nodePut[p]]
  /\ UNCHANGED <<coordVars, local, posted>>

CrashCoordinator ==
  /\ Fault
  /\ pushTo' = {}
  /\ puts' = [e \in Edits |-> IF puts[e].pc = "write" THEN NoPut ELSE puts[e]]
  /\ UNCHANGED <<row, snap, had, overlaps, nodeVars>>
-----------------------------------------------------------------------------
Apply(a) == WriteMonitor(a) \/ \E m \in Monitors : GetMonitor(a, m)

Next ==
  \/ \E m \in Monitors : CreateMonitor(m) \/ DeleteMonitor(m)
  \/ \E e \in Edits : UpdateMonitor(e) \/ \E m \in Monitors : GetForUpdate(e, m)
  \/ ReadForPush \/ CrashCoordinator
  \/ \E n \in Nodes : Push(n) \/ LosePush(n) \/ Pull(n) \/ CrashNode(n)
  \/ \E a \in Appliers : Apply(a) \/ SkipMonitor(a)
  \/ \E n \in Nodes, m \in Monitors : NodeWrites(n, m) \/ GetAtNode(n, m)

Spec == Init /\ [][Next]_vars

(* A node keeps pulling, and a goroutine that applies a snapshot goes on.  *)
(* A pull that fails is one that has not happened yet.                     *)
FairSpec ==
  /\ Spec /\ \A n \in Nodes : WF_vars(Pull(n))
  /\ \A a \in Appliers : WF_vars(Apply(a))
-----------------------------------------------------------------------------
(* Properties.                                                             *)

(* A node never holds a monitor the coordinator has not had just so, but   *)
(* for what its own API put in it: late and interleaved snapshots may bring*)
(* back an older row, never a mixture; PUTs served by another node never   *)
(* reach it; and a monitor the coordinator has not had was created there.  *)
RowsAreGenuine ==
  \A n \in Nodes, m \in Monitors :
    local[n][m].there = "yes" =>
      /\ local[n][m].has \cap Nodes \subseteq {n}
      /\ \/ local[n][m].has \ Nodes \in had[m]
         \/ <<n, m>> \in posted /\ local[n][m].has \ Nodes = {}

(* openapi.yaml, updateMonitor: "Fields you omit ... are left unchanged".  *)
(* True of every PUT that no other PUT on the monitor overlapped.          *)
EditsAreKept ==
  \A e \in Edits :
    puts[e].pc = "done" /\ There(puts[e].monitor) /\ e \notin row[puts[e].monitor].has
      => \E f \in Edits : <<e, f>> \in overlaps /\ puts[f].monitor = puts[e].monitor

(* When the coordinator's table has come to rest, every node that keeps    *)
(* pulling ends up with it: stale pushes that are still applied, crossing  *)
(* applications, skipped rows, crashes and what the node's own API did to  *)
(* the row are all made good, unless that API never leaves it alone.  (A   *)
(* monitor that was deleted, or created on the node, stays there.)         *)
Converges ==
  \A n \in Nodes, m \in Monitors :
    \/ []<><<NodeWrites(n, m)>>_vars
    \/ <>[](There(m) => local[n][m] = row[m])
=============================================================================
