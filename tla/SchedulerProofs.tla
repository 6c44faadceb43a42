---------------------------- MODULE SchedulerProofs ----------------------------
(***************************************************************************)
(* Proofs about Scheduler for any monitors, lives and failed queries.      *)
(* What keeps two checks of one monitor apart is not a lock: it is that a  *)
(* row that is inserted once is started once, so that a loop which         *)
(* SyncMonitors stopped is not followed by another one before the process  *)
(* stops, unless the row comes back.                                       *)
(***************************************************************************)
EXTENDS Scheduler, TLAPS

Slots == 1..(MaxLives + 1)

(* The run loops of a monitor are numbered as they were started, and only  *)
(* the last of them can be scheduled.                                      *)
LastIsScheduled ==
  /\ \A l \in Loops : loops[l].pc = "none" <=> l[2] > started[l[1]]
  /\ \A m \in Monitors : timers[m] \in {0, started[m]}

(* A late list may start one loop more than there were rows.               *)
LateLoops == IF phase = "stopped" THEN 1 ELSE 0

(* Each life of a monitor has one run loop.  One that is not scheduled and *)
(* that there is, or that was listed, has not had its loop of this life;   *)
(* nor has one that is there again but is about to be stopped.             *)
OneLoopPerLife ==
  \A m \in Monitors :
    /\ started[m] <= lives[m] + LateLoops
    /\ m \notin Scheduled /\ m \in enabled \cup listed => started[m] < lives[m] + LateLoops
    /\ syncPc = "listed" /\ m \in Scheduled \ listed /\ m \in enabled
         => started[m] < lives[m] + LateLoops

(* While the process is up, an entry in running has its check executing,   *)
(* for a monitor that is scheduled no more too.                            *)
OnlyRunningExecutes ==
  phase # "stopped" =>
    \A m \in Monitors \ Returned : m \in running => loops[<<m, 1>>].pc \in Executing

SchedulerInv ==
  /\ TypeOK
  /\ LastIsScheduled
  /\ LoopsAreScheduled
  /\ OneLoopPerLife
  /\ OnlyRunningExecutes
  /\ RunningIsTruthful
-----------------------------------------------------------------------------
LEMMA LoopParts ==
  ASSUME NEW l \in Loops
  PROVE  l[1] \in Monitors /\ l[2] \in Slots /\ l = <<l[1], l[2]>>
BY DEF Loops, Slots

LEMMA LoopPair ==
  ASSUME NEW m \in Monitors, NEW i \in Slots
  PROVE  <<m, i>> \in Loops /\ <<m, i>>[1] = m /\ <<m, i>>[2] = i
BY DEF Loops, Slots

LEMMA FirstSlot == 1 \in Slots /\ \A i \in Slots : i \in Nat /\ i >= 1 /\ i \in 0..(MaxLives + 1)
BY SchedulerAssumption DEF Slots

LEMMA NoLoopFields ==
  /\ NoLoop \in LoopRecords /\ NoLoop.pc = "none" /\ NoLoop.cancelled = FALSE
  /\ NewLoop \in LoopRecords /\ NewLoop.pc = "starting" /\ NewLoop.cancelled = FALSE
<1>1. FALSE \in BOOLEAN /\ "none" \in LoopPcs /\ "starting" \in LoopPcs
  BY DEF LoopPcs
<1> QED BY <1>1 DEF NoLoop, NewLoop, LoopRecords

(* Until Stop a monitor whose row did not come back has one loop at most,  *)
(* the first.                                                              *)
LEMMA OnlyLoop ==
  ASSUME TypeOK, LastIsScheduled, OneLoopPerLife, phase # "stopped",
         NEW m \in Monitors \ Returned
  PROVE  /\ started[m] \in {0, 1} /\ timers[m] \in {0, 1}
         /\ \A i \in Slots : loops[<<m, i>>].pc # "none" => i = 1
<1>1. started[m] \in Nat /\ lives[m] \in Nat /\ ~(lives[m] > 1)
  BY SchedulerAssumption DEF TypeOK, Returned
<1>2. started[m] <= 1
  BY <1>1 DEF OneLoopPerLife, LateLoops
<1>3. timers[m] \in {0, started[m]}
  BY DEF LastIsScheduled
<1>4. ASSUME NEW i \in Slots, loops[<<m, i>>].pc # "none"
      PROVE  i = 1
  <2>1. ~(i > started[m])
    BY <1>4, LoopPair DEF LastIsScheduled
  <2> QED BY <1>1, <1>2, <2>1, FirstSlot
<1> QED BY <1>1, <1>2, <1>3, <1>4

(* The invariant holds before anything is scheduled.                       *)
LEMMA InitInd == Init => SchedulerInv
<1> SUFFICES ASSUME Init PROVE SchedulerInv
  OBVIOUS
<1> USE DEF Init
<1>0. Scheduled = {} /\ \A m \in Monitors : started[m] = 0 /\ timers[m] = 0 /\ lives[m] = 0
  BY DEF Scheduled
<1>1. \A l \in Loops : loops[l] = NoLoop
  OBVIOUS
<1>2. TypeOK
  BY NoLoopFields, SchedulerAssumption DEF TypeOK
<1>3. LastIsScheduled
  BY <1>0, <1>1, NoLoopFields, LoopParts, FirstSlot DEF LastIsScheduled
<1>4. LoopsAreScheduled
  BY <1>0, <1>1, NoLoopFields DEF LoopsAreScheduled
<1>5. OneLoopPerLife
  BY <1>0 DEF OneLoopPerLife, LateLoops
<1>6. OnlyRunningExecutes /\ RunningIsTruthful
  BY <1>0 DEF OnlyRunningExecutes, RunningIsTruthful
<1> QED BY <1>2, <1>3, <1>4, <1>5, <1>6 DEF SchedulerInv
-----------------------------------------------------------------------------
(* One move of one run loop.                                               *)
LEMMA StepEffect ==
  ASSUME TypeOK, NEW l \in Loops, NEW pc \in LoopPcs, Step(l, pc)
  PROVE  /\ loops' \in [Loops -> LoopRecords]
         /\ loops'[l].pc = pc /\ loops'[l].cancelled = loops[l].cancelled
         /\ \A k \in Loops : k # l => loops'[k] = loops[k]
<1>1. loops \in [Loops -> LoopRecords] /\ loops[l] \in LoopRecords
  BY DEF TypeOK
<1> DEFINE r == [loops[l] EXCEPT !.pc = pc]
<1>2. r \in LoopRecords /\ r.pc = pc /\ r.cancelled = loops[l].cancelled
  BY <1>1 DEF LoopRecords
<1>3. loops' = [loops EXCEPT ![l] = r]
  BY <1>1 DEF Step
<1> HIDE DEF r
<1> QED BY <1>1, <1>2, <1>3

(* A loop that moves on keeps its id in running while it executes.         *)
Entry(l, pc) ==
  \/ running' = running /\ (pc \in Executing <=> loops[l].pc \in Executing)
  \/ running' = running \cup {l[1]} /\ pc \in Executing
  \/ running' = running \ {l[1]} /\ pc \notin Executing

LEMMA MoveInd ==
  ASSUME SchedulerInv, NEW l \in Loops, NEW pc \in LoopPcs \ {"none"}, Step(l, pc), Entry(l, pc),
         loops[l].pc \notin {"none", "done"}, hasResults' \subseteq enabled, faults' \in 0..MaxFaults,
         UNCHANGED <<enabled, lives, phase, syncPc, listed, started, timers>>
  PROVE  SchedulerInv'
<1> USE DEF SchedulerInv
<1> DEFINE m == l[1]
<1>0. /\ loops' \in [Loops -> LoopRecords]
      /\ loops'[l].pc = pc /\ loops'[l].cancelled = loops[l].cancelled
      /\ \A k \in Loops : k # l => loops'[k] = loops[k]
  BY StepEffect
<1>1. m \in Monitors /\ l[2] \in Slots /\ l = <<m, l[2]>>
  BY LoopParts
<1>2. running' \subseteq Monitors /\ running' \ {m} = running \ {m}
  BY <1>1 DEF TypeOK, Entry
<1>3. TypeOK'
  BY <1>0, <1>2 DEF TypeOK
<1>4. Scheduled' = Scheduled /\ Returned' = Returned
  BY DEF Scheduled, Returned
<1>5. LastIsScheduled'
  BY <1>0 DEF LastIsScheduled
<1>6. LoopsAreScheduled'
  <2>1. ASSUME NEW k \in Loops, loops'[k].pc \notin {"none", "done"}, ~loops'[k].cancelled
        PROVE  timers'[k[1]] = k[2]
    BY <1>0, <2>1 DEF LoopsAreScheduled
  <2>2. ASSUME NEW k \in Scheduled
        PROVE  loops'[<<k, timers[k]>>].pc # "none" /\ ~loops'[<<k, timers[k]>>].cancelled
    <3>1. loops[<<k, timers[k]>>].pc # "none" /\ ~loops[<<k, timers[k]>>].cancelled
      BY DEF LoopsAreScheduled
    <3>2. <<k, timers[k]>> \in Loops
      BY SchedulerAssumption DEF Scheduled, TypeOK, Loops
    <3> QED BY <1>0, <3>1, <3>2
  <2> QED BY <1>4, <2>1, <2>2 DEF LoopsAreScheduled
<1>7. OneLoopPerLife'
  BY <1>4 DEF OneLoopPerLife, LateLoops
<1>8. ASSUME phase # "stopped", NEW k \in Monitors \ Returned
      PROVE  /\ <<k, 1>> \in Loops /\ timers[k] \in {0, 1}
             /\ k = m => l = <<k, 1>>
             /\ k # m => loops'[<<k, 1>>] = loops[<<k, 1>>] /\ (k \in running' <=> k \in running)
  <2>1. <<k, 1>> \in Loops /\ timers[k] \in {0, 1}
    BY <1>8, LoopPair, FirstSlot, OnlyLoop
  <2>2. k = m => l = <<k, 1>>
    BY <1>1, <1>8, OnlyLoop
  <2>3. k # m => <<k, 1>> # l
    BY <1>1
  <2> QED BY <1>0, <1>2, <2>1, <2>2, <2>3
<1>9. OnlyRunningExecutes'
  <2> SUFFICES ASSUME phase # "stopped", NEW k \in Monitors \ Returned, k \in running'
               PROVE  loops'[<<k, 1>>].pc \in Executing
    BY <1>4 DEF OnlyRunningExecutes
  <2>1. k \in running => loops[<<k, 1>>].pc \in Executing
    BY DEF OnlyRunningExecutes
  <2>2. CASE k = m
    BY <1>0, <1>8, <2>1, <2>2 DEF Entry
  <2>3. CASE k # m
    BY <1>8, <2>1, <2>3
  <2> QED BY <2>2, <2>3
<1>10. RunningIsTruthful'
  <2> SUFFICES ASSUME phase # "stopped", NEW k \in Scheduled \ Returned
               PROVE  k \in running' <=> loops'[<<k, timers[k]>>].pc \in Executing
    BY <1>4 DEF RunningIsTruthful
  <2>1. k \in running <=> loops[<<k, timers[k]>>].pc \in Executing
    BY DEF RunningIsTruthful
  <2>2. k \in Monitors /\ timers[k] = 1
    BY <1>8 DEF Scheduled
  <2>3. CASE k = m
    BY <1>0, <1>8, <2>1, <2>2, <2>3 DEF Entry
  <2>4. CASE k # m
    BY <1>8, <2>1, <2>2, <2>4
  <2> QED BY <2>3, <2>4
<1> QED BY <1>3, <1>5, <1>6, <1>7, <1>9, <1>10

LEMMA FaultType ==
  ASSUME TypeOK, Fault \/ UNCHANGED faults
  PROVE  faults' \in 0..MaxFaults
BY SchedulerAssumption DEF TypeOK, Fault

LEMMA LoopStepInd ==
  ASSUME SchedulerInv, NEW l \in Loops, LoopStep(l)
  PROVE  SchedulerInv'
<1> USE DEF LoopPcs, Executing, Entry, LoopOnly, tables
<1>0. hasResults \subseteq enabled /\ TypeOK
  BY DEF SchedulerInv, TypeOK
<1>1. CASE BeginCheck(l)
  <2>1. faults' \in 0..MaxFaults
    BY <1>0, <1>1, FaultType DEF BeginCheck
  <2>2. CASE l[1] \in running
    BY <1>0, <1>1, <2>1, <2>2, MoveInd DEF BeginCheck
  <2>3. CASE l[1] \notin running
    BY <1>0, <1>1, <2>1, <2>3, MoveInd DEF BeginCheck
  <2> QED BY <2>2, <2>3
<1>2. CASE EndLoop(l)
  <2>1. faults' \in 0..MaxFaults
    BY <1>0, <1>2, FaultType DEF EndLoop
  <2> QED BY <1>0, <1>2, <2>1, MoveInd DEF EndLoop
<1>3. CASE Lookup(l)
  <2>1. faults' \in 0..MaxFaults
    BY <1>0, <1>3, FaultType DEF Lookup
  <2>2. CASE Step(l, "probe") /\ UNCHANGED running
    BY <1>0, <1>3, <2>1, <2>2, MoveInd DEF Lookup
  <2>3. CASE EndCheck(l)
    BY <1>0, <1>3, <2>1, <2>3, MoveInd DEF Lookup, EndCheck
  <2> QED BY <1>3, <2>2, <2>3 DEF Lookup
<1>4. CASE Probe(l)
  <2>1. faults' \in 0..MaxFaults
    BY <1>0, <1>4, FaultType DEF Probe
  <2> QED BY <1>0, <1>4, <2>1, MoveInd DEF Probe
<1>5. CASE Store(l)
  <2>1. hasResults' \subseteq enabled /\ faults' \in 0..MaxFaults
    BY <1>0, <1>5, FaultType DEF Store
  <2> QED BY <1>5, <2>1, MoveInd DEF Store
<1>6. CASE Callback(l)
  <2>1. faults' \in 0..MaxFaults
    BY <1>0, <1>6, FaultType DEF Callback
  <2> QED BY <1>0, <1>6, <2>1, MoveInd DEF Callback, EndCheck
<1> QED BY <1>1, <1>2, <1>3, <1>4, <1>5, <1>6 DEF LoopStep
-----------------------------------------------------------------------------
(* Everything but the loops and the maps: rows come and go, the list is    *)
(* read, the context is cancelled.                                         *)

(* What is kept when a row that is inserted has one life more.             *)
LEMMA MapsKept ==
  ASSUME SchedulerInv, TypeOK', UNCHANGED <<started, timers, running, loops>>,
         phase' # "stopped" => phase # "stopped",
         \A m \in Monitors : lives'[m] >= lives[m]
  PROVE  LastIsScheduled' /\ LoopsAreScheduled' /\ OnlyRunningExecutes' /\ RunningIsTruthful'
<1> USE DEF SchedulerInv
<1>1. Scheduled' = Scheduled
  BY DEF Scheduled
<1>2. Returned \subseteq Returned'
  BY SchedulerAssumption DEF Returned, TypeOK
<1>3. LastIsScheduled' /\ LoopsAreScheduled'
  BY <1>1 DEF LastIsScheduled, LoopsAreScheduled
<1>4. OnlyRunningExecutes'
  BY <1>2 DEF OnlyRunningExecutes
<1>5. RunningIsTruthful'
  BY <1>1, <1>2 DEF RunningIsTruthful
<1> QED BY <1>3, <1>4, <1>5

LEMMA CreateInd ==
  ASSUME SchedulerInv, NEW m \in Monitors, CreateMonitor(m)
  PROVE  SchedulerInv'
<1> USE DEF SchedulerInv, CreateMonitor, maps
<1>0. /\ lives' \in [Monitors -> 0..MaxLives] /\ lives'[m] = lives[m] + 1
      /\ \A k \in Monitors \ {m} : lives'[k] = lives[k]
      /\ \A k \in Monitors : lives[k] \in Nat /\ started[k] \in Nat
  BY SchedulerAssumption DEF TypeOK
<1>1. TypeOK'
  BY <1>0 DEF TypeOK
<1>2. \A k \in Monitors : lives'[k] >= lives[k]
  BY <1>0
<1>3. OneLoopPerLife'
  <2> SUFFICES ASSUME NEW k \in Monitors
               PROVE  /\ started[k] <= lives'[k] + LateLoops
                      /\ k \notin Scheduled /\ k \in enabled' \cup listed
                           => started[k] < lives'[k] + LateLoops
                      /\ syncPc = "listed" /\ k \in Scheduled \ listed /\ k \in enabled'
                           => started[k] < lives'[k] + LateLoops
    BY DEF OneLoopPerLife, LateLoops, Scheduled
  <2>0. LateLoops \in {0, 1}
    BY DEF LateLoops
  <2>1. CASE k = m
    <3>1. started[k] <= lives[k] + LateLoops
      BY DEF OneLoopPerLife
    <3> QED BY <1>0, <2>0, <2>1, <3>1
  <2>2. CASE k # m
    BY <1>0, <2>2 DEF OneLoopPerLife
  <2> QED BY <2>1, <2>2
<1> QED BY <1>1, <1>2, <1>3, MapsKept

LEMMA DeleteInd ==
  ASSUME SchedulerInv, NEW m \in Monitors, DeleteMonitor(m)
  PROVE  SchedulerInv'
<1> USE DEF SchedulerInv, DeleteMonitor, maps
<1>1. TypeOK'
  BY DEF TypeOK
<1>2. \A k \in Monitors : lives'[k] >= lives[k]
  BY SchedulerAssumption DEF TypeOK
<1>3. OneLoopPerLife'
  BY DEF OneLoopPerLife, LateLoops, Scheduled
<1> QED BY <1>1, <1>2, <1>3, MapsKept

LEMMA ListInd ==
  ASSUME SchedulerInv, ListEnabledMonitors \/ SyncLoopEnds
  PROVE  SchedulerInv'
<1> USE DEF SchedulerInv, ListEnabledMonitors, SyncLoopEnds, tables, maps
<1>0. faults' \in 0..MaxFaults
  BY FaultType
<1>1. TypeOK'
  BY <1>0 DEF TypeOK
<1>2. \A k \in Monitors : lives'[k] >= lives[k]
  BY SchedulerAssumption DEF TypeOK
<1>3. OneLoopPerLife'
  <2>1. \/ listed' = enabled
        \/ listed' = listed /\ syncPc' # "listed"
    OBVIOUS
  <2>2. UNCHANGED <<enabled, lives, phase, started, timers>>
    OBVIOUS
  <2> QED BY <2>1, <2>2 DEF OneLoopPerLife, LateLoops, Scheduled
<1> QED BY <1>1, <1>2, <1>3, MapsKept

LEMMA CancelInd ==
  ASSUME SchedulerInv, Cancel
  PROVE  SchedulerInv'
<1> USE DEF SchedulerInv, Cancel, tables, maps
<1>1. TypeOK'
  BY DEF TypeOK
<1>2. \A k \in Monitors : lives'[k] >= lives[k]
  BY SchedulerAssumption DEF TypeOK
<1>3. OneLoopPerLife'
  BY DEF OneLoopPerLife, LateLoops, Scheduled
<1> QED BY <1>1, <1>2, <1>3, MapsKept
-----------------------------------------------------------------------------
(* What startMonitor and stopMonitor make of the loops.                    *)
LEMMA RestartedEffect ==
  ASSUME TypeOK, NEW starts \in SUBSET Monitors, NEW stops \in SUBSET Scheduled,
         \A m \in starts : NextLoop(m) \in Slots,
         loops' = Restarted(starts, stops), starts \cap stops = {}
  PROVE  /\ loops' \in [Loops -> LoopRecords]
         /\ \A m \in starts : loops'[<<m, NextLoop(m)>>] = NewLoop
         /\ \A m \in stops : /\ loops'[<<m, timers[m]>>].cancelled
                             /\ loops'[<<m, timers[m]>>].pc = loops[<<m, timers[m]>>].pc
         /\ \A l \in Loops : ~(l[1] \in starts /\ l[2] = NextLoop(l[1]))
                             /\ ~(l[1] \in stops /\ l[2] = timers[l[1]])
                               => loops'[l] = loops[l]
<1>1. \A l \in Loops : loops[l] \in LoopRecords
  BY DEF TypeOK
<1>2. \A l \in Loops : /\ [loops[l] EXCEPT !.cancelled = TRUE] \in LoopRecords
                       /\ [loops[l] EXCEPT !.cancelled = TRUE].cancelled = TRUE
                       /\ [loops[l] EXCEPT !.cancelled = TRUE].pc = loops[l].pc
  <2>1. TRUE \in BOOLEAN
    OBVIOUS
  <2> QED BY <1>1, <2>1 DEF LoopRecords
<1>3. loops' \in [Loops -> LoopRecords]
  BY <1>1, <1>2, NoLoopFields DEF Restarted
<1>4. \A m \in starts : loops'[<<m, NextLoop(m)>>] = NewLoop
  BY LoopPair DEF Restarted
<1>5. \A m \in stops : m \in Monitors /\ timers[m] \in Slots /\ m \notin starts
  BY SchedulerAssumption DEF Scheduled, TypeOK, Slots
<1>6. \A m \in stops : <<m, timers[m]>> \in Loops
  BY <1>5, LoopPair
<1>7. \A m \in stops : loops'[<<m, timers[m]>>] = [loops[<<m, timers[m]>>] EXCEPT !.cancelled = TRUE]
  BY <1>5, LoopPair DEF Restarted
<1>8. \A m \in stops : /\ loops'[<<m, timers[m]>>].cancelled
                       /\ loops'[<<m, timers[m]>>].pc = loops[<<m, timers[m]>>].pc
  BY <1>2, <1>6, <1>7
<1>9. \A l \in Loops : ~(l[1] \in starts /\ l[2] = NextLoop(l[1]))
                       /\ ~(l[1] \in stops /\ l[2] = timers[l[1]]) => loops'[l] = loops[l]
  BY DEF Restarted
<1> QED BY <1>3, <1>4, <1>8, <1>9

(* The maps and the loops agree after any monitors without a timer were    *)
(* started and any with one were stopped.                                  *)
LEMMA RestartedIsScheduled ==
  ASSUME SchedulerInv, NEW starts \in SUBSET Monitors, NEW stops \in SUBSET Scheduled,
         \A m \in starts : NextLoop(m) \in Slots,
         starts \cap Scheduled = {}, loops' = Restarted(starts, stops),
         started' = Started(starts), timers' = Timers(starts, stops)
  PROVE  LoopsAreScheduled' /\ LastIsScheduled' /\ Scheduled' = (Scheduled \cup starts) \ stops
<1> USE DEF SchedulerInv, Started, Timers
<1>0. starts \cap stops = {} /\ \A m \in Monitors : started[m] \in Nat
  BY SchedulerAssumption DEF TypeOK
<1>1. /\ \A m \in starts : loops'[<<m, NextLoop(m)>>] = NewLoop
      /\ \A m \in stops : /\ loops'[<<m, timers[m]>>].cancelled
                          /\ loops'[<<m, timers[m]>>].pc = loops[<<m, timers[m]>>].pc
      /\ \A l \in Loops : ~(l[1] \in starts /\ l[2] = NextLoop(l[1]))
                          /\ ~(l[1] \in stops /\ l[2] = timers[l[1]]) => loops'[l] = loops[l]
  BY <1>0, RestartedEffect
<1>2. \A m \in starts : NextLoop(m) # 0 /\ timers[m] = 0
  BY FirstSlot DEF Scheduled
<1>3. Scheduled' = (Scheduled \cup starts) \ stops
  BY <1>0, <1>2 DEF Scheduled
<1>4. ASSUME NEW l \in Loops, loops'[l].pc \notin {"none", "done"}, ~loops'[l].cancelled
      PROVE  timers'[l[1]] = l[2]
  <2>0. l[1] \in Monitors /\ l[2] \in Slots /\ l = <<l[1], l[2]>> /\ l[2] # 0
    BY LoopParts, FirstSlot
  <2>1. CASE l[1] \in starts /\ l[2] = NextLoop(l[1])
    BY <2>0, <2>1
  <2>2. CASE l[1] \in starts /\ l[2] # NextLoop(l[1])
    <3>1. loops'[l] = loops[l]
      BY <1>0, <1>1, <2>0, <2>2
    <3>2. timers[l[1]] = l[2]
      BY <1>4, <3>1 DEF LoopsAreScheduled
    <3> QED BY <1>2, <2>0, <2>2, <3>2
  <2>3. CASE l[1] \in stops /\ l[2] = timers[l[1]]
    <3>1. loops'[<<l[1], timers[l[1]]>>].cancelled
      BY <1>1, <2>3
    <3> QED BY <1>4, <2>0, <2>3, <3>1
  <2>4. CASE l[1] \notin starts /\ ~(l[1] \in stops /\ l[2] = timers[l[1]])
    <3>1. timers[l[1]] = l[2]
      BY <1>1, <1>4, <2>4 DEF LoopsAreScheduled
    <3> QED BY <2>0, <2>4, <3>1
  <2> QED BY <2>1, <2>2, <2>3, <2>4
<1>5. ASSUME NEW m \in Scheduled'
      PROVE  loops'[<<m, timers'[m]>>].pc # "none" /\ ~loops'[<<m, timers'[m]>>].cancelled
  <2>1. CASE m \in starts
    <3>1. timers'[m] = NextLoop(m)
      BY <2>1
    <3> QED BY <1>1, <2>1, <3>1, NoLoopFields
  <2>2. CASE m \notin starts
    <3>1. m \in Scheduled /\ m \notin stops /\ m \in Monitors
      BY <1>3, <2>2 DEF Scheduled
    <3>2. timers'[m] = timers[m] /\ timers[m] \in Slots
      BY <2>2, <3>1, SchedulerAssumption DEF Scheduled, TypeOK, Slots
    <3>3. <<m, timers[m]>> \in Loops /\ <<m, timers[m]>>[1] = m
      BY <3>1, <3>2, LoopPair
    <3>4. loops'[<<m, timers[m]>>] = loops[<<m, timers[m]>>]
      BY <1>1, <2>2, <3>1, <3>3
    <3> QED BY <3>1, <3>2, <3>4 DEF LoopsAreScheduled
  <2> QED BY <2>1, <2>2
<1>6. \A m \in Monitors : timers'[m] \in {0, started'[m]}
  BY DEF LastIsScheduled
<1>7. ASSUME NEW l \in Loops
      PROVE  loops'[l].pc = "none" <=> l[2] > started'[l[1]]
  <2>0. /\ l[1] \in Monitors /\ l[2] \in Nat /\ l = <<l[1], l[2]>> /\ started[l[1]] \in Nat
        /\ loops[l].pc = "none" <=> l[2] > started[l[1]]
    BY <1>0, LoopParts, FirstSlot DEF LastIsScheduled
  <2>1. CASE l[1] \in starts
    <3>1. started'[l[1]] = started[l[1]] + 1 /\ NextLoop(l[1]) = started[l[1]] + 1
      BY <2>0, <2>1 DEF NextLoop
    <3>2. CASE l[2] = NextLoop(l[1])
      <4>1. loops'[l] = NewLoop
        BY <1>1, <2>0, <2>1, <3>2
      <4> QED BY <2>0, <3>1, <3>2, <4>1, NoLoopFields
    <3>3. CASE l[2] # NextLoop(l[1])
      <4>1. loops'[l] = loops[l]
        BY <1>0, <1>1, <2>1, <3>3
      <4> QED BY <2>0, <3>1, <3>3, <4>1
    <3> QED BY <3>2, <3>3
  <2>2. CASE l[1] \notin starts
    <3>1. started'[l[1]] = started[l[1]]
      BY <2>0, <2>2
    <3>2. loops'[l].pc = loops[l].pc
      <4>1. CASE l[1] \in stops /\ l[2] = timers[l[1]]
        BY <1>1, <2>0, <4>1
      <4>2. CASE ~(l[1] \in stops /\ l[2] = timers[l[1]])
        BY <1>1, <2>2, <4>2
      <4> QED BY <4>1, <4>2
    <3> QED BY <2>0, <3>1, <3>2
  <2> QED BY <2>1, <2>2
<1> QED BY <1>3, <1>4, <1>5, <1>6, <1>7 DEF LoopsAreScheduled, LastIsScheduled

LEMMA SyncInd ==
  ASSUME SchedulerInv, SyncMonitors
  PROVE  SchedulerInv'
<1> DEFINE starts == listed \ Scheduled
           stops == Scheduled \ listed
<1> USE DEF SchedulerInv
<1>0. /\ starts \in SUBSET Monitors /\ stops \in SUBSET Scheduled
      /\ starts \cap Scheduled = {} /\ starts \cap stops = {}
  BY DEF TypeOK
<1>1. /\ syncPc = "listed" /\ syncPc' = "waiting" /\ listed' = {}
      /\ started' = Started(starts) /\ timers' = Timers(starts, stops)
      /\ loops' = Restarted(starts, stops) /\ running' = running \ stops
      /\ UNCHANGED <<enabled, hasResults, lives, phase, faults>>
  BY DEF SyncMonitors, tables
<1>2. \A m \in Monitors : /\ started[m] \in Nat /\ lives[m] \in 0..MaxLives /\ timers[m] \in Nat
                          /\ LateLoops \in {0, 1} /\ LateLoops' = LateLoops
  BY <1>1, SchedulerAssumption DEF TypeOK, LateLoops
<1>3. \A m \in starts : m \in Monitors /\ m \in listed /\ m \notin Scheduled
  BY <1>0
<1>4. \A m \in stops : m \in Monitors /\ m \notin listed /\ m \in Scheduled
  BY DEF Scheduled
<1>5. \A m \in starts : started[m] < lives[m] + LateLoops /\ NextLoop(m) \in Slots
  <2> TAKE m \in starts
  <2>1. started[m] < lives[m] + LateLoops
    BY <1>3 DEF OneLoopPerLife
  <2> QED BY <1>2, <1>3, <2>1, SchedulerAssumption DEF NextLoop, Slots
<1>6. \A m \in Scheduled : m \in Monitors
  BY DEF Scheduled
<1>a. Scheduled \ stops \subseteq listed
  OBVIOUS
<1> HIDE DEF starts, stops
<1>7. LoopsAreScheduled' /\ LastIsScheduled' /\ Scheduled' = (Scheduled \cup starts) \ stops
  BY <1>0, <1>1, <1>5, RestartedIsScheduled
<1>8. /\ loops' \in [Loops -> LoopRecords]
      /\ \A m \in starts : loops'[<<m, NextLoop(m)>>] = NewLoop
      /\ \A m \in stops : loops'[<<m, timers[m]>>].pc = loops[<<m, timers[m]>>].pc
      /\ \A l \in Loops : ~(l[1] \in starts /\ l[2] = NextLoop(l[1]))
                          /\ ~(l[1] \in stops /\ l[2] = timers[l[1]]) => loops'[l] = loops[l]
  BY <1>0, <1>1, <1>5, RestartedEffect
<1>9. TypeOK'
  <2>1. \A m \in starts : NextLoop(m) \in 0..(MaxLives + 1)
    BY <1>5, FirstSlot
  <2>2. started' \in [Monitors -> 0..(MaxLives + 1)]
    BY <1>1, <2>1 DEF TypeOK, Started
  <2>3. timers' \in [Monitors -> 0..(MaxLives + 1)]
    BY <1>1, <2>1, FirstSlot, SchedulerAssumption DEF TypeOK, Timers
  <2> QED BY <1>1, <1>8, <2>2, <2>3 DEF TypeOK
<1>10. OneLoopPerLife'
  <2> SUFFICES ASSUME NEW m \in Monitors
               PROVE  /\ started'[m] <= lives[m] + LateLoops
                      /\ m \notin Scheduled' /\ m \in enabled => started'[m] < lives[m] + LateLoops
    BY <1>1, <1>2 DEF OneLoopPerLife
  <2>0. started'[m] = IF m \in starts THEN started[m] + 1 ELSE started[m]
    BY <1>1 DEF Started, NextLoop
  <2>1. CASE m \in starts
    <3>1. m \in Scheduled'
      BY <1>0, <1>7, <2>1
    <3> QED BY <1>2, <1>5, <2>0, <2>1, <3>1
  <2>2. CASE m \in stops
    <3>1. m \notin starts
      BY <1>0, <2>2
    <3> QED BY <1>1, <1>4, <2>0, <2>2, <3>1 DEF OneLoopPerLife
  <2>3. CASE m \notin starts /\ m \notin stops
    <3>1. m \in Scheduled' <=> m \in Scheduled
      BY <1>7, <2>3
    <3> QED BY <2>0, <2>3, <3>1 DEF OneLoopPerLife
  <2> QED BY <2>1, <2>2, <2>3
<1>11. ASSUME phase # "stopped", NEW m \in Monitors \ Returned
       PROVE  /\ m \in starts => /\ NextLoop(m) = 1 /\ m \notin running
                                 /\ timers'[m] = 1 /\ loops'[<<m, 1>>].pc = "starting"
              /\ m \notin starts => loops'[<<m, 1>>].pc = loops[<<m, 1>>].pc
  <2>1. /\ started[m] \in {0, 1} /\ timers[m] \in {0, 1}
        /\ <<m, 1>> \in Loops /\ <<m, 1>>[1] = m /\ <<m, 1>>[2] = 1
    BY <1>11, OnlyLoop, LoopPair, FirstSlot
  <2>2. CASE m \in starts
    <3>1. ~(lives[m] > 1) /\ LateLoops = 0
      BY <1>11 DEF Returned, LateLoops
    <3>2. started[m] = 0
      BY <1>2, <1>5, <2>2, <3>1
    <3>3. NextLoop(m) = 1
      BY <3>2 DEF NextLoop
    <3>4. loops[<<m, 1>>].pc = "none"
      BY <2>1, <3>2 DEF LastIsScheduled
    <3>5. m \notin running
      BY <1>11, <3>4 DEF OnlyRunningExecutes, Executing
    <3>6. timers'[m] = 1
      BY <1>1, <2>2, <3>3 DEF Timers
    <3>7. loops'[<<m, 1>>] = NewLoop
      BY <1>8, <2>2, <3>3
    <3> QED BY <2>2, <3>3, <3>5, <3>6, <3>7, NoLoopFields
  <2>3. CASE m \in stops
    <3>1. timers[m] = 1 /\ m \notin starts
      BY <1>0, <1>4, <2>1, <2>3 DEF Scheduled
    <3> QED BY <1>8, <2>3, <3>1
  <2>4. CASE m \notin starts /\ m \notin stops
    <3>1. loops'[<<m, 1>>] = loops[<<m, 1>>]
      BY <1>8, <2>1, <2>4
    <3> QED BY <2>4, <3>1
  <2> QED BY <2>2, <2>3, <2>4
<1>12. Returned' = Returned
  BY <1>1 DEF Returned
<1>13. OnlyRunningExecutes'
  <2> SUFFICES ASSUME phase # "stopped", NEW m \in Monitors \ Returned, m \in running'
               PROVE  loops'[<<m, 1>>].pc \in Executing
    BY <1>1, <1>12 DEF OnlyRunningExecutes
  <2>1. m \in running /\ m \notin starts
    BY <1>1, <1>11
  <2> QED BY <1>11, <2>1 DEF OnlyRunningExecutes
<1>14. RunningIsTruthful'
  <2> SUFFICES ASSUME phase # "stopped", NEW m \in Scheduled' \ Returned
               PROVE  m \in running' <=> loops'[<<m, timers'[m]>>].pc \in Executing
    BY <1>1, <1>12 DEF RunningIsTruthful
  <2>0. m \in Monitors /\ m \notin stops
    BY <1>7 DEF Scheduled
  <2>1. CASE m \in starts
    BY <1>1, <1>11, <2>0, <2>1 DEF Executing
  <2>2. CASE m \notin starts
    <3>1. m \in Scheduled /\ timers'[m] = timers[m]
      BY <1>1, <1>7, <2>0, <2>2 DEF Timers
    <3>2. timers[m] = 1
      BY <2>0, <3>1, OnlyLoop DEF Scheduled
    <3>3. m \in running <=> loops[<<m, timers[m]>>].pc \in Executing
      BY <3>1 DEF RunningIsTruthful
    <3> QED BY <1>1, <1>11, <2>0, <2>2, <3>1, <3>2, <3>3
  <2> QED BY <2>1, <2>2
<1> QED BY <1>7, <1>9, <1>10, <1>13, <1>14

LEMMA StopInd ==
  ASSUME SchedulerInv, Stop
  PROVE  SchedulerInv'
<1> USE DEF SchedulerInv
<1>0. {} \in SUBSET Monitors /\ Scheduled \in SUBSET Scheduled /\ {} \cap Scheduled = {}
  OBVIOUS
<1>1. timers' = Timers({}, Scheduled) /\ started' = Started({})
  <2>1. timers' = [m \in Monitors |-> 0]
    BY DEF Stop
  <2>2. \A m \in Monitors : Timers({}, Scheduled)[m] = 0
    BY DEF Timers, Scheduled
  <2>3. Timers({}, Scheduled) = [m \in Monitors |-> 0]
    BY <2>2 DEF Timers
  <2>4. started' = started /\ Started({}) = started
    BY DEF Stop, Started, TypeOK
  <2> QED BY <2>1, <2>3, <2>4
<1>2. loops' = Restarted({}, Scheduled)
  BY DEF Stop
<1>3. LoopsAreScheduled' /\ LastIsScheduled' /\ Scheduled' = (Scheduled \cup {}) \ Scheduled
  BY <1>0, <1>1, <1>2, RestartedIsScheduled
<1>4. loops' \in [Loops -> LoopRecords]
  BY <1>0, <1>2, RestartedEffect
<1>5. TypeOK'
  BY <1>4, SchedulerAssumption DEF Stop, tables, TypeOK
<1>6. OneLoopPerLife'
  <2>1. LateLoops = 0 /\ LateLoops' = 1
    BY DEF LateLoops, Stop
  <2>2. \A m \in Monitors : started[m] \in Nat /\ lives[m] \in Nat
    BY SchedulerAssumption DEF TypeOK
  <2>3. UNCHANGED <<started, lives>>
    BY DEF Stop, tables
  <2> QED BY <2>1, <2>2, <2>3 DEF OneLoopPerLife
<1>7. OnlyRunningExecutes' /\ RunningIsTruthful'
  BY DEF Stop, OnlyRunningExecutes, RunningIsTruthful
<1> QED BY <1>3, <1>5, <1>6, <1>7

LEMMA RestartInd ==
  ASSUME SchedulerInv, Restart
  PROVE  SchedulerInv'
<1> USE DEF SchedulerInv, Restart
<1>0. /\ Scheduled' = {} /\ LateLoops' = 0
      /\ \A m \in Monitors : started'[m] = 0 /\ timers'[m] = 0
                             /\ lives'[m] = IF m \in enabled THEN 1 ELSE 0
  BY DEF Scheduled, LateLoops
<1>1. \A l \in Loops : loops'[l] = NoLoop
  OBVIOUS
<1>2. TypeOK'
  <2>1. 0 \in 0..MaxLives /\ 1 \in 0..MaxLives /\ 0 \in 0..(MaxLives + 1)
    BY SchedulerAssumption
  <2> QED BY <2>1, NoLoopFields DEF TypeOK
<1>3. LastIsScheduled'
  BY <1>0, <1>1, NoLoopFields, LoopParts, FirstSlot DEF LastIsScheduled
<1>4. LoopsAreScheduled'
  BY <1>0, <1>1, NoLoopFields DEF LoopsAreScheduled
<1>5. OneLoopPerLife'
  BY <1>0 DEF OneLoopPerLife
<1>6. OnlyRunningExecutes' /\ RunningIsTruthful'
  BY <1>0 DEF OnlyRunningExecutes, RunningIsTruthful
<1> QED BY <1>2, <1>3, <1>4, <1>5, <1>6
-----------------------------------------------------------------------------
(* Every step keeps the invariant.                                         *)
LEMMA StepInd ==
  ASSUME SchedulerInv, [Next]_vars
  PROVE  SchedulerInv'
<1>1. CASE UNCHANGED vars
  <2> USE <1>1 DEF SchedulerInv, vars
  <2>1. TypeOK' /\ \A k \in Monitors : lives'[k] >= lives[k]
    BY SchedulerAssumption DEF TypeOK
  <2>2. OneLoopPerLife'
    BY DEF OneLoopPerLife, LateLoops, Scheduled
  <2> QED BY <2>1, <2>2, MapsKept
<1>2. CASE Next
  BY <1>2, CreateInd, DeleteInd, ListInd, CancelInd, SyncInd, StopInd, RestartInd, LoopStepInd
  DEF Next, Sync
<1> QED BY <1>1, <1>2

LEMMA Invariance == Spec => []SchedulerInv
<1>1. SchedulerInv /\ [Next]_vars => SchedulerInv'
  BY StepInd
<1> QED BY InitInd, <1>1, PTL DEF Spec

(* The variables of the module keep their types, for any monitors.         *)
THEOREM TypeCorrect == Spec => []TypeOK
<1>1. SchedulerInv => TypeOK
  BY DEF SchedulerInv
<1> QED BY <1>1, Invariance, PTL

(* scheduler.go, startMonitor and stopMonitor: no run loop is lost from    *)
(* the maps, for any monitors, ids that come back, Stop and a late list    *)
(* included.                                                               *)
THEOREM EveryLoopIsScheduled == Spec => []LoopsAreScheduled
<1>1. SchedulerInv => LoopsAreScheduled
  BY DEF SchedulerInv
<1> QED BY <1>1, Invariance, PTL

(* scheduler.go, executeCheck: checks of one monitor do not overlap while  *)
(* the process is up, unless its row was deleted and came back meanwhile.  *)
THEOREM ChecksDoNotOverlap == Spec => []NoOverlapWhileUp
<1>1. SchedulerInv => NoOverlapWhileUp
  <2> SUFFICES ASSUME SchedulerInv, phase # "stopped", NEW m \in Monitors \ Returned
               PROVE  ~Overlap(m)
    BY DEF NoOverlapWhileUp
  <2>1. \A i \in Slots : loops[<<m, i>>].pc # "none" => i = 1
    BY OnlyLoop DEF SchedulerInv
  <2> QED BY <2>1 DEF Overlap, Executing, Slots
<1> QED BY <1>1, Invariance, PTL

(* scheduler.go, executeCheck: an entry in running never outlives the      *)
(* check, so that no scheduled monitor is skipped for good, with the same  *)
(* exception.                                                              *)
THEOREM RunningTellsTheTruth == Spec => []RunningIsTruthful
<1>1. SchedulerInv => RunningIsTruthful
  BY DEF SchedulerInv
<1> QED BY <1>1, Invariance, PTL

(* scheduler.go, executeCheck: "Skip if previous check still running".     *)
(* Until Stop it never comes to that for a monitor whose row did not come  *)
(* back: it has one run loop, which executes one check at a time, so every *)
(* check it begins goes ahead.                                             *)
ChecksAreNotSkipped ==
  [][\A l \in Loops : phase # "stopped" /\ l[1] \notin Returned /\ BeginCheck(l)
                        => loops'[l].pc = "lookup"]_vars

THEOREM NoCheckIsSkipped == Spec => ChecksAreNotSkipped
<1>1. ASSUME SchedulerInv, NEW l \in Loops, phase # "stopped", l[1] \notin Returned, BeginCheck(l)
      PROVE  loops'[l].pc = "lookup"
  <2>1. loops[l].pc \in {"starting", "waiting"} /\ TypeOK
    BY <1>1 DEF BeginCheck, SchedulerInv
  <2>2. l[1] \in Monitors \ Returned /\ l = <<l[1], 1>>
    BY <1>1, <2>1, LoopParts, OnlyLoop DEF SchedulerInv
  <2>3. l[1] \notin running
    BY <1>1, <2>1, <2>2 DEF SchedulerInv, OnlyRunningExecutes, Executing
  <2>4. Step(l, "lookup")
    BY <1>1, <2>3 DEF BeginCheck
  <2> QED BY <2>1, <2>4, StepEffect DEF LoopPcs
<1>2. SchedulerInv =>
        [\A l \in Loops : phase # "stopped" /\ l[1] \notin Returned /\ BeginCheck(l)
                            => loops'[l].pc = "lookup"]_vars
  BY <1>1
<1> QED BY <1>2, Invariance, PTL DEF ChecksAreNotSkipped

(* SyncMonitors, Stop: a process starts one run loop for every time a      *)
(* monitor's row was inserted, and one more if a list read earlier is      *)
(* applied after Stop, however long its sync loop goes on after that.  So  *)
(* that many checks of a monitor whose id came back run at a time at most. *)
LoopsArePaidFor ==
  \A m \in Monitors :
    /\ started[m] <= lives[m] + (IF phase = "stopped" THEN 1 ELSE 0)
    /\ \A i \in 1..(MaxLives + 1) : loops[<<m, i>>].pc \in Executing => i <= started[m]

THEOREM OneLoopForEachLife == Spec => []LoopsArePaidFor
<1>1. SchedulerInv => LoopsArePaidFor
  <2> SUFFICES ASSUME SchedulerInv, NEW m \in Monitors
               PROVE  /\ started[m] <= lives[m] + (IF phase = "stopped" THEN 1 ELSE 0)
                      /\ \A i \in Slots : loops[<<m, i>>].pc \in Executing => i <= started[m]
    BY DEF LoopsArePaidFor, Slots
  <2>1. started[m] <= lives[m] + (IF phase = "stopped" THEN 1 ELSE 0)
    BY DEF SchedulerInv, OneLoopPerLife, LateLoops
  <2>2. ASSUME NEW i \in Slots, loops[<<m, i>>].pc \in Executing
        PROVE  i <= started[m]
    <3>1. started[m] \in Nat /\ i \in Nat
      BY SchedulerAssumption, FirstSlot DEF SchedulerInv, TypeOK
    <3>2. ~(i > started[m])
      BY <2>2, LoopPair DEF SchedulerInv, LastIsScheduled, Executing
    <3> QED BY <3>1, <3>2
  <2> QED BY <2>1, <2>2
<1> QED BY <1>1, Invariance, PTL
=============================================================================
