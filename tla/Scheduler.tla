------------------------------ MODULE Scheduler ------------------------------
(***************************************************************************)
(* The check scheduler of one agent (src/internal/agent/scheduler.go) with *)
(* the goroutine that keeps it in step with the monitors table (syncLoop   *)
(* in src/internal/agent/agent.go) and the shutdown of the process         *)
(* (src/internal/cli/agent.go).                                            *)
(*                                                                         *)
(* Every started monitor has a goroutine of its own, a run loop, that      *)
(* waits for its ticker and executes checks; timers, cancels and running   *)
(* are shared under one mutex, so each critical section is one action.     *)
(* No handler ever disables a monitor: it is enabled from its creation to  *)
(* its deletion, which the foreign key of check_results refuses once a     *)
(* result is stored.  A node deletes a row when its own API is asked to,   *)
(* and the next config sync inserts the same id again: a monitor may have  *)
(* several lives on a node.                                                *)
(***************************************************************************)
EXTENDS Integers, FiniteSets

CONSTANTS
  Monitors,
  Registered,  \* those of a check type that has a checker
  MaxLives,    \* bound on how often the rows of any two monitors, or of one,
               \* are inserted while a process runs
  MaxFaults    \* bound on failed queries

ASSUME SchedulerAssumption ==
  /\ Registered \subseteq Monitors
  /\ MaxLives \in Nat \ {0} /\ MaxFaults \in Nat

VARIABLES
  enabled,     \* rows of the monitors table of this node
  hasResults,  \* monitors that check_results refers to
  lives,       \* history: how often a row was inserted since the process
               \* started, or was there then
  phase,       \* "up", "cancelled" (the context is), "stopped" (Stop is done)
  syncPc,      \* syncLoop: "waiting", "listed" or "done"
  listed,      \* the list syncMonitors read before it took the mutex
  started,     \* how many run loops a monitor has been given
  timers,      \* s.timers and s.cancels: which of the run loops started for
               \* a monitor is scheduled, 0 if none
  running,     \* s.running: ids whose entry is true
  loops,       \* the run loops
  faults

vars == <<enabled, hasResults, lives, phase, syncPc, listed, started, timers, running, loops, faults>>
tables == <<enabled, hasResults, lives>>
maps == <<started, timers, running, loops>>

(* One run loop for every life of a monitor, and one more when the list    *)
(* that syncMonitors read reaches SyncMonitors only after Stop.            *)
Loops == Monitors \X (1..(MaxLives + 1))
LoopPcs == {"none", "starting", "waiting", "lookup", "probe", "store", "callback", "done"}
Executing == {"lookup", "probe", "store", "callback"}
LoopRecords == [pc : LoopPcs, cancelled : BOOLEAN]

TypeOK ==
  /\ enabled \subseteq Monitors /\ hasResults \subseteq enabled
  /\ lives \in [Monitors -> 0..MaxLives]
  /\ phase \in {"up", "cancelled", "stopped"}
  /\ syncPc \in {"waiting", "listed", "done"} /\ listed \subseteq Monitors
  /\ started \in [Monitors -> 0..(MaxLives + 1)] /\ timers \in [Monitors -> 0..(MaxLives + 1)]
  /\ running \subseteq Monitors /\ loops \in [Loops -> LoopRecords]
  /\ faults \in 0..MaxFaults

NoLoop == [pc |-> "none", cancelled |-> FALSE]
NewLoop == [pc |-> "starting", cancelled |-> FALSE]
Fault == faults < MaxFaults /\ faults' = faults + 1

Init ==
  /\ enabled = {} /\ hasResults = {} /\ lives = [m \in Monitors |-> 0]
  /\ phase = "up" /\ syncPc = "waiting" /\ listed = {}
  /\ started = [m \in Monitors |-> 0] /\ timers = [m \in Monitors |-> 0] /\ running = {}
  /\ loops = [l \in Loops |-> NoLoop] /\ faults = 0

Scheduled == {m \in Monitors : timers[m] # 0}

(* Monitors that were deleted and came back since the process started.     *)
Returned == {m \in Monitors : lives[m] > 1}
-----------------------------------------------------------------------------
(* The monitors table, changed by the API or by config sync.               *)

CreateMonitor(m) ==
  /\ m \notin enabled
  /\ lives[m] < MaxLives /\ \A k \in Monitors \ {m} : lives[k] + lives[m] < MaxLives
  /\ enabled' = enabled \cup {m} /\ lives' = [lives EXCEPT ![m] = lives[m] + 1]
  /\ UNCHANGED <<hasResults, phase, syncPc, listed, maps, faults>>

DeleteMonitor(m) ==
  /\ m \in enabled \ hasResults
  /\ enabled' = enabled \ {m}
  /\ UNCHANGED <<hasResults, lives, phase, syncPc, listed, maps, faults>>
-----------------------------------------------------------------------------
(* syncMonitors reads the list, or fails to and waits for the next tick;   *)
(* with the context cancelled syncLoop may still take a pending tick       *)
(* before it sees it.                                                      *)
ListEnabledMonitors ==
  /\ syncPc = "waiting"
  /\ \/ syncPc' = "listed" /\ listed' = enabled /\ UNCHANGED faults
     \/ Fault /\ UNCHANGED <<syncPc, listed>>
  /\ UNCHANGED <<tables, phase, maps>>

(* startMonitor and stopMonitor, for a set of monitors: a loop is started  *)
(* with a context of its own, or its context is cancelled.                 *)
NextLoop(m) == started[m] + 1
Started(starts) == [m \in Monitors |-> IF m \in starts THEN NextLoop(m) ELSE started[m]]
Timers(starts, stops) ==
  [m \in Monitors |-> IF m \in starts THEN NextLoop(m) ELSE IF m \in stops THEN 0 ELSE timers[m]]
Restarted(starts, stops) ==
  [l \in Loops |->
     IF l[1] \in starts /\ l[2] = NextLoop(l[1]) THEN NewLoop
     ELSE IF l[1] \in stops /\ l[2] = timers[l[1]] THEN [loops[l] EXCEPT !.cancelled = TRUE]
     ELSE loops[l]]

(* Mutant: every listed monitor is started.                                *)
SyncMonitors_All ==
  /\ syncPc = "listed"
  /\ LET starts == listed
         stops == Scheduled \ listed IN
     /\ started' = Started(starts) /\ timers' = Timers(starts, stops)
     /\ loops' = Restarted(starts, stops)
     /\ running' = running \ stops
  /\ syncPc' = "waiting" /\ listed' = {}
  /\ UNCHANGED <<tables, phase, faults>>

(* SyncMonitors starts what is listed and not scheduled, and stops what is *)
(* scheduled and not listed.                                               *)
SyncMonitors ==
  /\ syncPc = "listed"
  /\ LET starts == listed \ Scheduled
         stops == Scheduled \ listed IN
     /\ started' = Started(starts) /\ timers' = Timers(starts, stops)
     /\ loops' = Restarted(starts, stops)
     /\ running' = running \ stops
  /\ syncPc' = "waiting" /\ listed' = {}
  /\ UNCHANGED <<tables, phase, faults>>

SyncLoopEnds ==
  /\ syncPc = "waiting" /\ phase # "up"
  /\ syncPc' = "done"
  /\ UNCHANGED <<tables, phase, listed, maps, faults>>

(* A signal cancels the context.                                           *)
Cancel ==
  /\ phase = "up"
  /\ phase' = "cancelled"
  /\ UNCHANGED <<tables, syncPc, listed, maps, faults>>

(* Stop, called by Run.                                                    *)
Stop ==
  /\ phase = "cancelled"
  /\ phase' = "stopped"
  /\ loops' = Restarted({}, Scheduled)
  /\ timers' = [m \in Monitors |-> 0]
  /\ running' = running \ Scheduled
  /\ UNCHANGED <<tables, syncPc, listed, started, faults>>

(* Run has returned: the process ends, with whatever still runs, and is    *)
(* started again.                                                          *)
Restart ==
  /\ phase = "stopped"
  /\ phase' = "up" /\ syncPc' = "waiting" /\ listed' = {}
  /\ started' = [m \in Monitors |-> 0] /\ timers' = [m \in Monitors |-> 0] /\ running' = {}
  /\ loops' = [l \in Loops |-> NoLoop]
  /\ lives' = [m \in Monitors |-> IF m \in enabled THEN 1 ELSE 0]
  /\ UNCHANGED <<enabled, hasResults, faults>>
-----------------------------------------------------------------------------
(* One run loop.  It executes a check at once, then one per tick; its      *)
(* ticker was stopped before its context was cancelled, so that a loop     *)
(* that waits and is cancelled has nothing to do but to end.               *)

Step(l, pc) == loops' = [loops EXCEPT ![l].pc = pc]
LoopOnly == UNCHANGED <<tables, phase, syncPc, listed, started, timers>>

BeginCheck(l) ==
  LET m == l[1] IN
  /\ loops[l].pc = "starting" \/ (loops[l].pc = "waiting" /\ ~loops[l].cancelled)
  /\ IF m \in running
     THEN Step(l, "waiting") /\ UNCHANGED running
     ELSE Step(l, "lookup") /\ running' = running \cup {m}
  /\ LoopOnly /\ UNCHANGED faults

(* Mutant: a run loop watches the context of the process.                  *)
EndLoop_Process(l) ==
  /\ loops[l].pc = "waiting" /\ phase # "up"
  /\ Step(l, "done")
  /\ UNCHANGED <<running, faults>> /\ LoopOnly

EndLoop(l) ==
  /\ loops[l].pc = "waiting" /\ loops[l].cancelled
  /\ Step(l, "done")
  /\ UNCHANGED <<running, faults>> /\ LoopOnly

(* Mutant: the entry in running is not cleared.                            *)
EndCheck_Running(l) ==
  /\ Step(l, "waiting")
  /\ UNCHANGED running

(* The deferred function of executeCheck.                                  *)
EndCheck(l) ==
  /\ Step(l, "waiting")
  /\ running' = running \ {l[1]}

(* GetMonitor and checker.Get: the query may fail, the row may be gone by  *)
(* now, and there may be no checker for the monitor's type, which the API  *)
(* does not look at.                                                       *)
Lookup(l) ==
  /\ loops[l].pc = "lookup"
  /\ \/ l[1] \in enabled \cap Registered /\ Step(l, "probe") /\ UNCHANGED <<running, faults>>
     \/ l[1] \notin enabled \cap Registered /\ EndCheck(l) /\ UNCHANGED faults
     \/ Fault /\ EndCheck(l)
  /\ LoopOnly

(* The attempts of a check, under one timeout.  Its context is cancelled   *)
(* with the loop's, but a ping that resolves its name and a DNS read that  *)
(* waits do not look at it.                                                *)
Probe(l) ==
  /\ loops[l].pc = "probe"
  /\ Step(l, "store")
  /\ UNCHANGED <<running, faults>> /\ LoopOnly

(* InsertCheckResult: without the row of the monitor the INSERT fails, and *)
(* the result is handed to the callback all the same.                      *)
Store(l) ==
  /\ loops[l].pc = "store"
  /\ \/ hasResults' = hasResults \cup ({l[1]} \cap enabled) /\ UNCHANGED faults
     \/ Fault /\ UNCHANGED hasResults
  /\ Step(l, "callback")
  /\ UNCHANGED <<enabled, lives, phase, syncPc, listed, started, timers, running>>

Callback(l) ==
  /\ loops[l].pc = "callback"
  /\ EndCheck(l)
  /\ LoopOnly /\ UNCHANGED faults
-----------------------------------------------------------------------------
LoopStep(l) ==
  BeginCheck(l) \/ EndLoop(l) \/ Lookup(l) \/ Probe(l) \/ Store(l) \/ Callback(l)

Sync == ListEnabledMonitors \/ SyncMonitors \/ SyncLoopEnds

Next ==
  \/ \E m \in Monitors : CreateMonitor(m) \/ DeleteMonitor(m)
  \/ Sync \/ Cancel \/ Stop \/ Restart
  \/ \E l \in Loops : LoopStep(l)

Spec == Init /\ [][Next]_vars

(* Tickers tick and goroutines are scheduled; checks end (every attempt    *)
(* runs under a timeout) and so do pushes (the client's is 10 s).          *)
FairSpec ==
  /\ Spec /\ WF_vars(Sync) /\ WF_vars(Stop)
  /\ \A l \in Loops : WF_vars(LoopStep(l))
-----------------------------------------------------------------------------
(* Properties.                                                             *)

(* The maps and the goroutines agree: a loop that is not cancelled is the  *)
(* one its monitor's timer belongs to, and every timer has such a loop.    *)
(* A loop forgotten by the maps could never be stopped.                    *)
LoopsAreScheduled ==
  /\ \A l \in Loops : loops[l].pc \notin {"none", "done"} /\ ~loops[l].cancelled
                       => timers[l[1]] = l[2]
  /\ \A m \in Scheduled : loops[<<m, timers[m]>>].pc # "none" /\ ~loops[<<m, timers[m]>>].cancelled

(* Until the process is told to stop, no two checks of one monitor run at  *)
(* a time, whatever is created and deleted while checks run and whatever   *)
(* list SyncMonitors works from.  This is not so for a monitor whose id    *)
(* came back: stopMonitor deletes its entry in running although a check of *)
(* the old loop still executes, and the new loop begins another beside it. *)
Overlap(m) ==
  \E i, j \in 1..(MaxLives + 1) :
    i # j /\ loops[<<m, i>>].pc \in Executing /\ loops[<<m, j>>].pc \in Executing
NoOverlapWhileUp == phase # "stopped" => \A m \in Monitors \ Returned : ~Overlap(m)

(* Until then the entry of a scheduled monitor in running says whether its *)
(* check is executing: it never stays behind, which would skip every later *)
(* check of the monitor.  (Of a monitor whose id came back the old check   *)
(* clears the entry of the new one when it ends.)                          *)
RunningIsTruthful ==
  phase # "stopped" =>
    \A m \in Scheduled \ Returned : m \in running <=> loops[<<m, timers[m]>>].pc \in Executing

(* A monitor that exists, and has a checker, is checked again and again,   *)
(* one whose id came back included: no entry in running stays for good.    *)
MonitorsAreChecked ==
  \A m \in Registered :
    <>[](m \in enabled /\ phase = "up")
      => []<>(\E i \in 1..(MaxLives + 1) : loops[<<m, i>>].pc = "store")

(* A loop whose monitor was stopped ends; it does not linger with a ticker *)
(* or a check.                                                             *)
CancelledLoopsEnd ==
  \A l \in Loops : loops[l].cancelled ~> loops[l].pc \in {"done", "none"}
=============================================================================
