------------------------------ MODULE Checking ------------------------------
(***************************************************************************)
(* The checks of one monitor by one agent, from the attempts to the rows   *)
(* the coordinator counts: executeCheck (src/internal/agent/scheduler.go), *)
(* the callback that pushes a result (src/internal/agent/agent.go), the    *)
(* peer client (src/internal/cluster/peer_client.go) and handlePeerResult  *)
(* (src/internal/api/peer_handlers.go).  Scheduler says when checks are    *)
(* executed; here is what one does.                                        *)
(*                                                                         *)
(* An attempt is one action: a shutdown while it waits is as good as one   *)
(* before it, which the context cancelled, or (a DNS exchange, the name of *)
(* an ICMP target) one after it.                                           *)
(***************************************************************************)
EXTENDS Checkers, QuorumRule

CONSTANTS
  Configs,      \* rows of monitors the instance looks at
  Answers,      \* what the target may answer
  Timeout,      \* timeout_ms, in the units of a delay
  Threshold,    \* failure_threshold and recovery_threshold
  ResultLimit,  \* LIMIT of the counting queries (100 in the code)
  MaxFaults     \* bound on shutdowns, failed queries, and pushes lost or
                \* given up, together

ASSUME CheckingAssumption ==
  /\ Timeout \in Nat \ {0} /\ ResultLimit \in Nat \ {0} /\ MaxFaults \in Nat
  /\ Threshold \in 1..ResultLimit
  /\ \A a \in Answers : a.delay \in Nat \ {0}

(* A monitor that asks for something the checkers look at: not a negative  *)
(* expected_status, which every code satisfies, nor an answer to a query   *)
(* the DNS checker never makes.                                            *)
ASSUME ConfigsAssumption ==
  \A m \in Configs : /\ m.retries \in Int /\ m.status \in Nat
                     /\ m.type = "dns" /\ m.expected => m.record = RecordType(m)

VARIABLES
  mon,       \* the row of the monitor
  remote,    \* the agent is not the coordinator's
  target,    \* what the target answers
  phase,     \* "up", or "stopping" when the context is cancelled
  pc,        \* "waiting", "probe", "store" or "push"
  attempts,  \* attempts made
  left,      \* time left to the deadline of the check
  last,      \* status of lastResult
  made,      \* the results so far, the newest first: [status, own, at], whether
             \* it is in the agent's database, and where it is on its way to the
             \* coordinator's: "node", "wire", "table" or "lost"
  table,     \* the coordinator's window of this monitor and node
  faults,
  spent, met, excused
             \* history of the check: how long it has taken, whether an attempt
             \* got all the monitor asks for, and whether one was cancelled or
             \* found the target unable to give it within the timeout

checkVars == <<pc, attempts, left, last, spent, met, excused>>
vars == <<mon, remote, target, phase, made, table, faults, checkVars>>

Statuses == {"up", "degraded", "down"}
(* Older results than these are behind a full window wherever they arrive. *)
MaxMade == ResultLimit + MaxFaults + 1
Newest(s, n) == SubSeq(s, 1, IF Len(s) < n THEN Len(s) ELSE n)
Fault == faults < MaxFaults /\ faults' = faults + 1

Init ==
  /\ mon \in Configs /\ remote \in BOOLEAN /\ target \in Answers
  /\ phase = "up" /\ pc = "waiting" /\ attempts = 0 /\ left = 0 /\ last = "down"
  /\ made = << >> /\ table = << >> /\ faults = 0
  /\ spent = 0 /\ met = FALSE /\ excused = FALSE

(* All the monitor asks for, as its columns are documented.                *)
Meets(m, a) ==
  /\ Reached(a)
  /\ m.type = "https" => ~a.expiring
  /\ m.type \in {"http", "https"} => a.code = m.status \/ (m.status = 0 /\ a.code < 400)
  /\ m.type = "http_keyword" =>
       a.kind = "reply" /\ a.code < 400 /\ (m.keyword = "" \/ m.keyword \in a.words)
  /\ m.type = "dns" =>
       a.rcode /\ (m.expected => \E t \in AnswerTypes : <<m.record, t>> \in a.records)
-----------------------------------------------------------------------------
ChangeTarget(a) ==
  /\ target' = a
  /\ UNCHANGED <<mon, remote, phase, made, table, faults, checkVars>>

(* A check begins.  For a type that is not registered it ends at once.     *)
Begin ==
  /\ pc = "waiting" /\ phase = "up" /\ mon.type \in CheckTypes
  /\ pc' = "probe" /\ attempts' = 0 /\ left' = Timeout /\ last' = "down"
  /\ spent' = 0 /\ met' = FALSE /\ excused' = FALSE
  /\ UNCHANGED <<mon, remote, target, phase, made, table, faults>>

MaxAttempts == IF mon.retries < 1 THEN 1 ELSE mon.retries

(* Mutant: all attempts are made, and the last one decides.                *)
GoesOn_Always(status) == attempts + 1 < MaxAttempts

(* A result that is up ends the loop.                                      *)
GoesOn(status) == status # "up" /\ attempts + 1 < MaxAttempts

(* Mutant: every attempt has a deadline of its own.                        *)
Remaining_Own(duration) == Timeout

(* The deadline is the check's.                                            *)
Remaining(duration) == IF duration < left THEN left - duration ELSE 0

(* Whether the answer is in time; one that comes with the deadline may be  *)
(* or not.  With the context cancelled every attempt fails at once.        *)
Answered ==
  IF phase # "up" \/ target.kind = "never" \/ target.delay > left THEN {FALSE}
  ELSE IF target.delay = left THEN BOOLEAN ELSE {TRUE}

Attempt ==
  /\ pc = "probe"
  /\ \E answered \in Answered :
       LET status == IF answered THEN Result(mon, target) ELSE "down"
           duration == IF phase = "up" THEN Duration(mon, target, left) ELSE 0 IN
       /\ last' = status
       /\ pc' = IF GoesOn(status) THEN "probe" ELSE "store"
       /\ left' = Remaining(duration) /\ spent' = spent + duration
       /\ met' = (met \/ (answered /\ Meets(mon, target)))
  /\ attempts' = attempts + 1
  /\ excused' = (excused \/ phase # "up" \/ ~Meets(mon, target) \/ target.delay >= Timeout)
  /\ UNCHANGED <<mon, remote, target, phase, made, table, faults>>
-----------------------------------------------------------------------------
(* Mutant: only a change of status is pushed.                              *)
AfterStore_Change(own) ==
  IF remote /\ (made = << >> \/ made[1].status # last) THEN "push" ELSE "waiting"

(* The callback is called whether the result was stored or not.  A         *)
(* coordinator has none: its own database is the one that counts.          *)
AfterStore(own) == IF remote THEN "push" ELSE "waiting"

(* The variables of the loop and the history of the check are done with.   *)
Forget ==
  /\ attempts' = 0 /\ left' = 0 /\ last' = "down"
  /\ spent' = 0 /\ met' = FALSE /\ excused' = FALSE

(* InsertCheckResult, which may fail.                                      *)
Store ==
  /\ pc = "store"
  /\ \E own \in BOOLEAN :
       /\ IF own THEN UNCHANGED faults ELSE Fault
       /\ made' = Newest(<<[status |-> last, own |-> own,
                            at |-> IF remote THEN "node" ELSE IF own THEN "table" ELSE "lost"]>>
                          \o made, MaxMade)
       /\ table' = IF own /\ ~remote THEN InsertRow(table, 1, last, ResultLimit) ELSE table
       /\ pc' = AfterStore(own)
  /\ Forget
  /\ UNCHANGED <<mon, remote, target, phase>>

(* Mutant: rows are counted in the order they came in.                     *)
Place_Arrival(i) == 1

(* Rows are counted by the timestamp the node gave them.                   *)
Place(i) == 1 + Cardinality({j \in 1..(i - 1) : made[j].at = "table"})

(* handlePeerResult stores the i-th result, unless it is behind a full     *)
(* window, where nobody counts it.                                         *)
StoreAtCoordinator(i) ==
  /\ made' = [made EXCEPT ![i].at = "table"]
  /\ table' = IF Place(i) > ResultLimit THEN table
              ELSE InsertRow(table, Place(i), made[i].status, ResultLimit)

AfterPush ==
  /\ pc = "push"
  /\ pc' = "waiting" /\ UNCHANGED <<attempts, left, last, spent, met, excused>>

PushResult ==
  /\ AfterPush
  /\ StoreAtCoordinator(1)
  /\ UNCHANGED <<mon, remote, target, phase, faults>>

(* The push does not reach the coordinator, or the coordinator cannot store*)
(* the result: nobody tries again.  Or the client gives up after 10 s and  *)
(* the request is served later.                                            *)
PushFails(at) ==
  /\ AfterPush
  /\ Fault
  /\ made' = [made EXCEPT ![1].at = at]
  /\ UNCHANGED <<mon, remote, target, phase, table>>

Arrive(i) ==
  /\ made[i].at = "wire"
  /\ StoreAtCoordinator(i)
  /\ UNCHANGED <<mon, remote, target, phase, faults, checkVars>>

(* A request that is not served after all.                                 *)
Drop(i) ==
  /\ made[i].at = "wire"
  /\ made' = [made EXCEPT ![i].at = "lost"]
  /\ UNCHANGED <<mon, remote, target, phase, table, faults, checkVars>>
-----------------------------------------------------------------------------
(* After a signal Stop cancels the context of every check.  The check goes *)
(* on, until the process has ended, and is started again.                  *)
Cancel ==
  /\ phase = "up" /\ Fault
  /\ phase' = "stopping"
  /\ UNCHANGED <<mon, remote, target, made, table, checkVars>>

Restart ==
  /\ phase = "stopping"
  /\ phase' = "up" /\ pc' = "waiting"
  /\ made' = [i \in DOMAIN made |-> IF made[i].at = "node" THEN [made[i] EXCEPT !.at = "lost"]
                                     ELSE made[i]]
  /\ Forget
  /\ UNCHANGED <<mon, remote, target, table, faults>>
-----------------------------------------------------------------------------
Check == Begin \/ Attempt \/ Store \/ PushResult

Next ==
  \/ Check \/ \E at \in {"wire", "lost"} : PushFails(at)
  \/ \E i \in DOMAIN made : Arrive(i) \/ Drop(i)
  \/ Cancel \/ Restart \/ \E a \in Answers : ChangeTarget(a)

Spec == Init /\ [][Next]_vars

(* The ticker ticks, attempts and pushes end, and a process that was told  *)
(* to stop does.  MaxFaults makes the faults stop.                         *)
FairSpec == Spec /\ WF_vars(Check) /\ WF_vars(Restart)
-----------------------------------------------------------------------------
(* Properties.                                                             *)

TypeOK ==
  /\ mon \in Configs /\ remote \in BOOLEAN /\ target \in Answers
  /\ phase \in {"up", "stopping"} /\ pc \in {"waiting", "probe", "store", "push"}
  /\ attempts \in 0..MaxAttempts /\ left \in 0..Timeout
  /\ last \in Statuses /\ spent \in Nat /\ met \in BOOLEAN /\ excused \in BOOLEAN
  /\ made \in Seq([status : Statuses, own : BOOLEAN, at : {"node", "wire", "table", "lost"}])
  /\ Len(made) <= MaxMade /\ faults \in 0..MaxFaults
  /\ table \in Seq(Statuses) /\ Len(table) <= ResultLimit

(* However the attempts went, the check says "up" exactly if one of them   *)
(* got what the monitor asks for; and a target that could give it within   *)
(* the timeout whenever it was asked is reported up, unless the agent was  *)
(* being shut down.                                                        *)
VerdictIsDeserved ==
  pc = "store" => (last = "up" <=> met) /\ (last = "up" \/ excused)

(* A check takes its timeout at most, retries included, so that it does not*)
(* make the scheduler skip later ones; but a name that does not resolve    *)
(* holds up a ping for as long as the resolver takes.                      *)
ChecksEndInTime == spent <= Timeout \/ mon.type = "icmp"

(* The rows in the node's own database, and the window it would count.     *)
OwnRows == {i \in DOMAIN made : made[i].own}
Own ==
  [k \in 1..(IF Cardinality(OwnRows) < ResultLimit THEN Cardinality(OwnRows) ELSE ResultLimit) |->
     made[CHOOSE i \in OwnRows : Cardinality(OwnRows \cap 1..i) = k].status]

(* handlePeerResult: where the newest results are in both databases, the   *)
(* coordinator counts what the node itself would, although pushes overtake *)
(* each other.                                                             *)
CountsAgree ==
  (\A i \in DOMAIN made : i <= ResultLimit => made[i].own /\ made[i].at = "table")
    => /\ CountConsecutiveFailures(table) = CountConsecutiveFailures(Own)
       /\ CountConsecutiveSuccesses(table) = CountConsecutiveSuccesses(Own)

(* A target that stops giving what the monitor asks for is counted as      *)
(* failing by the coordinator and stays so, whatever was lost before or    *)
(* comes late; one that gives it again is counted as recovered.            *)
OutageIsSeen ==
  mon.type \in CheckTypes /\ <>[](~Meets(mon, target))
    => <>[](CountConsecutiveFailures(table) >= Threshold)

RecoveryIsSeen ==
  mon.type \in CheckTypes /\ <>[](Meets(mon, target) /\ target.delay < Timeout)
    => <>[](CountConsecutiveSuccesses(table) >= Threshold)
=============================================================================
