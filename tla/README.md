# PingMesh, modelled and checked

PingMesh is a distributed uptime monitor. Every node runs the same binary and
checks the same targets; one node, the coordinator, collects the results,
decides by quorum whether a target is down, keeps the incidents and sends the
alerts. This directory holds TLA+ modules of the parts that decide something,
TLC configurations that check them on small instances, and proofs, checked by
TLAPS, that the components keep their safety properties on instances of any
size.

Paths below are relative to `src/internal/`. `PROJECT.json` lists the
components, the runs, one mutant per checked property, the source lines every
definition models, the findings, the hazards and the theorems.

## Inventory

| Component | State it keeps | Operations | Talks to |
|---|---|---|---|
| Consensus engine: `agent/agent.go` (consensus loop), `consensus/` | tables `incidents`, `check_results`; the loop's local variables | a round every 15 s: count failures and successes per node, get or create, confirm, resolve | reads what `handlePeerResult` and the coordinator's own scheduler store and what membership says is online; calls the dispatcher |
| Cluster membership: `cluster/cluster.go`, heartbeat and offline loops in `agent/agent.go` | `nodes.status`, `nodes.last_seen` | heartbeat (30 s), offline detection (every 30 s, limit 90 s), join, removal | messages from the nodes; the consensus engine reads it |
| Check scheduler: `agent/scheduler.go`, sync loop in `agent/agent.go` | `timers`, `cancels`, `running`, one goroutine per monitor | `SyncMonitors`, `runLoop`, `executeCheck`, `Stop` | reads `monitors`, stores results, hands them to a callback that pushes them to the coordinator |
| Alert dispatcher: `alert/alert.go`, channel handlers in `api/cli_handlers.go` | tables `alert_channels`, `alert_history`, one goroutine per notice and channel | `SendAlert`, `SendRecovery`, `SendTest`; POST, PUT, DELETE of channels | webhooks and SMTP servers |
| Init, tokens, join: `cli/init.go`, `cli/token.go`, `cli/join.go`, `cluster/join.go`, `cluster/tls.go`, `handlePeerJoin` | certificates directory, `config.json`, tables `join_tokens` and `nodes` | `pingmesh init`, `join-token`, `join` | one request from the host to the coordinator |
| Config sync: push and pull loops in `agent/agent.go`, `handlePeerConfigSync`, monitor handlers in `api/cli_handlers.go` | table `monitors` of the coordinator and of every node | POST, PUT, DELETE of monitors; push and pull every 30 s; application row by row | messages both ways |
| Checkers: `checker/` | none | HTTP(S), keyword, TCP, ICMP, DNS | called by `executeCheck`, attempt by attempt under one deadline; the result goes to the node's table and is pushed once to the coordinator's |
| Peer client: `cluster/peer_client.go` | none | one HTTP request each, given up after 10 s | |
| Store: `store/` | the SQLite database, one connection | one statement per method | everything |
| Log buffer: `logbuf/` | ring of 1000 entries, under a mutex | `Write`, `Last` | `GET /api/v1/logs` |
| API server, CLI, web interface, installation | none of their own | routing, formatting | |

What is hard here:

* **Interleaving through the database.** There is one connection
  (`SetMaxOpenConns(1)`), so a statement is atomic, and nothing uses a
  transaction: everything may change between two statements of a handler or a
  loop. Rows are written back whole from copies read earlier.
* **Crashes and failed queries** between the statements of a logical step
  (create, confirm, alert), and between the files of `init` and `join`.
* **Messages** that are lost, late, or served after their sender gave up:
  results, heartbeats, snapshots, join requests, webhooks.
* **Goroutines and maps** of the scheduler while monitors come and go and while
  the process shuts down.
* **Deadlines**: the attempts of a check share one, and an answer may race it.
* **Agents that come and go** between any two queries of a round, and come back
  with windows of old results.
* **Liveness**: an outage is alerted of, a recovery announced, a silent node found
  out, a node's table brought up to date in the end.

## Modules

| Module | Models | State and actions |
|---|---|---|
| `QuorumRule` | `consensus/evaluator.go`, the counting queries, the result window | operators only; the window of a monitor and node is the sequence of statuses, newest first |
| `Consensus` | the consensus loop, `IncidentManager`, the tables | `pc`, `cur`, `remaining`, `failing`, `recovered` and `inc` are the loop's locals, with `held`, its copy of the incident's row, which an UPDATE writes back whole; each action makes at most one query. `failing` is `failingNodeIDs`, whose size is `failCount`. `RecordResult` and `SetNodeStatus` are the handlers and the detector, free to run between any two queries. `SkipNode`, `GiveUp` are the error paths, `Crash` a stop and a start |
| `IncidentLifecycle` | what the incidents promise | abstract: open, confirm, resolve, tell; `Consensus` implements it (`ImplementsLifecycle`, `incidents <- withoutNodes`) |
| `ConsensusEvidence` | `Consensus` with a history of what the nodes saw during the evaluation of a monitor | adds `sawFailing`, `sawUp`, `sawSound` (nodes that were, at some moment of it, beyond a threshold, or below that of failures) and `skipped` (a query of it failed) |
| `Membership` | heartbeats, the detector, join, removal, stops | time in units of 30 s; `age` is how old `last_seen` is, in units begun: the code compares milliseconds, so a row of age `Timeout` may be found beyond the timeout or not (`ReadStale`); `snap` the rows the detector has read and not yet written |
| `Scheduler` | run loops, maps under the mutex, sync loop, shutdown, the rows of the node's table, which may come back | one action per critical section or query; `lives` counts how often a monitor's row was inserted, `Returned` are those whose row came back |
| `AlertDispatch` | dispatcher, channels, history | `task` is the goroutine of a notice and a channel, `wire` what may still arrive |
| `Joining` | `init`, `join-token`, `join`, `handlePeerJoin` | an attempt's number stands for the id and keys it generates; a command writes one file per action. A write of `init` may leave the file `Broken` and go on; `removed` are the nodes deleted on the coordinator |
| `ConfigSync` | monitors, from the handlers to the nodes | a row's content is the set of edits in it; an `applier` is a goroutine that applies a snapshot. `NodeWrites` is the API of a node, which changes its own table (`posted`, `nodePut`); what it put in a row is the node itself |
| `Checkers` | `checker/`: what each checker makes of an answer, and how long it takes | operators only; an answer is a kind, a delay and what the checkers tell apart (status code, words, certificate, DNS response). A DNS response is the set of its records, and the expected value may come in one of any type |
| `Checking` | `executeCheck`, the push callback, `PushResult`, `handlePeerResult` | one check of one monitor at a time, one action per attempt, query and push; `made` is where each result has got to, `table` the window the coordinator counts |
| `System` | the consensus loop in its cluster: `Consensus` with agents that check, send heartbeats, stop and come back, and the detector | adds `sees`, `live`, `stale`; `RecordResult` and `SetNodeStatus` are no longer free. `stale` are the rows the detector may mark offline, which it may have read before a heartbeat it then writes over. A check and a heartbeat are one step each, which do what `Checking` and `Membership` show |
| `LogBuffer` | the ring and `handleLogs` | `pending` is what the writer that holds the mutex has still to store; slots are numbered as in the code |
| `BoundedLog` | what the log API promises | abstract: the latest entries in order; `LogBuffer` implements it (`ImplementsBoundedLog`) |
| `ConsensusProofs`, `CheckingProofs`, `MembershipProofs`, `SchedulerProofs`, `AlertDispatchProofs`, `JoiningProofs`, `ConfigSyncProofs`, `LogBufferProofs` | | theorems, below; `ConsensusProofs` holds those about `ConsensusEvidence` and `System` as well |
| `MCConsensus`, `MCConsensusEvidence`, `MCMembership`, `MCChecking`, `MCSystem` | | constants that a `.cfg` cannot write, symmetry |

How they fit together. `ConsensusEvidence` and `System` EXTEND `Consensus`, which
EXTENDS `QuorumRule`; `Checking` EXTENDS `Checkers` and counts with the same
`QuorumRule`. `System` takes from the other components what they promise and
leaves out how: that a silent node is marked and one that keeps sending is not
(`Membership`), that monitors go on being checked (`Scheduler`), that a result
says what the target deserves and comes to be counted (`Checking`). That every
behaviour of `System` is one of `Consensus` is a theorem, and with it the
free environment of `Consensus` is shown to include the real one.

Each property of a passing run has a mutant: an operator named after its target,
such as `FindSuspect_Any` beside `FindSuspect`, that is the target with a
plausible bug. With it in place the property is violated. Nothing uses these
operators otherwise.

## Runs

| Run | Bounds | Shows |
|---|---|---|
| `consensus_safety` | 1 monitor, 3 nodes, majority, thresholds 1, 2 incidents, 1 fault | `TypeOK`, `AtMostOneActive`, `NoDuplicateNotices`, `LoopKnowsItsIncident`, `NoticesAreEarned`, `ConfirmingNodesAreFinal`, and that the coordinator implements `IncidentLifecycle` |
| `consensus_evidence` | 2 monitors, one by majority, one n_of_m with n = 1; 2 nodes, no fault | `ConfirmedOnEvidence`, `ResolvedOnEvidence`: counts of one monitor are not carried to the next, each node counted did see it, and an outage a quorum sees all the time is not taken for a recovery; `RecoveryFollowsAlert`, which needs that nothing fails |
| `membership` | coordinator and 1 node, timeout 3 units, ages to 5, 1 fault | a node that never misses two heartbeats in a row stays online, one that is silent does not, one that returns comes back, one that is removed does not; the coordinator never counts itself out |
| `scheduler` | 2 monitors, one of a type without a checker; of any two 2 insertions in a process's life, so that one may come back; 1 fault | maps and goroutines agree, checks of a monitor whose row did not come back do not overlap before shutdown and none of its entries stays in `running`; every monitor with a checker goes on being checked, cancelled loops end |
| `alerting` | a webhook and an email channel, one notice and a test of each, 1 PUT, 1 fault | a receiver gets a notice at most once, the history does not claim what did not happen, goes with its channel, and has every attempt on a webhook |
| `joining` | coordinator and 2 hosts, 2 tokens, 4 attempts, 1 fault, 1 removal | a token makes at most one member, and makes it if nothing breaks; a machine with a configuration has one whole identity (but for the coordinator's own certificate and key, see the findings), known to the coordinator or removed by it for good |
| `config_sync` | 1 node, 1 monitor, 2 PUTs, a push and a pull applied at a time, 1 fault; any use of the node's own API | a node's row is always one the coordinator has had, but for what the node's own API put in it, and in the end the one it has, if that API leaves it alone; a PUT is lost only to one it overlapped |
| `checking` | a monitor of each type and one of a type that is not registered, on the coordinator or a node; 8 answers, timeout of 3 units, thresholds and window of 2, 1 fault | `VerdictIsDeserved`: "up" exactly if an attempt got what the monitor asks for, and always when the target could give it in time; `ChecksEndInTime`, but for a ping whose name does not resolve; `CountsAgree`: the coordinator counts what the node would, though pushes overtake each other; `OutageIsSeen`, `RecoveryIsSeen`: what was lost is made good by later checks |
| `system` | coordinator and 1 agent, n_of_m with n = 1, thresholds 1, 2 incidents, 1 fault | `OutageIsAlerted`, `RecoveryIsAnnounced`, whoever left in the middle, came back with old results, or crashed |
| `consensus_nobody`, `membership_snapshot`, `alerting_put` | as small as shows it | the findings below |

The modules' `TypeOK` is checked where the types say something about bounds
(`consensus_safety`, `checking`), and proved in every module.

Why the bounds are enough. The loop of `Consensus` evaluates one monitor after
another and its variables are reset in between, so that one monitor shows what
may happen to a monitor's incidents and two show what may be carried over (that
is what `consensus_evidence` is for). There n = 1 is where a quorum may be failing and another recovered at
a time, so that it matters which of them is counted first; what failed queries
add (`skipped`) is covered by the proof, for any number of them. Three nodes are the least with a majority
that is not everyone; two incidents the least where a second could be opened
beside the first; one fault may strike anywhere, and since the state it leaves
(a suspect without confirmation, a confirmation without alert) is again a
reachable state from which the loop starts afresh, the invariants for any number
of faults are proved, not only checked. `QuorumRule` bounds the window by
`ResultLimit` (100 in the code): the thresholds of 2 with a window of 2 of
`checking` is where `threshold = LIMIT` holds and late results fall out. There
the timeout of 3 units admits answers that are in time (1), in time for the
first attempt only (2), just at the deadline (3) and after it (4); retries of 0,
2 and 3 are one attempt, two, and more than there is time for; `MaxMade` results
are remembered, of which older ones lie behind a full window wherever they
arrive. In `system` n_of_m with n = 1 is where one node may see an outage that
the other sees end, so that a failing and a recovered minority exist at a time,
and both leaving and returning nodes change who decides. `Timeout = 3` units is the code's own
90 s over 30 s. The run loops per monitor in `Scheduler` are all there can be before a
restart: one for each insertion of its row, and one more if a list read earlier is
applied after `Stop` (`OneLoopForEachLife`). In `ConfigSync`
two appliers on one row are the least in which a stale one crosses another, and a
handler of the node's API comes between the query and the write of each;
rows and nodes are independent, and the proofs cover any number of either. In
`Joining` four attempts let `init` fail once and two hosts still compete for a
token, or one host try three times; one fault is a stop, an error or a broken
file anywhere, and one removal may come at any moment of a join. The safety
properties are proved for any number of them.

Bounds that appear in guards: `MaxIncidents` (`CreateIncident`), `MaxFaults`
(every fault), `MaxLives` (`CreateMonitor` of `Scheduler`), `ResultLimit` (`RecordResult`), `MaxAge` (`Tick`), `MaxNotices`
(`Dispatch`), `MaxAttempts` (`Begin` of `Joining`),
`MaxRemovals` (`DeleteNode`), `MaxPushes` (`Push`), `MaxMade` (`Store` of
`Checking`), `MaxLines` (`Write` of `LogBuffer`).

Deadlock is checked except in `alerting`, `alerting_put` and `joining`, whose
bounded numbers of notices and attempts run out.

### Fairness

* `System!FairSystem`: the loop goes round (its ticker fires for ever and the
  goroutine is never blocked for good), agents that run send heartbeats and
  check their monitors with results that do arrive, and the detector finds and marks who is
  silent. Nothing is assumed of starts, stops, targets or faults. The properties speak
  of clusters that have come to rest: no algorithm could decide otherwise.
* `Checking!FairSpec`: the ticker ticks, attempts end under their context, the
  client of a push gives up after 10 s, and a process that was told to stop
  does. Each check, query and push is one step of `WF(Check)`. Pushes may fail
  or be late at any time, `MaxFaults` times.
* `Membership!FairSpec`: the two loops of the coordinator, the agents' loops, and
  requests, which are served or given up after 10 s, that is within a unit. Time
  is `SF(Tick)`: it waits until the work of the unit is done, and agents that
  start and stop in between may disable it again and again, but not for ever.
* `Scheduler!FairSpec`: run loops and the sync loop are scheduled; a check ends
  because every attempt runs under a context with a timeout.
* `AlertDispatch!FairSpec`: a webhook's goroutine ends, by the client's timeout of
  10 s. Nothing is assumed of email, which has no timeout.
* `Joining!FairSpec`: commands and handlers go on; a configured host's agent is
  started and in the end pulls.
* `ConfigSync!FairSpec`: nodes keep pulling and appliers go on. A pull that fails
  is one that has not happened.

## What is proved

Every theorem holds for any value of the constants that satisfies the named
assumption of its module, among them any number of nodes, monitors, channels,
tokens, faults and attempts. TLC evaluates the assumptions on every run of the
module; that of `LogBuffer`, which no run instantiates, is a hypothesis of its
theorems instead.

| Assumption | Says |
|---|---|
| `ConstantsAssumption` (`Consensus`) | finitely many nodes, thresholds and window of at least 1 (what `handleCreateMonitor` makes of an absent threshold), any quorum type and `quorum_n` |
| `SystemAssumption` | the coordinator is a node; checks may report up and down |
| `CheckingAssumption` (`Checking`) | a check has some time (`handleCreateMonitor` makes an absent timeout 5 s) and an answer takes some; the threshold is at least 1 and no more than the window, without which a node is never failing (see the findings) |
| `ConfigsAssumption` (`Checking`) | the monitors ask for something a checker looks at: not a negative `expected_status`, nor an answer to a DNS query that is never made (see the findings). Any number of retries, a negative one included |
| `MembershipAssumption` | the coordinator is a node, the timeout is at least two heartbeats, `MaxAge` is past the timeout |
| `AlertAssumption`, `ConfigAssumption`, `JoiningAssumption` | the constants have their types; the coordinator is not one of the joining hosts; the PUTs on the coordinator are not nodes, which stand for the PUTs on nodes |
| `SchedulerAssumption` | the monitors with a checker are monitors; rows may be inserted at least once |
| `LogBufferAssumption` | the capacity is at least 1, `handleLogs` asks for a positive number |

| Module | Theorem | States |
|---|---|---|
| `ConsensusProofs` | `TypeCorrect` | `Spec => []TypeOK` |
| | `OneActive` | `Spec => []AtMostOneActive` |
| | `ToldOnce` | `Spec => []NoDuplicateNotices` |
| | `HeldIncidentIsCurrent` | `Spec => []LoopKnowsItsIncident` |
| | `NoticesAreBorneOut` | `Spec => []NoticesAreEarned` |
| | `RecoveryComesAfterAlert` | `Spec => [](faults = 0 => RecoveryFollowsAlert)` |
| | `LifecycleRefined` | `Spec => ImplementsLifecycle` |
| | `ConfirmingNodesKept` | `Spec => ConfirmingNodesAreFinal` |
| | `ConfirmationsRestOnEvidence` | `EvidenceSpec => []ConfirmedOnEvidence` |
| | `ResolutionsRestOnEvidence` | `EvidenceSpec => []ResolvedOnEvidence` |
| | `NoOutageIsPassedOver` | `EvidenceSpec => OutagesAreNotPassedOver`: an evaluation that goes on to the recovery passes over no quorum that was failing all the time |
| | `QuorumsMeet` | with a majority, or n of m for more than half, two quorums share a node |
| | `SystemIsConsensus` | `SystemSpec => Spec` |
| | `SystemIsSafe` | what `Consensus` promises, of `System` |
| `CheckingProofs` | `TypeCorrect` | `Spec => []TypeOK` |
| | `VerdictsAreDeserved` | `Spec => []VerdictIsDeserved` |
| | `ChecksEnd` | `Spec => []ChecksEndInTime` |
| | `CountsAlwaysAgree` | `Spec => []CountsAgree` |
| | `NewestResultsDecide` | `Spec => []NewestDecide`: the newest results, once they arrived, decide alone |
| | `FailureStreak`, `SuccessStreak` | what the two counting queries compute, for every window |
| `MembershipProofs` | `TypeCorrect` | `Spec => []TypeOK` |
| | `SteadyStaysOnline` | `Spec => []SteadyIsOnline` |
| | `CoordinatorStaysOnline` | `Spec => []CoordinatorIsOnline` |
| | `RemovalIsFinal` | `Spec => RemovedForGood` |
| | `MarkedRowsAreOld` | `Spec => []OfflineRowsAreOld`: an offline row has an old `last_seen`, though the detector writes rows back |
| | `SilentNodesAreFoundOut` | `Spec => []FoundOutInTime`: a silent node is online for one unit beyond the timeout at most |
| `SchedulerProofs` | `TypeCorrect` | `Spec => []TypeOK` |
| | `EveryLoopIsScheduled` | `Spec => []LoopsAreScheduled` |
| | `ChecksDoNotOverlap` | `Spec => []NoOverlapWhileUp` |
| | `RunningTellsTheTruth` | `Spec => []RunningIsTruthful` |
| | `OneLoopForEachLife` | `Spec => []LoopsArePaidFor`: a process starts a run loop once for each insertion of a monitor's row, and once more after `Stop` |
| | `NoCheckIsSkipped` | `Spec => ChecksAreNotSkipped`: until `Stop` no check of a monitor whose row did not come back is skipped because an earlier one still runs |
| `AlertDispatchProofs` | `TypeCorrect` | `Spec => []TypeOK` |
| | `NothingIsSentTwice` | `Spec => []AtMostOnce` |
| | `SuccessIsTrue` | `Spec => []SuccessWasDelivered` |
| | `HistoryGoesWithTheChannel` | `Spec => []HistoryHasChannel` |
| | `NoAttemptIsForgotten` | `Spec => []AttemptsLeaveARecord`: while nothing breaks, an attempt that ended has its record |
| `JoiningProofs` | `JoiningTypes` | `Spec => []TypeOK` |
| | `TokensMakeOneMember` | `Spec => []OneMemberPerToken` |
| | `HostsAreMembers` | `Spec => []MembersAreKnown` |
| | `IdentitiesAreWhole` | `Spec => []IdentityIsConsistent` |
| | `UsedTokensServe` | `Spec => []TokensAreNotWasted`: while nothing breaks, a used token is on its way to a member or has made it |
| `ConfigSyncProofs` | `TypeCorrect` | `Spec => []TypeOK` |
| | `NodesHoldGenuineRows` | `Spec => []RowsAreGenuine` |
| | `OnlyOverlapsLoseEdits` | `Spec => []EditsAreKept` |
| | `OldRowsStayAway` | `Spec => OldRowsDoNotReturn`: with no older copy of a row on its way to a node there is none until the next edit, and only the row is written, or what the node's own API writes |
| `LogBufferProofs` | `RingIsSound` | `Spec => []RingInv` |
| | `BufferIsBoundedLog` | `Spec => ImplementsBoundedLog` |

Each module proves one inductive invariant: it holds initially, every action
keeps it (one step per action), and the properties follow from it.

**Consensus.**

    IndInv == TypeOK /\ AtMostOneActive /\ LoopKnowsItsIncident
              /\ NoticesAreEarned /\ NoDuplicateNotices

`AtMostOneActive` is not inductive: the INSERT is made in a later step than the
query that found nothing, so that one must know that at `pc = "create"` the
monitor still has no active incident. That holds because the loop is the only
writer of the table, and it is what `LoopKnowsItsIncident` says, for each place
of the loop. `NoDuplicateNotices` needs that at `alert` nobody has been told
yet, which follows, since the row was a suspect one step before and
`NoticesAreEarned` excludes an alert about a suspect, whatever crashes and failed
queries lie in between. `LifecycleRefined` maps each action to a step or a
stutter of the abstract module with that invariant at hand. `ConfirmingNodesKept`
rests on `LoopKnowsItsIncident` too: `ResolveIncident` writes the copy back that the
loop read at the start of the evaluation, nodes included, and the copy is still the
row.
`RecoveryComesAfterAlert` adds that, as long as nothing has failed, a confirmed
incident was told of unless the loop is just about to.

**Evidence and System.** `CountersMean` adds what the counters stand for while
the loop runs: the nodes in `failing` crossed the threshold of `cur` since its
evaluation began, and those that were asked, are not in it and were not skipped
were sound when they were asked. So if the nodes in `failing` are no quorum, no
quorum was failing all the time: it would be a part of `failing`, and more nodes
are a quorum if fewer are. Each action of `System` is an action of `Consensus` or
leaves its variables alone, so that what was proved of the one carries over to the
other.

**Checking.**

    IndInv == TypeOK /\ VerdictIsDeserved /\ LoopInv /\ PushHolds /\ Placed

`LoopInv` says what the loop of attempts has found out when it goes on: none of the
attempts got what the monitor asks for, the first had the whole timeout, and after
it the target is known not to give it in time. What has been spent and what is
left are the timeout, but for a ping. `Placed` is about the coordinator's window.
`Rank(A, i)` is the place of row i among the rows of A: the window holds, at its
rank, every row that has arrived and whose rank is within the LIMIT, whether it
came in order or not. A row that arrives late is inserted at its rank and moves
those behind it by one (`PlacedInsert`), a new one moves all of them
(`PlacedShift`). That a streak reaches k exactly if the newest k rows are of a kind
(`FailureStreak`) then makes `NewestDecide` a matter of the first rows only, and
`CountsAgree` follows since the node's own window has the same rows at the same
places.

**Membership.** A node is marked offline because its row was stale when the
detector read it. `SteadyIsOnline` therefore needs a bound on the age of a row,
before anyone reads it: `Punctual` bounds it by the heartbeats in a row that did
not reach it, and one unit more while this unit's is to come, so that a steady
node is never in a snapshot at all. Steady is a node that never misses two
heartbeats in a row (`MissLimit`, one fewer than the timeout has units): after
two the third decides, which may come before the detector finds the row beyond
90 s, or a moment after. `CoordinatorFirst` says the same of the
coordinator: its agent stores a heartbeat before it detects. `FoundOut` is the
other direction: as long as the coordinator runs and its queries succeed, a row
that is too old and still online is one the detector has this unit's run, or its
snapshot, before it for.

**Scheduler.** What keeps two checks of a monitor apart is no lock: the mutex is
not held while a check executes, and `stopMonitor` deletes the `running` entry of
a check that goes on. It is that a row which is inserted once is started once:
`OneLoopPerLife` counts the loops a monitor was given against its insertions, and
says that one which is there and not scheduled, or is about to be stopped although
it is there again, has a loop to come. So until `Stop` a monitor whose row did not
come back has one loop at most (`OnlyLoop`). With `OnlyRunningExecutes`, that what
is in `running` executes, it follows that its checks never find the entry of an
earlier one: the guard of `executeCheck` is there for the overlap after `Stop` and
for rows that come back.

**Alerts.** The invariant follows a request from its goroutine to the record: it
is on the wire or delivered, not both (`OneRequest`), a goroutine that believes in
a success has a delivery behind it (`Believed`), a record is the last thing its
goroutine did (`RecordedOnce`). `Accounted` adds that a goroutine that has ended
left one, unless something broke or its channel is gone.

**Joining.**

    JoinInv == TypeOK /\ Consumed /\ Commands /\ Written

`Consumed` adds the requests that the token let through and that have no row yet:
at most one of them per token, whose token is used. It speaks of the nodes the
coordinator has or has removed (`Known`), and says that no removed one is in the
table again: a row is made once, when its request is answered, and a request is
answered once. `Commands` adds that a host
past its request was admitted, so that its row was made before it saves a
configuration, that the number of a run of `init` is no request's, and that the
coordinator's row is made last. `Written`
says of each step of a command which files are its attempt's already, whatever
an earlier attempt left, or broken by a write of `init`; that an `init` which gets past
its certificate had a whole CA; and that nobody asks the coordinator, holds an answer
or is configured before the coordinator has saved its own: after that `init`
refuses to run and the CA is the same for ever. `NothingWasted` follows a used
token to the command whose request it let through.

**Config sync.** Every copy of a row, in a snapshot, on its way to a node or being
applied, is one the coordinator has had. A node's own API works on its row only, and on
what it read of it (`NodePutsAreGenuine`): it adds its own mark to such a copy, and a
snapshot written over it takes the mark away again. For `EditsAreKept`, `Kept` says of an edit
that its row lost that a PUT which overlapped it has since been written, and of
the PUTs still open that each has read the edit, overlaps it, or comes after such
a one. `OldRowsStayAway` looks at one step: what an applier holds after it, it held
before or has just taken from the push's snapshot or the table, and what it writes
it held.

**Log buffer.** `Filled` says that the slots behind `pos`, all of them once the
ring is full, hold messages. With it a write appends to what `Latest(Total)`
reads, or shifts it by one, whether the position wraps or not, and `Last` reads
its end.

Only model-checked: liveness, which is out of the prover's reach (`SilentIsOffline`,
`ConnectedIsOnline`, `MonitorsAreChecked`, `CancelledLoopsEnd`, `AttemptsAreRecorded`,
`TokenMakesAMember`, `RegisteredInTheEnd`, `Converges`, `OutageIsSeen`,
`RecoveryIsSeen`, `OutageIsAlerted`, `RecoveryIsAnnounced`). Of most of them the part
that is safety is proved, for any values of the constants, so that what is left to
TLC is that the steps in question do come:

| Checked | What is proved of it |
|---|---|
| `SilentIsOffline` | `SilentNodesAreFoundOut`: when the detector has done a unit's work no row beyond the timeout is online |
| `OutageIsSeen`, `RecoveryIsSeen` | `NewestResultsDecide`: as many new results as the threshold are enough, whatever was lost before or comes late |
| `OutageIsAlerted`, `RecoveryIsAnnounced` | `NoOutageIsPassedOver`: an evaluation of an outage that a quorum sees does not end without a confirmed incident. `QuorumsMeet`: a recovery that a quorum sees is not held back by a quorum that still counts it as failing |
| `MonitorsAreChecked` | `NoCheckIsSkipped`: a tick of a loop is a check, unless the row came back |
| `Converges` | `OldRowsStayAway`: once the old copies are gone, only the row itself is written, or what the node's own API writes |
| `AttemptsAreRecorded` | `NoAttemptIsForgotten`: a goroutine that ends leaves a record |
| `TokenMakesAMember` | `UsedTokensServe`: a used token stays with a host that goes on with it |

Only proved: `LogBuffer`, whose properties say nothing of
interleavings; its theorems cover every capacity, write and request.

## Findings

Each is a violation run, whose property is what the quoted text says.

1. `consensus_nobody`: with `quorum_type` n_of_m and no `quorum_n`, which no
   default replaces, zero failing nodes are a quorum: an incident is confirmed
   and alerted of with every node reporting up (`consensus/evaluator.go:7`).
2. `membership_snapshot`: the detector writes back the `last_seen` it read; a
   heartbeat stored between its SELECT and its UPDATE is lost and the node goes
   offline (`cluster/cluster.go:60`). `membership` shows that the next heartbeat
   makes it good, and that no node that keeps in time is ever concerned.
3. `alerting_put`: a PUT on an alert channel that does not mention `enabled`
   disables it (`api/cli_handlers.go:446`).

Noticed while reading, plain from the code and given no run:

* An incident whose confirmation was lost to a crash or a failed query goes from
  suspect to resolved, and a recovery is sent that no alert preceded
  (`agent/agent.go:361`, against the life cycle of `openapi.yaml:1010`).
* With n_of_m and n below a majority one healthy node resolves an incident that
  others still see (`consensus/evaluator.go:9`), where `src/README.md:158` says: "a
  monitor is only marked as recovered when a majority of nodes see it healthy".
  `ResolvedOnEvidence` says what the code does: a quorum of the monitor's own kind.
* `cooldown_ms` is stored and never read (`openapi.yaml:820` describes it).
* All attempts of a check share one deadline (`agent/scheduler.go:141`), where
  `openapi.yaml:768` says "Timeout per check attempt". `ChecksEndInTime` is what
  the code does. A check cancelled by shutdown is stored, and pushed, as `down`.
* A ping resolves its target's name outside its context (`checker/icmp.go`): a
  resolver that does not answer holds the check up past its timeout.
* DNS record types other than AAAA, CNAME, MX and TXT are silently asked for as A
  (`checker/dns.go:23`), NS and SOA of `openapi.yaml:787` among them. `http_keyword`
  does not look at `expected_status`, and a negative one accepts every code
  (`checker/http.go:99`).
* A monitor whose `check_type` is not registered is accepted; it never has a result
  (`MonitorsAreChecked` is about the others).
* A `failure_threshold` above the LIMIT of 100 is accepted and never reached.
* A node that returns counts with the window it had before it went, until its
  first new result.
* Checks of one monitor may overlap, against `agent/scheduler.go:26` ("track if a
  check is currently executing") and `:115` ("Skip if previous check still
  running"): a node's own API deletes the row of a monitor that has no result yet
  (`api/cli_handlers.go:210`, no role is asked for), config sync inserts the same id
  again, and by then `stopMonitor` has deleted the `running` entry
  (`agent/scheduler.go:95`) of a check that does not look at its context (a ping
  that resolves its name, a DNS read). The old check clears the entry of the new
  one when it ends. `NoOverlapWhileUp` and `RunningIsTruthful` leave such monitors
  out (`Returned`); `LoopsAreScheduled`, `MonitorsAreChecked`, `CancelledLoopsEnd`
  and `OneLoopForEachLife` hold of them too.
* `Stop` clears `running` of checks that still run; a `SyncMonitors` that already
  has its list starts the monitors again beside them. The loops end all the same
  (`CancelledLoopsEnd`).
* `SyncMonitors` compares ids: a changed interval takes effect at the next start.
* Monitors deleted on the coordinator stay on the nodes.
* The handlers of monitors ask for no role: every node serves POST, PUT and DELETE for
  its own table (`api/server.go:76`, `api/cli_handlers.go:104` to `:217`). What is done
  there reaches nobody else. The next snapshot undoes a PUT or a DELETE of a monitor
  of the coordinator's; one created on a node stays and is checked there, while the
  foreign key of the coordinator's table refuses its results.
* `init` ignores what `pem.Encode` returns (`cluster/tls.go:60`, `:73`, `:149`, `:162`). A
  broken CA is noticed when it is read for the coordinator's certificate; a broken
  certificate or key of the coordinator is not, and `config.json` is saved beside it,
  after which `init` refuses to run again (`IdentityIsConsistent` excepts these two files).
* A removed node's host is not told (`api/cli_handlers.go:82`): it keeps its configuration
  and certificate, and goes on as a member of a cluster that does not know it.
* A node or monitor that other tables refer to cannot be deleted: the foreign
  keys refuse the DELETE.
* Two PUTs on a monitor that overlap lose one's fields (`EditsAreKept` is stated
  of those that do not).
* `init` stopped between `config.json` and the coordinator's row leaves a
  coordinator that is in no table and that `init` will not repair.
* A join whose answer is lost leaves a node on the coordinator that is online
  until the detector finds it, and a consumed token.
* `handlePeerCheck` answers "not implemented".

## Not modelled

* HTTP, JSON, TLS handshakes, SQL: calls, messages and statements are atomic steps
  that may fail where the code handles a failure. The network exchanges of the
  checkers are answers with a delay.
* Read-only handlers, the CLI's printing, the web interface, the installer: no
  state of theirs.
* The nodes part of a snapshot, except a host's own row (`Joining`).
* Intervals of monitors: the scheduler's tickers tick at any time.
* The SMTP exchange, which has no timeout: an email is accepted, refused, or
  hangs for ever.
* Several monitors, nodes and incidents at a time beyond the bounds above, except
  where proved.

## What is left

1. A run of `LogBuffer` on a small ring, beside its proof.
2. `System` with two monitors and a majority of three: its state space is past
   what TLC visits in minutes; the safety part is proved for any size.
3. The nodes of a snapshot and the foreign keys together: which deletions the
   database refuses, and what a node's table holds after a removal.
