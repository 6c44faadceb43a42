---------------------------- MODULE AlertDispatch ----------------------------
(***************************************************************************)
(* The alert dispatcher of the coordinator (src/internal/alert/alert.go),  *)
(* the tables it reads and writes (alert_channels and alert_history in     *)
(* src/internal/store) and the handlers that manage channels               *)
(* (src/internal/api/cli_handlers.go).                                     *)
(*                                                                         *)
(* A notice, the n-th call of SendAlert or SendRecovery, is sent to every  *)
(* channel that is enabled by a goroutine of its own.  Notice 0 stands for *)
(* SendTest, which runs the same steps for one channel in its handler.  A  *)
(* webhook's client gives up after 10 s and the request may still reach the*)
(* receiver; the SMTP exchange of an email has no timeout at all.          *)
(***************************************************************************)
EXTENDS Integers, FiniteSets

CONSTANTS
  Channels, Emails,   \* rows there may be, and those of type email
  Puts,               \* PUT requests there may be
  MaxNotices,         \* bound on the calls of dispatch
  MaxFaults           \* bound on failed queries and crashes together

ASSUME AlertAssumption ==
  Emails \subseteq Channels /\ MaxNotices \in Nat /\ MaxFaults \in Nat

VARIABLES
  row,        \* alert_channels: is the row there, and is it enabled
  puts,       \* handleUpdateAlertChannel, one record per request
  called,     \* notices dispatched so far
  task,       \* goroutine of each notice and channel
  wire,       \* requests that may still reach the receiver
  delivered,  \* how often the receiver got each notice
  history,    \* alert_history
  faults

vars == <<row, puts, called, task, wire, delivered, history, faults>>

Notices == 0..MaxNotices
Sends == Notices \X Channels
NotCreated == [there |-> "no", enabled |-> FALSE]
NoPut == [pc |-> "idle", channel |-> "", enabled |-> ""]
Statuses == {"success", "failed"}

TypeOK ==
  /\ row \in [Channels -> [there : {"no", "yes", "deleted"}, enabled : BOOLEAN]]
  /\ puts \in [Puts -> {NoPut} \cup [pc : {"write", "done"}, channel : Channels,
                                     enabled : {"true", "false", "absent"}]]
  /\ called \in Notices
  /\ task \in [Sends -> {"none", "sending", "success", "failed", "ended"}]
  /\ wire \subseteq Sends /\ delivered \in [Sends -> 0..2]
  /\ history \subseteq [send : Sends, status : Statuses]
  /\ faults \in 0..MaxFaults

Init ==
  /\ row = [c \in Channels |-> NotCreated]
  /\ puts = [p \in Puts |-> NoPut]
  /\ called = 0 /\ task = [s \in Sends |-> "none"]
  /\ wire = {} /\ delivered = [s \in Sends |-> 0]
  /\ history = {} /\ faults = 0

There(c) == row[c].there = "yes"
EnabledChannels == {c \in Channels : There(c) /\ row[c].enabled}
Fault == faults < MaxFaults /\ faults' = faults + 1
sendVars == <<called, task, wire, delivered>>
-----------------------------------------------------------------------------
(* The handlers of the channels.                                           *)

CreateChannel(c) ==
  /\ row[c] = NotCreated
  /\ row' = [row EXCEPT ![c] = [there |-> "yes", enabled |-> TRUE]]
  /\ UNCHANGED <<puts, sendVars, history, faults>>

(* The history of the channel goes with its row (ON DELETE CASCADE).       *)
DeleteChannel(c) ==
  /\ There(c)
  /\ row' = [row EXCEPT ![c] = [there |-> "deleted", enabled |-> FALSE]]
  /\ history' = {r \in history : r.send[2] # c}
  /\ UNCHANGED <<puts, sendVars, faults>>

(* handleUpdateAlertChannel reads the row (404 without one) ...            *)
ReadForPut(p, c, enabled) ==
  /\ puts[p] = NoPut /\ There(c)
  /\ puts' = [puts EXCEPT ![p] = [pc |-> "write", channel |-> c, enabled |-> enabled]]
  /\ UNCHANGED <<row, sendVars, history, faults>>

(* ... and writes it back.  A body without the field decodes as false.     *)
UpdateAlertChannel(p) ==
  /\ puts[p].pc = "write"
  /\ puts' = [puts EXCEPT ![p].pc = "done"]
  /\ row' = [row EXCEPT ![puts[p].channel].enabled =
               There(puts[p].channel) /\ puts[p].enabled = "true"]
  /\ UNCHANGED <<sendVars, history, faults>>
-----------------------------------------------------------------------------
Start(sends) ==
  /\ task' = [s \in Sends |-> IF s \in sends THEN "sending" ELSE task[s]]
  /\ wire' = wire \cup sends

(* dispatch reads the enabled channels and starts the goroutines; when the *)
(* query fails, nobody is told.                                            *)
Dispatch ==
  /\ called < MaxNotices
  /\ called' = called + 1
  /\ Start({called + 1} \X EnabledChannels)
  /\ UNCHANGED <<row, puts, delivered, history, faults>>

DispatchError ==
  /\ called < MaxNotices /\ Fault
  /\ called' = called + 1
  /\ UNCHANGED <<row, puts, task, wire, delivered, history>>

(* SendTest asks for the row only, not whether it is enabled.              *)
SendTest(c) ==
  /\ There(c) /\ task[<<0, c>>] = "none"
  /\ Start({<<0, c>>})
  /\ UNCHANGED <<row, puts, called, delivered, history, faults>>
-----------------------------------------------------------------------------
(* The network and the receiver: a request arrives, in time or too late.   *)
(* One that is lost stays on the wire for ever.                            *)
Deliver(s) ==
  /\ s \in wire
  /\ wire' = wire \ {s} /\ delivered' = [delivered EXCEPT ![s] = @ + 1]
  /\ UNCHANGED <<row, puts, called, task, history, faults>>

(* sendToChannel returns nil: the receiver has accepted the request.       *)
Accepted(s) ==
  /\ task[s] = "sending" /\ delivered[s] > 0
  /\ task' = [task EXCEPT ![s] = "success"]
  /\ UNCHANGED <<row, puts, called, wire, delivered, history, faults>>

(* Mutant: the status of the answer, and a timeout, are not looked at.     *)
Refused_Ignored(s) ==
  /\ task[s] = "sending"
  /\ task' = [task EXCEPT ![s] = "success"]
  /\ UNCHANGED <<row, puts, called, wire, delivered, history, faults>>

(* It returns an error: no connection, a status of 300 or more, a timeout. *)
Refused(s) ==
  /\ task[s] = "sending"
  /\ task' = [task EXCEPT ![s] = "failed"]
  /\ UNCHANGED <<row, puts, called, wire, delivered, history, faults>>

Insert(s) ==
  history' = IF There(s[2]) THEN history \cup {[send |-> s, status |-> task[s]]}
             ELSE history

(* Mutants: a failed send is tried again; only a success is recorded; the  *)
(* history has no foreign key.                                             *)
Record_Retry(s) ==
  /\ task[s] \in Statuses
  /\ IF task[s] = "failed" THEN Start({s}) /\ UNCHANGED history
     ELSE task' = [task EXCEPT ![s] = "ended"] /\ Insert(s) /\ UNCHANGED wire
  /\ UNCHANGED <<row, puts, called, delivered, faults>>

Record_SuccessOnly(s) ==
  /\ task[s] \in Statuses
  /\ task' = [task EXCEPT ![s] = "ended"]
  /\ IF task[s] = "success" THEN Insert(s) ELSE UNCHANGED history
  /\ UNCHANGED <<row, puts, called, wire, delivered, faults>>

Record_NoForeignKey(s) ==
  /\ task[s] \in Statuses
  /\ task' = [task EXCEPT ![s] = "ended"]
  /\ history' = history \cup {[send |-> s, status |-> task[s]]}
  /\ UNCHANGED <<row, puts, called, wire, delivered, faults>>

(* InsertAlertRecord, and the goroutine ends.  Without the channel's row   *)
(* the foreign key refuses the record; the error is logged.                *)
Record(s) ==
  /\ task[s] \in Statuses
  /\ task' = [task EXCEPT ![s] = "ended"]
  /\ Insert(s)
  /\ UNCHANGED <<row, puts, called, wire, delivered, faults>>

RecordError(s) ==
  /\ task[s] \in Statuses /\ Fault
  /\ task' = [task EXCEPT ![s] = "ended"]
  /\ UNCHANGED <<row, puts, called, wire, delivered, history>>

(* The process stops: goroutines and handlers are gone, what is on the     *)
(* wire is not.                                                            *)
Crash ==
  /\ Fault
  /\ task' = [s \in Sends |-> IF task[s] = "none" THEN "none" ELSE "ended"]
  /\ puts' = [p \in Puts |-> IF puts[p].pc = "write" THEN [puts[p] EXCEPT !.pc = "done"]
                             ELSE puts[p]]
  /\ UNCHANGED <<row, called, wire, delivered, history>>
-----------------------------------------------------------------------------
SendStep(s) ==
  Deliver(s) \/ Accepted(s) \/ Refused(s) \/ Record(s) \/ RecordError(s)

Next ==
  \/ \E c \in Channels : CreateChannel(c) \/ DeleteChannel(c) \/ SendTest(c)
  \/ \E p \in Puts, c \in Channels, e \in {"true", "false", "absent"} : ReadForPut(p, c, e)
  \/ \E p \in Puts : UpdateAlertChannel(p)
  \/ Dispatch \/ DispatchError \/ Crash
  \/ \E s \in Sends : SendStep(s)

Spec == Init /\ [][Next]_vars

(* A goroutine that can go on does; a webhook is answered or given up.     *)
FairSpec ==
  Spec /\ \A s \in Sends : /\ WF_vars(Record(s))
                           /\ s[2] \notin Emails => WF_vars(Accepted(s) \/ Refused(s))
-----------------------------------------------------------------------------
(* Properties.                                                             *)

(* A receiver gets a notice at most once, and the history tells one story  *)
(* about it: nothing is retried, and a crash or a timeout that is followed *)
(* by a late delivery leaves no second attempt behind.                     *)
AtMostOnce ==
  /\ \A s \in Sends : delivered[s] <= 1
  /\ \A q, r \in history : q.send = r.send => q = r

(* A record of success tells of a notice its receiver has, whatever is     *)
(* lost or late.  (A record of failure proves nothing: a late delivery.)   *)
SuccessWasDelivered ==
  \A r \in history : r.status = "success" => delivered[r.send] > 0

(* openapi.yaml: deleting a channel deletes "all associated delivery       *)
(* history" -- for good, although goroutines that were sending to it go on *)
(* to record what they did.                                                *)
HistoryHasChannel ==
  \A r \in history : There(r.send[2])

(* An attempt on a webhook ends up in the history, a failure as well as a  *)
(* success, unless its channel is deleted first or something breaks.       *)
AttemptsAreRecorded ==
  \A s \in Sends :
    s[2] \notin Emails =>
      (task[s] = "sending"
         ~> (\E r \in history : r.send = s) \/ ~There(s[2]) \/ faults > 0)

(* cli_handlers.go, handleUpdateAlertChannel: "Allow toggling enabled      *)
(* (check if field was explicitly provided)".                              *)
EnabledIsKept ==
  [][\A p \in Puts :
       puts[p].pc = "write" /\ puts'[p].pc = "done" /\ puts[p].enabled = "absent"
         => row'[puts[p].channel].enabled = row[puts[p].channel].enabled]_vars
=============================================================================
