-------------------------- MODULE AlertDispatchProofs --------------------------
(***************************************************************************)
(* Proofs about AlertDispatch for any channels, PUTs, notices and faults.  *)
(* The invariant follows a request from the goroutine that makes it to the *)
(* record: it is on the wire or delivered but not both, a goroutine that   *)
(* was told of success has a delivery behind it, and a record is the last  *)
(* thing its goroutine did.                                                *)
(***************************************************************************)
EXTENDS AlertDispatch, TLAPS

(* No goroutine sends what was not dispatched, and what none sends is      *)
(* nowhere.                                                                *)
NotSent ==
  /\ \A s \in Sends : s[1] > called => task[s] = "none"
  /\ \A s \in Sends : task[s] = "none" => s \notin wire /\ delivered[s] = 0

OneRequest ==
  \A s \in Sends : delivered[s] <= 1 /\ (s \in wire => delivered[s] = 0)

Believed == \A s \in Sends : task[s] = "success" => delivered[s] > 0

RecordedOnce ==
  /\ \A r \in history : task[r.send] = "ended"
  /\ \A q, r \in history : q.send = r.send => q = r

AlertInv ==
  /\ TypeOK
  /\ NotSent
  /\ OneRequest
  /\ Believed
  /\ RecordedOnce
  /\ SuccessWasDelivered
  /\ HistoryHasChannel
-----------------------------------------------------------------------------
ChannelRows == [there : {"no", "yes", "deleted"}, enabled : BOOLEAN]
PutRequests == [pc : {"write", "done"}, channel : Channels, enabled : {"true", "false", "absent"}]
Tasks == {"none", "sending", "success", "failed", "ended"}

LEMMA SendParts ==
  ASSUME NEW s \in Sends
  PROVE  s[1] \in Notices /\ s[2] \in Channels /\ s = <<s[1], s[2]>>
BY DEF Sends

LEMMA RecordParts ==
  ASSUME TypeOK, NEW r \in history
  PROVE  r.send \in Sends /\ r.status \in Statuses
BY DEF TypeOK

LEMMA NoPutPc == NoPut.pc = "idle"
BY DEF NoPut

LEMMA FaultType ==
  ASSUME TypeOK, Fault
  PROVE  faults' \in 0..MaxFaults
BY AlertAssumption DEF TypeOK, Fault

LEMMA InitInd == Init => AlertInv
<1> SUFFICES ASSUME Init PROVE AlertInv
  OBVIOUS
<1>1. NotCreated \in ChannelRows
  <2>1. FALSE \in BOOLEAN
    OBVIOUS
  <2> QED BY <2>1 DEF NotCreated, ChannelRows
<1>2. TypeOK
  BY <1>1, AlertAssumption DEF Init, TypeOK, ChannelRows, Notices
<1>3. NotSent /\ OneRequest /\ Believed
  BY DEF Init, NotSent, OneRequest, Believed
<1>4. RecordedOnce /\ SuccessWasDelivered /\ HistoryHasChannel
  BY DEF Init, RecordedOnce, SuccessWasDelivered, HistoryHasChannel
<1> QED BY <1>2, <1>3, <1>4 DEF AlertInv
-----------------------------------------------------------------------------
(* A step of the handlers: rows change, no goroutine does.  What is left   *)
(* of the history has its channel.                                         *)
LEMMA HandlerInd ==
  ASSUME AlertInv, TypeOK', UNCHANGED sendVars, history' \subseteq history, HistoryHasChannel'
  PROVE  AlertInv'
<1> USE DEF AlertInv, sendVars
<1>1. NotSent' /\ OneRequest' /\ Believed'
  BY DEF NotSent, OneRequest, Believed
<1>2. RecordedOnce' /\ SuccessWasDelivered'
  BY DEF RecordedOnce, SuccessWasDelivered
<1> QED BY <1>1, <1>2

LEMMA RowInd ==
  ASSUME AlertInv, NEW c \in Channels, CreateChannel(c) \/ DeleteChannel(c)
  PROVE  AlertInv'
<1> USE DEF AlertInv
<1> DEFINE r == IF CreateChannel(c) THEN [there |-> "yes", enabled |-> TRUE]
                ELSE [there |-> "deleted", enabled |-> FALSE]
<1>1. r \in ChannelRows /\ r.there \in {"yes", "deleted"} /\ (CreateChannel(c) => r.there = "yes")
  <2>1. TRUE \in BOOLEAN /\ FALSE \in BOOLEAN
    OBVIOUS
  <2>2. CASE CreateChannel(c)
    BY <2>1, <2>2 DEF ChannelRows
  <2>3. CASE ~CreateChannel(c)
    BY <2>1, <2>3 DEF ChannelRows
  <2> QED BY <2>2, <2>3
<1>2. /\ row' = [row EXCEPT ![c] = r] /\ UNCHANGED sendVars /\ UNCHANGED <<puts, faults>>
      /\ history' \subseteq history
      /\ CreateChannel(c) \/ \A q \in history' : q.send[2] # c
  <2>1. CASE CreateChannel(c)
    BY <2>1 DEF CreateChannel
  <2>2. CASE ~CreateChannel(c)
    BY <2>2 DEF DeleteChannel
  <2> QED BY <2>1, <2>2
<1> HIDE DEF r
<1>3. TypeOK'
  BY <1>1, <1>2 DEF TypeOK, ChannelRows, sendVars
<1>4. \A k \in Channels : k # c => row'[k] = row[k]
  BY <1>2 DEF TypeOK
<1>5. CreateChannel(c) => row'[c].there = "yes"
  BY <1>1, <1>2 DEF TypeOK
<1>6. HistoryHasChannel'
  <2> SUFFICES ASSUME NEW q \in history'
               PROVE  row'[q.send[2]].there = "yes"
    BY DEF HistoryHasChannel, There
  <2>1. q.send[2] \in Channels /\ row[q.send[2]].there = "yes"
    BY <1>2, RecordParts, SendParts DEF HistoryHasChannel, There
  <2> QED BY <1>2, <1>4, <1>5, <2>1
<1> QED BY <1>2, <1>3, <1>6, HandlerInd

LEMMA PutInd ==
  ASSUME AlertInv, NEW p \in Puts,
         \/ UpdateAlertChannel(p)
         \/ \E c \in Channels, e \in {"true", "false", "absent"} : ReadForPut(p, c, e)
  PROVE  AlertInv'
<1> USE DEF AlertInv
<1>1. CASE UpdateAlertChannel(p)
  <2> DEFINE c == puts[p].channel
             on == There(c) /\ puts[p].enabled = "true"
             r == [row[c] EXCEPT !.enabled = on]
  <2>1. puts[p] \in PutRequests /\ c \in Channels
    BY <1>1, NoPutPc DEF UpdateAlertChannel, TypeOK, PutRequests
  <2>2. puts' \in [Puts -> {NoPut} \cup PutRequests]
    <3>1. [puts[p] EXCEPT !.pc = "done"] \in PutRequests
      BY <2>1 DEF PutRequests
    <3>2. puts' = [puts EXCEPT ![p] = [puts[p] EXCEPT !.pc = "done"]]
      BY <1>1 DEF UpdateAlertChannel, TypeOK
    <3> QED BY <3>1, <3>2 DEF TypeOK, PutRequests
  <2>3. on \in BOOLEAN
    OBVIOUS
  <2>4. row[c] \in ChannelRows
    BY <2>1 DEF TypeOK, ChannelRows
  <2>5. row' = [row EXCEPT ![c] = r]
    BY <1>1, <2>1 DEF UpdateAlertChannel, TypeOK
  <2> HIDE DEF on
  <2>6. r \in ChannelRows /\ r.there = row[c].there
    BY <2>3, <2>4 DEF ChannelRows
  <2> HIDE DEF r, c
  <2>7. UNCHANGED sendVars /\ UNCHANGED <<history, faults>>
    BY <1>1 DEF UpdateAlertChannel
  <2>8. TypeOK'
    BY <2>1, <2>2, <2>5, <2>6, <2>7 DEF TypeOK, ChannelRows, PutRequests, sendVars
  <2>9. \A k \in Channels : row'[k].there = row[k].there
    BY <2>5, <2>6 DEF TypeOK
  <2>10. HistoryHasChannel'
    BY <2>7, <2>9, RecordParts, SendParts DEF HistoryHasChannel, There
  <2> QED BY <2>7, <2>8, <2>10, HandlerInd
<1>2. ASSUME NEW c \in Channels, NEW e \in {"true", "false", "absent"}, ReadForPut(p, c, e)
      PROVE  AlertInv'
  <2>1. TypeOK'
    BY <1>2 DEF ReadForPut, TypeOK, sendVars
  <2>2. HistoryHasChannel'
    BY <1>2 DEF ReadForPut, HistoryHasChannel, There
  <2> QED BY <1>2, <2>1, <2>2, HandlerInd DEF ReadForPut
<1> QED BY <1>1, <1>2
-----------------------------------------------------------------------------
(* Goroutines start for what nobody has sent yet.                          *)
LEMMA StartInd ==
  ASSUME AlertInv, NEW sends \in SUBSET Sends, Start(sends),
         \A s \in sends : task[s] = "none" /\ s[1] <= called',
         called' \in Notices, called' >= called, UNCHANGED <<row, puts, delivered, history, faults>>
  PROVE  AlertInv'
<1> USE DEF AlertInv, Start
<1>1. \A s \in Sends : task'[s] = IF s \in sends THEN "sending" ELSE task[s]
  OBVIOUS
<1>2. TypeOK'
  BY DEF TypeOK
<1>3. NotSent'
  <2>1. called \in Int /\ called' \in Int
    BY DEF TypeOK, Notices
  <2>2. \A s \in Sends : s[1] \in Int
    BY SendParts DEF Notices
  <2> QED BY <1>1, <2>1, <2>2 DEF NotSent
<1>4. OneRequest'
  BY DEF OneRequest, NotSent
<1>5. Believed'
  BY <1>1 DEF Believed
<1>6. RecordedOnce'
  BY <1>1, RecordParts DEF RecordedOnce
<1>7. SuccessWasDelivered' /\ HistoryHasChannel'
  BY DEF SuccessWasDelivered, HistoryHasChannel, There
<1> QED BY <1>2, <1>3, <1>4, <1>5, <1>6, <1>7

LEMMA DispatchInd ==
  ASSUME AlertInv, Dispatch
  PROVE  AlertInv'
<1> DEFINE sends == {called + 1} \X EnabledChannels
<1>1. called \in Nat /\ called + 1 \in Notices /\ called' = called + 1
  BY AlertAssumption DEF Dispatch, AlertInv, TypeOK, Notices
<1>2. sends \in SUBSET Sends
  BY <1>1 DEF EnabledChannels, Sends
<1>3. \A s \in sends : s[1] = called + 1
  OBVIOUS
<1> HIDE DEF sends
<1>4. \A s \in sends : task[s] = "none" /\ s[1] <= called'
  BY <1>1, <1>2, <1>3 DEF AlertInv, NotSent
<1>5. Start(sends) /\ UNCHANGED <<row, puts, delivered, history, faults>>
  BY DEF Dispatch, sends
<1>6. called' \in Notices /\ called' >= called
  BY <1>1
<1> QED BY <1>2, <1>4, <1>5, <1>6, StartInd

LEMMA SendTestInd ==
  ASSUME AlertInv, NEW c \in Channels, SendTest(c)
  PROVE  AlertInv'
<1>1. called \in Nat /\ called \in Notices
  BY AlertAssumption DEF AlertInv, TypeOK, Notices
<1>2. <<0, c>> \in Sends /\ <<0, c>>[1] = 0
  BY AlertAssumption DEF Sends, Notices
<1> DEFINE sends == {<<0, c>>}
<1>3. sends \in SUBSET Sends /\ \A s \in sends : task[s] = "none" /\ s[1] <= called
  BY <1>1, <1>2 DEF SendTest
<1>4. Start(sends) /\ UNCHANGED <<row, puts, called, delivered, history, faults>>
  BY DEF SendTest
<1> HIDE DEF sends
<1>5. called' \in Notices /\ called' >= called
  BY <1>1, <1>4
<1> QED BY <1>3, <1>4, <1>5, StartInd

LEMMA DispatchErrorInd ==
  ASSUME AlertInv, DispatchError
  PROVE  AlertInv'
<1> USE DEF AlertInv, DispatchError
<1>1. called \in Nat /\ called' = called + 1 /\ called' \in Notices
  BY AlertAssumption DEF TypeOK, Notices
<1>2. TypeOK'
  BY <1>1, FaultType DEF TypeOK
<1>3. NotSent'
  <2>1. \A s \in Sends : s[1] \in Int
    BY SendParts DEF Notices
  <2> QED BY <1>1, <2>1 DEF NotSent
<1>4. OneRequest' /\ Believed' /\ RecordedOnce'
  BY DEF OneRequest, Believed, RecordedOnce
<1>5. SuccessWasDelivered' /\ HistoryHasChannel'
  BY DEF SuccessWasDelivered, HistoryHasChannel, There
<1> QED BY <1>2, <1>3, <1>4, <1>5
-----------------------------------------------------------------------------
(* A request arrives, at once or late.                                     *)
LEMMA DeliverInd ==
  ASSUME AlertInv, NEW s \in Sends, Deliver(s)
  PROVE  AlertInv'
<1> USE DEF AlertInv, Deliver
<1>1. delivered[s] = 0 /\ delivered'[s] = 1 /\ \A k \in Sends : k # s => delivered'[k] = delivered[k]
  BY DEF TypeOK, OneRequest
<1>2. TypeOK'
  BY <1>1 DEF TypeOK
<1>3. NotSent' /\ OneRequest' /\ Believed'
  BY <1>1 DEF NotSent, OneRequest, Believed
<1>4. RecordedOnce' /\ HistoryHasChannel'
  BY DEF RecordedOnce, HistoryHasChannel, There
<1>5. SuccessWasDelivered'
  BY <1>1, RecordParts DEF SuccessWasDelivered
<1> QED BY <1>2, <1>3, <1>4, <1>5

(* sendToChannel returns.                                                  *)
LEMMA AnsweredInd ==
  ASSUME AlertInv, NEW s \in Sends, Accepted(s) \/ Refused(s)
  PROVE  AlertInv'
<1> USE DEF AlertInv, Accepted, Refused
<1>1. /\ task[s] = "sending" /\ task'[s] \in {"success", "failed"}
      /\ task'[s] = "success" => delivered[s] > 0
      /\ \A k \in Sends : k # s => task'[k] = task[k]
  BY DEF TypeOK
<1>2. TypeOK'
  BY DEF TypeOK
<1>3. NotSent' /\ OneRequest'
  BY <1>1 DEF NotSent, OneRequest
<1>4. Believed'
  BY <1>1 DEF Believed
<1>5. RecordedOnce'
  BY <1>1, RecordParts DEF RecordedOnce
<1>6. SuccessWasDelivered' /\ HistoryHasChannel'
  BY DEF SuccessWasDelivered, HistoryHasChannel, There
<1> QED BY <1>2, <1>3, <1>4, <1>5, <1>6

(* InsertAlertRecord, or the error that keeps it from the table.           *)
LEMMA RecordInd ==
  ASSUME AlertInv, NEW s \in Sends, Record(s) \/ RecordError(s)
  PROVE  AlertInv'
<1> USE DEF AlertInv, Record, RecordError
<1> DEFINE q == [send |-> s, status |-> task[s]]
<1>1. q.send = s /\ q.status = task[s] /\ task[s] \in Statuses
  OBVIOUS
<1>2. /\ history' = history \/ (history' = history \cup {q} /\ There(s[2]))
      /\ UNCHANGED <<row, puts, called, wire, delivered>> /\ faults' \in 0..MaxFaults
  BY FaultType DEF Insert, TypeOK
<1>3. q \in [send : Sends, status : Statuses]
  BY <1>1
<1> HIDE DEF q
<1>4. task'[s] = "ended" /\ \A k \in Sends : k # s => task'[k] = task[k]
  BY DEF TypeOK
<1>5. TypeOK'
  BY <1>2, <1>3 DEF TypeOK
<1>6. NotSent' /\ OneRequest' /\ Believed'
  BY <1>1, <1>2, <1>4 DEF NotSent, OneRequest, Believed, Statuses
<1>7. \A r \in history : r.send # s
  BY <1>1 DEF RecordedOnce, Statuses
<1>8. RecordedOnce'
  BY <1>1, <1>2, <1>4, <1>7, RecordParts DEF RecordedOnce
<1>9. SuccessWasDelivered'
  BY <1>1, <1>2 DEF SuccessWasDelivered, Believed
<1>10. HistoryHasChannel'
  BY <1>1, <1>2 DEF HistoryHasChannel, There
<1> QED BY <1>5, <1>6, <1>8, <1>9, <1>10

LEMMA CrashInd ==
  ASSUME AlertInv, Crash
  PROVE  AlertInv'
<1> USE DEF AlertInv, Crash
<1>1. \A s \in Sends : task'[s] = IF task[s] = "none" THEN "none" ELSE "ended"
  OBVIOUS
<1>2. puts' \in [Puts -> {NoPut} \cup PutRequests]
  <2>1. \A p \in Puts : puts[p].pc = "write" => puts[p] \in PutRequests
    BY NoPutPc DEF TypeOK, PutRequests
  <2>2. \A p \in Puts : puts[p].pc = "write" => [puts[p] EXCEPT !.pc = "done"] \in PutRequests
    BY <2>1 DEF PutRequests
  <2> QED BY <2>2 DEF TypeOK, PutRequests
<1>3. TypeOK'
  BY <1>2, FaultType DEF TypeOK, PutRequests
<1>4. NotSent' /\ OneRequest' /\ Believed'
  BY <1>1 DEF NotSent, OneRequest, Believed
<1>5. RecordedOnce'
  BY <1>1, RecordParts DEF RecordedOnce
<1>6. SuccessWasDelivered' /\ HistoryHasChannel'
  BY DEF SuccessWasDelivered, HistoryHasChannel, There
<1> QED BY <1>3, <1>4, <1>5, <1>6
-----------------------------------------------------------------------------
(* Every step keeps the invariant.                                         *)
LEMMA StepInd ==
  ASSUME AlertInv, [Next]_vars
  PROVE  AlertInv'
<1>1. CASE UNCHANGED vars
  <2> USE <1>1 DEF vars, AlertInv
  <2>1. TypeOK' /\ HistoryHasChannel'
    BY DEF TypeOK, HistoryHasChannel, There
  <2> QED BY <2>1, HandlerInd DEF sendVars
<1>2. CASE Next
  BY <1>2, RowInd, PutInd, DispatchInd, SendTestInd, DispatchErrorInd, DeliverInd, AnsweredInd,
     RecordInd, CrashInd DEF Next, SendStep
<1> QED BY <1>1, <1>2

LEMMA Invariance == Spec => []AlertInv
<1>1. AlertInv /\ [Next]_vars => AlertInv'
  BY StepInd
<1> QED BY InitInd, <1>1, PTL DEF Spec

(* The variables of the module keep their types, for any channels, PUTs,   *)
(* notices and faults.                                                     *)
THEOREM TypeCorrect == Spec => []TypeOK
<1>1. AlertInv => TypeOK
  BY DEF AlertInv
<1> QED BY <1>1, Invariance, PTL

(* alert.go, dispatch: no receiver gets a notice twice and no attempt has  *)
(* two records, timeouts, late deliveries and crashes included.            *)
THEOREM NothingIsSentTwice == Spec => []AtMostOnce
<1>1. AlertInv => AtMostOnce
  BY DEF AlertInv, OneRequest, RecordedOnce, AtMostOnce
<1> QED BY <1>1, Invariance, PTL

(* A record of success (InsertAlertRecord) has a delivery behind it.       *)
THEOREM SuccessIsTrue == Spec => []SuccessWasDelivered
<1>1. AlertInv => SuccessWasDelivered
  BY DEF AlertInv
<1> QED BY <1>1, Invariance, PTL

(* A deleted channel leaves no history, and none comes back, whatever its  *)
(* goroutines still record.                                                *)
THEOREM HistoryGoesWithTheChannel == Spec => []HistoryHasChannel
<1>1. AlertInv => HistoryHasChannel
  BY DEF AlertInv
<1> QED BY <1>1, Invariance, PTL
-----------------------------------------------------------------------------
(* What becomes of an attempt.                                             *)

(* Nothing was sent to a channel that was never there, so that one which   *)
(* is not there was deleted; and a goroutine that has ended left a record, *)
(* unless something broke or the channel is gone.                          *)
Accounted ==
  /\ \A s \in Sends : task[s] # "none" => row[s[2]].there # "no"
  /\ faults = 0 =>
       \A s \in Sends : task[s] = "ended" =>
         row[s[2]].there = "deleted" \/ \E r \in history : r.send = s

(* A goroutine of each of some channels that are there is started.         *)
LEMMA StartAccounted ==
  ASSUME AlertInv, Accounted, NEW sends \in SUBSET Sends, Start(sends),
         \A s \in sends : There(s[2]), UNCHANGED <<row, history, faults>>
  PROVE  Accounted'
<1>1. \A s \in Sends : task'[s] = IF s \in sends THEN "sending" ELSE task[s]
  BY DEF Start
<1>2. \A s \in sends : row[s[2]].there = "yes"
  BY DEF There
<1> QED BY <1>1, <1>2 DEF Accounted

(* The rows of the channels: one appears, one goes for good, one is        *)
(* changed and stays where it is.                                          *)
LEMMA RowAccounted ==
  ASSUME AlertInv, Accounted, NEW c \in Channels,
         CreateChannel(c) \/ DeleteChannel(c) \/ \E p \in Puts : UpdateAlertChannel(p)
  PROVE  Accounted'
<1>0. row \in [Channels -> ChannelRows]
  BY DEF AlertInv, TypeOK, ChannelRows
<1>1. CASE CreateChannel(c)
  <2>1. /\ row[c].there = "no" /\ row'[c].there = "yes" /\ UNCHANGED <<task, history, faults>>
        /\ \A k \in Channels \ {c} : row'[k] = row[k]
    BY <1>0, <1>1 DEF CreateChannel, NotCreated, sendVars
  <2>2. \A s \in Sends : s[2] = c => task[s] = "none"
    BY <2>1 DEF Accounted
  <2> QED BY <2>1, <2>2, SendParts DEF Accounted
<1>2. CASE DeleteChannel(c)
  <2>1. /\ row'[c].there = "deleted" /\ history' = {r \in history : r.send[2] # c}
        /\ UNCHANGED <<task, faults>> /\ \A k \in Channels \ {c} : row'[k] = row[k]
    BY <1>0, <1>2 DEF DeleteChannel, sendVars
  <2>2. \A s \in Sends : s[2] # c =>
          row'[s[2]] = row[s[2]] /\ \A r \in history : r.send = s => r \in history'
    BY <2>1, SendParts
  <2> QED BY <2>1, <2>2 DEF Accounted
<1>3. ASSUME NEW p \in Puts, UpdateAlertChannel(p)
      PROVE  Accounted'
  <2>1. \A k \in Channels : row'[k].there = row[k].there
    <3>1. row[puts[p].channel] \in ChannelRows
      BY <1>0, <1>3, NoPutPc DEF UpdateAlertChannel, AlertInv, TypeOK
    <3>2. \A e : [row[puts[p].channel] EXCEPT !.enabled = e].there = row[puts[p].channel].there
      BY <3>1 DEF ChannelRows
    <3> QED BY <1>0, <1>3, <3>2 DEF UpdateAlertChannel
  <2>2. UNCHANGED <<task, history, faults>>
    BY <1>3 DEF UpdateAlertChannel, sendVars
  <2> QED BY <2>1, <2>2, SendParts DEF Accounted
<1> QED BY <1>1, <1>2, <1>3

LEMMA RecordAccounted ==
  ASSUME AlertInv, Accounted, NEW s \in Sends, Record(s)
  PROVE  Accounted'
<1> DEFINE q == [send |-> s, status |-> task[s]]
<1>1. /\ \A k \in Sends \ {s} : task'[k] = task[k]
      /\ task[s] # "none" /\ UNCHANGED <<row, faults>>
      /\ history' = IF There(s[2]) THEN history \cup {q} ELSE history
  BY DEF Record, Insert, Statuses, AlertInv, TypeOK
<1>2. q.send = s
  OBVIOUS
<1> HIDE DEF q
<1>3. row[s[2]].there \in {"no", "yes", "deleted"} /\ row[s[2]].there # "no"
  BY <1>1, SendParts DEF AlertInv, TypeOK, Accounted
<1>4. row[s[2]].there = "deleted" \/ \E r \in history' : r.send = s
  BY <1>1, <1>2, <1>3 DEF There
<1> QED BY <1>1, <1>3, <1>4 DEF Accounted

LEMMA AccountedFor == Spec => []Accounted
<1>1. Init => Accounted
  BY DEF Init, Accounted
<1>2. ASSUME AlertInv, Accounted, [Next]_vars
      PROVE  Accounted'
  <2> USE <1>2
  <2>1. ASSUME NEW c \in Channels, CreateChannel(c) \/ DeleteChannel(c)
        PROVE  Accounted'
    BY <2>1, RowAccounted
  <2>2. ASSUME NEW p \in Puts, UpdateAlertChannel(p)
        PROVE  Accounted'
    <3>1. puts[p].channel \in Channels
      BY <2>2, NoPutPc DEF UpdateAlertChannel, AlertInv, TypeOK
    <3> QED BY <2>2, <3>1, RowAccounted
  <2>3. CASE Dispatch
    <3> DEFINE sends == {called + 1} \X EnabledChannels
    <3>1. called + 1 \in Notices
      BY <2>3, AlertAssumption DEF Dispatch, AlertInv, TypeOK, Notices
    <3>2. sends \in SUBSET Sends /\ \A s \in sends : There(s[2])
      BY <3>1 DEF EnabledChannels, Sends
    <3> QED BY <2>3, <3>2, StartAccounted DEF Dispatch
  <2>4. ASSUME NEW c \in Channels, SendTest(c)
        PROVE  Accounted'
    <3> DEFINE sends == {<<0, c>>}
    <3>1. sends \in SUBSET Sends /\ \A s \in sends : There(s[2])
      BY <2>4, AlertAssumption DEF SendTest, Sends, Notices
    <3> QED BY <2>4, <3>1, StartAccounted DEF SendTest
  <2>5. ASSUME NEW s \in Sends, Record(s)
        PROVE  Accounted'
    BY <2>5, RecordAccounted
  <2>6. ASSUME NEW s \in Sends, Accepted(s) \/ Refused(s)
        PROVE  Accounted'
    <3>1. /\ \A k \in Sends \ {s} : task'[k] = task[k]
          /\ task[s] # "none" /\ task'[s] # "ended" /\ UNCHANGED <<row, history, faults>>
      BY <2>6 DEF Accepted, Refused, AlertInv, TypeOK
    <3> QED BY <3>1 DEF Accounted
  <2>7. CASE Crash \/ DispatchError \/ \E s \in Sends : RecordError(s)
    <3>1. faults' # 0
      BY <2>7, FaultType DEF Crash, DispatchError, RecordError, Fault, AlertInv, TypeOK
    <3>2. row' = row /\ \A s \in Sends : task'[s] # "none" => task[s] # "none"
      BY <2>7 DEF Crash, DispatchError, RecordError, Statuses, AlertInv, TypeOK
    <3> QED BY <3>1, <3>2 DEF Accounted
  <2>8. CASE \/ UNCHANGED vars \/ \E s \in Sends : Deliver(s)
             \/ \E p \in Puts, c \in Channels, e \in {"true", "false", "absent"} : ReadForPut(p, c, e)
    BY <2>8 DEF vars, Deliver, ReadForPut, sendVars, Accounted
  <2> QED BY <2>1, <2>2, <2>3, <2>4, <2>5, <2>6, <2>7, <2>8 DEF Next, SendStep
<1> QED BY <1>1, <1>2, Invariance, PTL DEF Spec

(* alert.go, dispatch: while nothing breaks, an attempt whose goroutine    *)
(* has ended is in the history, a failure as well as a success, unless its *)
(* channel was deleted; and a success there has been delivered.  (That a   *)
(* webhook's goroutine ends is AttemptsAreRecorded; an email's may not.)   *)
AttemptsLeaveARecord ==
  faults = 0 =>
    \A s \in Sends : task[s] = "ended" =>
      \/ row[s[2]].there = "deleted"
      \/ \E r \in history : r.send = s /\ (r.status = "success" => delivered[s] > 0)

THEOREM NoAttemptIsForgotten == Spec => []AttemptsLeaveARecord
<1>1. AlertInv /\ Accounted => AttemptsLeaveARecord
  BY DEF AlertInv, Accounted, AttemptsLeaveARecord, SuccessWasDelivered
<1> QED BY <1>1, Invariance, AccountedFor, PTL
=============================================================================
