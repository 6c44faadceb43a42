---------------------------- MODULE JoiningProofs ----------------------------
(***************************************************************************)
(* Proofs about Joining for any hosts, tokens, attempts and faults.  Three *)
(* things hold together: what a request has come to and whether its token  *)
(* is used, whose attempt each command is making, and what the files of a  *)
(* machine are when its command is at a given step.                        *)
(***************************************************************************)
EXTENDS Joining, TLAPS

Admitted(a) == req[a].pc \in {"valid", "ok"}

(* A token that let a request through is used, and it was that request's.  *)
Consumed ==
  /\ \A a \in Attempts : a > attempts => req[a] = NoReq
  /\ \A a \in Attempts : Admitted(a) => token[req[a].token] = "used"
  /\ \A a, b \in Attempts : Admitted(a) /\ Admitted(b) /\ req[a].token = req[b].token => a = b
  /\ \A a \in Attempts : req[a].pc = "ok" => a \in Known
  /\ \A a \in Known : req[a].pc \in {"none", "ok"}
  /\ rows \cap removed = {}

(* A host that is past its request was admitted; no request was made under *)
(* the number of a run of init, whose row is not there before it ends.     *)
Commands ==
  /\ \A m \in Machines : at[m] # "out" => attempt[m] \in Attempts
  /\ at[Coordinator] # "out" => /\ req[attempt[Coordinator]].pc = "none"
                                /\ attempt[Coordinator] \notin Known
  /\ \A h \in Hosts : at[h] \notin {"out", "asking"} => req[attempt[h]].pc = "ok"
  /\ MembersAreKnown

(* What a command has written so far belongs to its attempt, or is broken. *)
(* Nobody asks the coordinator before its files are final.                 *)
Written ==
  /\ at[Coordinator] # "asking"
  /\ at[Coordinator] \in {"caKey", "cert", "key", "save"} =>
       file[Coordinator].ca \in {attempt[Coordinator], Broken}
  /\ at[Coordinator] \in {"cert", "key", "save"} =>
       file[Coordinator].caKey \in {attempt[Coordinator], Broken}
  /\ at[Coordinator] \in {"key", "save"} => ~CAIsBroken
  /\ \A h \in Hosts : at[h] # "caKey"
  /\ \A h \in Hosts : at[h] \in {"cert", "key", "save"} => file[h].ca = file[Coordinator].ca
  /\ \A m \in Machines :
       at[m] \in {"key", "save"} =>
         \/ file[m].cert = attempt[m] /\ file[m].signer = file[Coordinator].ca
         \/ m = Coordinator /\ file[m].cert = Broken
  /\ \A m \in Machines :
       at[m] = "save" => file[m].key = attempt[m] \/ (m = Coordinator /\ file[m].key = Broken)
  /\ \A a \in Attempts : req[a].pc # "none" => config[Coordinator] # 0
  /\ \A h \in Hosts : config[h] # 0 => config[Coordinator] # 0
  /\ \A a \in Attempts : req[a].pc = "ok" => /\ req[a].ca = file[Coordinator].ca
                                             /\ req[a].signer = file[Coordinator].ca
  /\ IdentityIsConsistent

JoinInv == TypeOK /\ Consumed /\ Commands /\ Written
-----------------------------------------------------------------------------
(* The invariant holds of a cluster nobody has made yet.                    *)
LEMMA InitInd == Init => JoinInv
<1> SUFFICES ASSUME Init PROVE JoinInv
  OBVIOUS
<1>1. TypeOK
  BY JoiningAssumption DEF Init, TypeOK, Files, NoFiles, Steps, Ids, Contents
<1>2. Consumed
  BY DEF Init, Consumed, Admitted, NoReq, Known
<1>3. Commands
  BY DEF Init, Commands, MembersAreKnown, Machines
<1>4. Written
  BY DEF Init, Written, IdentityIsConsistent, Machines, NoReq
<1> QED BY <1>1, <1>2, <1>3, <1>4 DEF JoinInv
-----------------------------------------------------------------------------
(* The record that stands for no request is not one of a request.          *)
LEMMA NotMade == NoReq.pc = "none"
BY DEF NoReq

(* A request that was made is one, and a number that is used was given out. *)
LEMMA RequestType ==
  ASSUME TypeOK, NEW a \in Attempts, req[a].pc # "none"
  PROVE  req[a] \in Requests /\ req[a].ca \in Contents /\ req[a].signer \in Contents
<1>1. req[a] # NoReq
  BY NotMade
<1>2. req[a] \in Requests
  BY <1>1 DEF TypeOK
<1> QED BY <1>2 DEF Requests

(* A command that runs makes an attempt that was begun.                    *)
LEMMA AttemptType ==
  ASSUME JoinInv, NEW m \in Machines, at[m] # "out"
  PROVE  attempt[m] \in Attempts /\ attempt[m] \in Ids /\ attempt[m] \in 1..attempts
BY JoiningAssumption DEF JoinInv, TypeOK, Commands, Attempts, Ids

(* A file of a machine that is written keeps the type of its directory.     *)
LEMMA FileWritten ==
  ASSUME NEW f \in Files, NEW x \in Contents
  PROVE  /\ [f EXCEPT !.ca = x] \in Files
         /\ [f EXCEPT !.caKey = x] \in Files
         /\ [f EXCEPT !.key = x] \in Files
BY DEF Files

LEMMA CertWritten ==
  ASSUME NEW f \in Files, NEW x \in Contents, NEW s \in Contents
  PROVE  [f EXCEPT !.cert = x, !.signer = s] \in Files
BY DEF Files

LEMMA DirectoryUpdated ==
  ASSUME NEW d \in [Machines -> Files], NEW m \in Machines, NEW f \in Files
  PROVE  [d EXCEPT ![m] = f] \in [Machines -> Files]
OBVIOUS

(* What a joining host asks with is a request, and a request put in the      *)
(* place of any other keeps the type of the requests.                       *)
LEMMA AskingIsRequest ==
  ASSUME NEW t \in Tokens
  PROVE  [pc |-> "sent", token |-> t, ca |-> 0, signer |-> 0] \in Requests
<1>1. 0 \in Contents
  BY JoiningAssumption DEF Ids, Contents
<1> QED BY <1>1 DEF Requests

LEMMA RequestsUpdated ==
  ASSUME NEW r \in [Attempts -> Requests \cup {NoReq}], NEW n, NEW q \in Requests
  PROVE  [r EXCEPT ![n] = q] \in [Attempts -> Requests \cup {NoReq}]
OBVIOUS

(* What comes of a write: one directory or the other, and nothing else but *)
(* a fault.                                                                *)
LEMMA WriteStep ==
  ASSUME TypeOK, NEW m \in Machines, NEW d \in Files, NEW b \in Files, Write(m, d, b)
  PROVE  /\ file' \in [Machines -> Files]
         /\ faults' \in 0..MaxFaults
         /\ UNCHANGED <<config, ownRow, rows>>
         /\ \A k \in Machines \ {m} : file'[k] = file[k]
         /\ file'[m] = d \/ (m = Coordinator /\ file'[m] = b)
<1>1. file \in [Machines -> Files] /\ faults \in 0..MaxFaults
  BY DEF TypeOK
<1>2. file' = [file EXCEPT ![m] = d] \/ (m = Coordinator /\ file' = [file EXCEPT ![m] = b])
  BY DEF Write
<1>3. faults' \in 0..MaxFaults
  BY <1>1, JoiningAssumption DEF Write, Fault
<1> QED BY <1>1, <1>2, <1>3 DEF Write

(* What the steps that write files leave in them.                          *)
LEMMA CAStep ==
  ASSUME JoinInv, NEW m \in Machines, WriteCA(m)
  PROVE  /\ file' \in [Machines -> Files] /\ faults' \in 0..MaxFaults
         /\ UNCHANGED <<config, ownRow, rows>>
         /\ \A k \in Machines \ {m} : file'[k] = file[k]
         /\ m = Coordinator => file'[m].ca \in {attempt[m], Broken}
         /\ m # Coordinator => file'[m].ca = req[attempt[m]].ca
<1> DEFINE x == IF m = Coordinator THEN attempt[m] ELSE req[attempt[m]].ca
<1>1. file[m] \in Files /\ at[m] = "ca"
  BY DEF JoinInv, TypeOK, WriteCA, OneStep
<1>2. attempt[m] \in Attempts /\ attempt[m] \in Contents
  BY <1>1, AttemptType DEF Contents
<1>3. m # Coordinator => req[attempt[m]].pc # "none"
  BY <1>1 DEF JoinInv, Commands, Machines
<1>4. x \in Contents
  BY <1>2, <1>3, RequestType DEF JoinInv
<1>5. Write(m, [file[m] EXCEPT !.ca = x], [file[m] EXCEPT !.ca = Broken])
  BY DEF WriteCA
<1>6. Broken \in Contents
  BY DEF Contents
<1>7. m # Coordinator => x = req[attempt[m]].ca
  OBVIOUS
<1>8. m = Coordinator => x = attempt[m]
  OBVIOUS
<1> HIDE DEF x
<1>9. /\ [file[m] EXCEPT !.ca = x] \in Files /\ [file[m] EXCEPT !.ca = Broken] \in Files
      /\ [file[m] EXCEPT !.ca = x].ca = x /\ [file[m] EXCEPT !.ca = Broken].ca = Broken
  BY <1>1, <1>4, <1>6, FileWritten DEF Files
<1> DEFINE d == [file[m] EXCEPT !.ca = x]
           b == [file[m] EXCEPT !.ca = Broken]
<1>10. /\ d \in Files /\ b \in Files /\ d.ca = x /\ b.ca = Broken /\ Write(m, d, b)
  BY <1>5, <1>9
<1> HIDE DEF d, b
<1>11. /\ file' \in [Machines -> Files] /\ faults' \in 0..MaxFaults
       /\ UNCHANGED <<config, ownRow, rows>>
       /\ \A k \in Machines \ {m} : file'[k] = file[k]
       /\ file'[m] = d \/ (m = Coordinator /\ file'[m] = b)
  BY <1>10, WriteStep DEF JoinInv
<1>12. m = Coordinator => file'[m].ca \in {attempt[m], Broken}
  BY <1>8, <1>10, <1>11
<1>13. m # Coordinator => file'[m].ca = req[attempt[m]].ca
  BY <1>7, <1>8, <1>10, <1>11
<1> QED BY <1>11, <1>12, <1>13

LEMMA CAKeyStep ==
  ASSUME JoinInv, WriteCAKey
  PROVE  /\ file' \in [Machines -> Files] /\ faults' \in 0..MaxFaults
         /\ UNCHANGED <<config, ownRow, rows>>
         /\ \A h \in Hosts : file'[h] = file[h]
         /\ file'[Coordinator].caKey \in {attempt[Coordinator], Broken}
         /\ file'[Coordinator].ca = file[Coordinator].ca
<1> DEFINE c == Coordinator
           d == [file[c] EXCEPT !.caKey = attempt[c]]
           b == [file[c] EXCEPT !.caKey = Broken]
<1>1. c \in Machines /\ file[c] \in Files /\ at[c] = "caKey" /\ Hosts \subseteq Machines \ {c}
  BY JoiningAssumption DEF JoinInv, TypeOK, Machines, WriteCAKey, OneStep
<1>2. attempt[c] \in Contents /\ Broken \in Contents
  BY <1>1, AttemptType DEF Contents
<1>3. Write(c, d, b)
  BY DEF WriteCAKey
<1>4. d \in Files /\ b \in Files
  BY <1>1, <1>2, FileWritten
<1>5. d.caKey = attempt[c] /\ b.caKey = Broken /\ d.ca = file[c].ca /\ b.ca = file[c].ca
  BY <1>1 DEF Files
<1> HIDE DEF c, d, b
<1>6. /\ file' \in [Machines -> Files] /\ faults' \in 0..MaxFaults
      /\ UNCHANGED <<config, ownRow, rows>>
      /\ \A k \in Machines \ {c} : file'[k] = file[k]
      /\ file'[c] = d \/ file'[c] = b
  BY <1>1, <1>3, <1>4, WriteStep DEF JoinInv
<1>7. file'[c].caKey \in {attempt[c], Broken} /\ file'[c].ca = file[c].ca
  BY <1>5, <1>6
<1> QED BY <1>1, <1>6, <1>7 DEF c

LEMMA CertStep ==
  ASSUME JoinInv, NEW m \in Machines, WriteCert(m)
  PROVE  /\ file' \in [Machines -> Files] /\ faults' \in 0..MaxFaults
         /\ UNCHANGED <<config, ownRow, rows>>
         /\ \A k \in Machines \ {m} : file'[k] = file[k]
         /\ file'[m].ca = file[m].ca /\ file'[m].caKey = file[m].caKey
         /\ \/ /\ file'[m].cert = attempt[m]
               /\ file'[m].signer = IF m = Coordinator THEN file[m].caKey
                                    ELSE req[attempt[m]].signer
            \/ m = Coordinator /\ file'[m].cert = Broken
<1> DEFINE x == IF m = Coordinator THEN file[m].caKey ELSE req[attempt[m]].signer
           d == [file[m] EXCEPT !.cert = attempt[m], !.signer = x]
           b == [file[m] EXCEPT !.cert = Broken, !.signer = Broken]
<1>1. file[m] \in Files /\ at[m] = "cert"
  BY DEF JoinInv, TypeOK, WriteCert, OneStep
<1>2. attempt[m] \in Attempts /\ attempt[m] \in Contents /\ Broken \in Contents
  BY <1>1, AttemptType DEF Contents
<1>3. m # Coordinator => req[attempt[m]].pc # "none"
  BY <1>1 DEF JoinInv, Commands, Machines
<1>4. file[m].caKey \in Contents
  BY <1>1 DEF Files
<1>5. x \in Contents
  BY <1>2, <1>3, <1>4, RequestType DEF JoinInv
<1>6. Write(m, d, b)
  BY DEF WriteCert
<1>7. x = IF m = Coordinator THEN file[m].caKey ELSE req[attempt[m]].signer
  OBVIOUS
<1> HIDE DEF x
<1>8. d \in Files /\ b \in Files
  BY <1>1, <1>2, <1>5, CertWritten
<1>9. /\ d.cert = attempt[m] /\ d.signer = x /\ d.ca = file[m].ca /\ d.caKey = file[m].caKey
      /\ b.cert = Broken /\ b.ca = file[m].ca /\ b.caKey = file[m].caKey
  BY <1>1 DEF Files
<1> HIDE DEF d, b
<1> QED BY <1>6, <1>7, <1>8, <1>9, WriteStep DEF JoinInv

LEMMA KeyStep ==
  ASSUME JoinInv, NEW m \in Machines, WriteKey(m)
  PROVE  /\ file' \in [Machines -> Files] /\ faults' \in 0..MaxFaults
         /\ UNCHANGED <<config, ownRow, rows>>
         /\ \A k \in Machines \ {m} : file'[k] = file[k]
         /\ file'[m].ca = file[m].ca /\ file'[m].caKey = file[m].caKey
         /\ file'[m].cert = file[m].cert /\ file'[m].signer = file[m].signer
         /\ file'[m].key = attempt[m] \/ (m = Coordinator /\ file'[m].key = Broken)
<1> DEFINE d == [file[m] EXCEPT !.key = attempt[m]]
           b == [file[m] EXCEPT !.key = Broken]
<1>1. file[m] \in Files /\ at[m] = "key"
  BY DEF JoinInv, TypeOK, WriteKey, OneStep
<1>2. attempt[m] \in Contents /\ Broken \in Contents
  BY <1>1, AttemptType DEF Contents
<1>3. Write(m, d, b)
  BY DEF WriteKey
<1>4. d \in Files /\ b \in Files
  BY <1>1, <1>2, FileWritten
<1>5. /\ d.key = attempt[m] /\ d.ca = file[m].ca /\ d.caKey = file[m].caKey
      /\ d.cert = file[m].cert /\ d.signer = file[m].signer
      /\ b.key = Broken /\ b.ca = file[m].ca /\ b.caKey = file[m].caKey
      /\ b.cert = file[m].cert /\ b.signer = file[m].signer
  BY <1>1 DEF Files
<1> HIDE DEF d, b
<1> QED BY <1>3, <1>4, <1>5, WriteStep DEF JoinInv

(* Each action keeps the types.                                            *)
LEMMA TypeInd ==
  ASSUME JoinInv, Next
  PROVE  TypeOK'
<1>0. ASSUME NEW m \in Machines, WriteCA(m) \/ WriteCert(m) \/ WriteKey(m) \/ (m = Coordinator /\ WriteCAKey)
      PROVE  /\ file' \in [Machines -> Files] /\ faults' \in 0..MaxFaults
             /\ UNCHANGED <<config, ownRow, rows>>
  BY <1>0, CAStep, CertStep, KeyStep, CAKeyStep
<1> USE JoiningAssumption DEF JoinInv, Machines, Attempts, Ids
<1>1. CASE RunInit
  <2> USE <1>1 DEF RunInit, Begin
  <2>1. at' \in [Machines -> {"out"} \cup Steps]
    BY DEF TypeOK, Steps
  <2>2. attempts' \in Ids
    BY DEF TypeOK
  <2>3. attempt' \in [Machines -> 0..attempts']
    BY DEF TypeOK
  <2>4. \A m \in Machines : config'[m] # 0 => at'[m] \in {"out", "register"}
    BY DEF TypeOK
  <2>5. rows' \subseteq 1..attempts' /\ removed' \subseteq 1..attempts'
    BY DEF TypeOK
  <2> QED BY <2>1, <2>2, <2>3, <2>4, <2>5 DEF TypeOK
<1>2. ASSUME NEW h \in Hosts, NEW t \in Tokens, RunJoin(h, t)
      PROVE  TypeOK'
  <2> USE <1>2 DEF RunJoin, Begin
  <2>1. at' \in [Machines -> {"out"} \cup Steps]
    BY DEF TypeOK, Steps
  <2>2. attempts' \in Ids
    BY DEF TypeOK
  <2>3. attempt' \in [Machines -> 0..attempts']
    BY DEF TypeOK
  <2>4. \A m \in Machines : config'[m] # 0 => at'[m] \in {"out", "register"}
    BY DEF TypeOK
  <2>5. rows' \subseteq 1..attempts' /\ removed' \subseteq 1..attempts'
    BY DEF TypeOK
  <2>6. req \in [Attempts -> Requests \cup {NoReq}]
    BY DEF TypeOK
  <2>7. req' = [req EXCEPT ![attempts + 1] =
                  [pc |-> "sent", token |-> t, ca |-> 0, signer |-> 0]]
    OBVIOUS
  <2>8. req' \in [Attempts -> Requests \cup {NoReq}]
    BY <2>6, <2>7, AskingIsRequest, RequestsUpdated
  <2> QED BY <2>1, <2>2, <2>3, <2>4, <2>5, <2>8 DEF TypeOK
<1>3. ASSUME NEW t \in Tokens, GenerateJoinToken(t) \/ Expire(t)
      PROVE  TypeOK'
  <2> USE <1>3 DEF GenerateJoinToken, Expire, commandVars
  <2>1. token' \in [Tokens -> {"none", "unused", "used", "expired"}]
    BY DEF TypeOK
  <2> QED BY <2>1 DEF TypeOK
<1>4. ASSUME NEW a \in Attempts, ValidateJoinToken(a)
      PROVE  TypeOK'
  <2> USE <1>4 DEF ValidateJoinToken, commandVars
  <2>1. req[a] \in Requests
    BY RequestType
  <2>2. token' \in [Tokens -> {"none", "unused", "used", "expired"}]
    BY DEF TypeOK
  <2>3. req' \in [Attempts -> Requests \cup {NoReq}]
    BY <2>1 DEF TypeOK, Requests, NoReq
  <2> QED BY <2>2, <2>3 DEF TypeOK
<1>5. ASSUME NEW a \in Attempts, Admit(a)
      PROVE  TypeOK'
  <2> USE <1>5 DEF Admit, Issued, commandVars
  <2>1. req[a] \in Requests
    BY RequestType
  <2>2. a \in 1..attempts
    <3>1. ~(a > attempts)
      BY NotMade DEF Consumed
    <3> QED BY <3>1 DEF TypeOK
  <2>3. rows' \subseteq 1..attempts'
    BY <2>1, <2>2 DEF TypeOK
  <2>4. req' \in [Attempts -> Requests \cup {NoReq}]
    <3>1. Issued(req[a]) \in Requests
      BY <2>1 DEF TypeOK, Requests, Files
    <3> QED BY <3>1 DEF TypeOK
  <2> QED BY <2>3, <2>4 DEF TypeOK
<1>6. ASSUME NEW a \in Attempts, JoinError(a)
      PROVE  TypeOK'
  <2> USE <1>6 DEF JoinError, Fault, commandVars
  <2>1. req[a] \in Requests
    BY RequestType
  <2>2. req' \in [Attempts -> Requests \cup {NoReq}]
    BY <2>1 DEF TypeOK, Requests, NoReq
  <2>3. faults' \in 0..MaxFaults
    BY DEF TypeOK
  <2> QED BY <2>2, <2>3 DEF TypeOK
<1>7. ASSUME NEW h \in Hosts, Answered(h)
      PROVE  TypeOK'
  <2> USE <1>7 DEF Answered, OneStep
  <2>1. at' \in [Machines -> {"out"} \cup Steps]
    BY DEF TypeOK, Steps
  <2>2. \A m \in Machines : config'[m] # 0 => at'[m] \in {"out", "register"}
    BY DEF TypeOK
  <2> QED BY <2>1, <2>2 DEF TypeOK
<1>8. ASSUME NEW m \in Machines, WriteCA(m)
      PROVE  TypeOK'
  <2>1. file' \in [Machines -> Files] /\ faults' \in 0..MaxFaults /\ UNCHANGED <<config, ownRow, rows>>
    BY ONLY <1>8, <1>0
  <2> USE <1>8 DEF WriteCA, OneStep
  <2>2. at' \in [Machines -> {"out"} \cup Steps]
    BY DEF TypeOK, Steps
  <2>3. \A k \in Machines : config'[k] # 0 => at'[k] \in {"out", "register"}
    BY <2>1 DEF TypeOK
  <2> QED BY <2>1, <2>2, <2>3 DEF TypeOK
<1>9. CASE WriteCAKey
  <2>1. file' \in [Machines -> Files] /\ faults' \in 0..MaxFaults /\ UNCHANGED <<config, ownRow, rows>>
    BY ONLY <1>9, <1>0
  <2> USE <1>9 DEF WriteCAKey, OneStep
  <2>2. at' \in [Machines -> {"out"} \cup Steps]
    BY DEF TypeOK, Steps
  <2>3. \A m \in Machines : config'[m] # 0 => at'[m] \in {"out", "register"}
    BY <2>1 DEF TypeOK
  <2> QED BY <2>1, <2>2, <2>3 DEF TypeOK
<1>10. ASSUME NEW m \in Machines, WriteCert(m)
      PROVE  TypeOK'
  <2>1. file' \in [Machines -> Files] /\ faults' \in 0..MaxFaults /\ UNCHANGED <<config, ownRow, rows>>
    BY ONLY <1>10, <1>0
  <2> USE <1>10 DEF WriteCert, OneStep
  <2>2. at' \in [Machines -> {"out"} \cup Steps]
    BY DEF TypeOK, Steps
  <2>3. \A k \in Machines : config'[k] # 0 => at'[k] \in {"out", "register"}
    BY <2>1 DEF TypeOK
  <2> QED BY <2>1, <2>2, <2>3 DEF TypeOK
<1>11. ASSUME NEW m \in Machines, WriteKey(m)
      PROVE  TypeOK'
  <2>1. file' \in [Machines -> Files] /\ faults' \in 0..MaxFaults /\ UNCHANGED <<config, ownRow, rows>>
    BY ONLY <1>11, <1>0
  <2> USE <1>11 DEF WriteKey, OneStep
  <2>2. at' \in [Machines -> {"out"} \cup Steps]
    BY DEF TypeOK, Steps
  <2>3. \A k \in Machines : config'[k] # 0 => at'[k] \in {"out", "register"}
    BY <2>1 DEF TypeOK
  <2> QED BY <2>1, <2>2, <2>3 DEF TypeOK
<1>12. ASSUME NEW m \in Machines, Save(m)
      PROVE  TypeOK'
  <2> USE <1>12 DEF Save, OneStep
  <2>1. at' \in [Machines -> {"out"} \cup Steps]
    BY DEF TypeOK, Steps
  <2>2. \A k \in Machines : config'[k] # 0 => at'[k] \in {"out", "register"}
    BY DEF TypeOK
  <2>3. config' \in [Machines -> Ids]
    BY DEF TypeOK
  <2> QED BY <2>1, <2>2, <2>3 DEF TypeOK
<1>13. ASSUME NEW m \in Machines, Register(m)
      PROVE  TypeOK'
  <2> USE <1>13 DEF Register, OneStep
  <2>1. attempt[m] \in 1..attempts /\ attempt[m] \in Ids
    BY AttemptType
  <2>2. at' \in [Machines -> {"out"} \cup Steps]
    BY DEF TypeOK, Steps
  <2>3. \A k \in Machines : config'[k] # 0 => at'[k] \in {"out", "register"}
    BY DEF TypeOK
  <2>4. ownRow' \in [Machines -> Ids]
    BY <2>1 DEF TypeOK
  <2>5. rows' \subseteq 1..attempts'
    BY <2>1 DEF TypeOK
  <2> QED BY <2>2, <2>3, <2>4, <2>5 DEF TypeOK
<1>14. ASSUME NEW m \in Machines, Stop(m)
      PROVE  TypeOK'
  <2> USE <1>14 DEF Stop, Fault
  <2>1. at' \in [Machines -> {"out"} \cup Steps]
    BY DEF TypeOK, Steps
  <2>2. \A k \in Machines : config'[k] # 0 => at'[k] \in {"out", "register"}
    BY DEF TypeOK
  <2>3. faults' \in 0..MaxFaults
    BY DEF TypeOK
  <2> QED BY <2>1, <2>2, <2>3 DEF TypeOK
<1>15. ASSUME NEW h \in Hosts, ApplyConfigSync(h)
      PROVE  TypeOK'
  <2> USE <1>15 DEF ApplyConfigSync
  <2>1. ownRow' \in [Machines -> Ids]
    BY DEF TypeOK
  <2> QED BY <2>1 DEF TypeOK
<1>16. CASE RejectCA
  <2> USE <1>16 DEF RejectCA, OneStep
  <2>1. at' \in [Machines -> {"out"} \cup Steps]
    BY DEF TypeOK, Steps
  <2>2. \A m \in Machines : config'[m] # 0 => at'[m] \in {"out", "register"}
    BY DEF TypeOK
  <2> QED BY <2>1, <2>2 DEF TypeOK
<1>17. ASSUME NEW m \in Machines, NEW a \in Attempts, DeleteNode(m, a)
       PROVE  TypeOK'
  <2> USE <1>17 DEF DeleteNode
  <2>1. ownRow' \in [Machines -> Ids]
    BY DEF TypeOK
  <2>2. rows' \subseteq 1..attempts' /\ removed' \subseteq 1..attempts'
    BY DEF TypeOK
  <2> QED BY <2>1, <2>2 DEF TypeOK
<1> QED
  BY <1>1, <1>2, <1>3, <1>4, <1>5, <1>6, <1>7, <1>8, <1>9, <1>10, <1>11, <1>12, <1>13, <1>14, <1>15, <1>16, <1>17
  DEF Next, Command, Handler
-----------------------------------------------------------------------------
(* Each action keeps what is known of requests and tokens.                 *)
LEMMA ConsumedInd ==
  ASSUME JoinInv, Next
  PROVE  Consumed'
<1> USE DEF JoinInv, Attempts
<1>0. attempts \in Nat /\ Known \subseteq 1..attempts /\ Known \subseteq Attempts
  BY JoiningAssumption DEF TypeOK, Ids, Known
<1>1. CASE RunInit
  BY <1>0, <1>1 DEF RunInit, Begin, Consumed, Admitted, Known
<1>2. ASSUME NEW h \in Hosts, NEW t \in Tokens, RunJoin(h, t)
      PROVE  Consumed'
  <2>1. /\ attempts + 1 \in Attempts /\ attempts' = attempts + 1
        /\ UNCHANGED <<token, rows, removed>> /\ attempts + 1 \notin Known
    BY <1>0, <1>2, JoiningAssumption DEF RunJoin, Begin
  <2>2. \A a \in Attempts \ {attempts + 1} : req'[a] = req[a]
    BY <1>2 DEF RunJoin, TypeOK
  <2>3. req'[attempts + 1].pc = "sent"
    BY <1>2, <2>1 DEF RunJoin, TypeOK
  <2>4. \A a \in Attempts : Admitted(a)' => a # attempts + 1 /\ Admitted(a)
    BY <2>2, <2>3 DEF Admitted
  <2>5. \A a \in Attempts : a > attempts' => req'[a] = NoReq
    BY <1>0, <2>1, <2>2 DEF Consumed, Known
  <2>6. \A a \in Attempts : Admitted(a)' => token'[req'[a].token] = "used"
    BY <2>1, <2>2, <2>4 DEF Consumed, Known
  <2>7. \A a, b \in Attempts :
          Admitted(a)' /\ Admitted(b)' /\ req'[a].token = req'[b].token => a = b
    BY <2>2, <2>4 DEF Consumed, Known
  <2>8. \A a \in Attempts : req'[a].pc = "ok" => a \in Known'
    BY <2>1, <2>2, <2>3 DEF Consumed, Known
  <2>9. \A a \in Known' : req'[a].pc \in {"none", "ok"}
    BY <1>0, <2>1, <2>2, JoiningAssumption DEF Consumed, TypeOK, Ids, Known
  <2> QED BY <2>1, <2>5, <2>6, <2>7, <2>8, <2>9 DEF Consumed, Known
<1>3. ASSUME NEW t \in Tokens, GenerateJoinToken(t) \/ Expire(t)
      PROVE  Consumed'
  <2>1. /\ token[t] # "used" /\ UNCHANGED <<attempts, req, rows, removed>>
        /\ \A u \in Tokens \ {t} : token'[u] = token[u]
    BY <1>3 DEF GenerateJoinToken, Expire, commandVars, TypeOK
  <2>2. \A a \in Attempts : Admitted(a) => req[a].token \in Tokens
    BY RequestType DEF Admitted, Requests
  <2> QED BY <2>1, <2>2 DEF Consumed, Admitted, Known
<1>4. ASSUME NEW a \in Attempts, ValidateJoinToken(a)
      PROVE  Consumed'
  <2> DEFINE t == req[a].token
             valid == token[t] = "unused"
  <2>1. /\ UNCHANGED <<attempts, rows, removed>> /\ req[a].pc = "sent" /\ t \in Tokens
        /\ \A b \in Attempts \ {a} : req'[b] = req[b]
    BY <1>4, RequestType DEF ValidateJoinToken, commandVars, TypeOK, Requests
  <2>2. /\ req'[a].token = t
        /\ req'[a].pc = IF valid THEN "valid" ELSE "refused"
        /\ token' = [token EXCEPT ![t] = IF valid THEN "used" ELSE @]
    BY <1>4, <2>1, RequestType DEF ValidateJoinToken, TypeOK, Requests
  <2>3. ~(a > attempts)
    BY <2>1, NotMade DEF Consumed, Known
  <2>4. \A b \in Attempts : Admitted(b) /\ req[b].token = t => ~valid
    BY DEF Consumed, Known
  <2>5. \A b \in Attempts : Admitted(b) => req[b].token \in Tokens
    BY RequestType DEF Admitted, Requests
  <2>6. token \in [Tokens -> {"none", "unused", "used", "expired"}]
    BY DEF TypeOK
  <2> HIDE DEF t, valid
  <2>7. \A b \in Attempts : Admitted(b)' => (b = a /\ valid) \/ (b # a /\ Admitted(b))
    BY <2>1, <2>2 DEF Admitted
  <2>8. \A b \in Attempts : Admitted(b)' => token'[req'[b].token] = "used"
    BY <2>1, <2>2, <2>5, <2>6, <2>7 DEF Consumed, Known
  <2>9. \A b, c \in Attempts :
          Admitted(b)' /\ Admitted(c)' /\ req'[b].token = req'[c].token => b = c
    BY <2>1, <2>2, <2>4, <2>7 DEF Consumed, Known
  <2>10. a \notin Known
    BY <2>1 DEF Consumed, Known
  <2>11. \A b \in Attempts : b > attempts' => req'[b] = NoReq
    BY <2>1, <2>3 DEF Consumed, Known
  <2>12. /\ \A b \in Attempts : req'[b].pc = "ok" => b \in Known'
         /\ \A b \in Known' : req'[b].pc \in {"none", "ok"}
    BY <1>0, <2>1, <2>2, <2>10 DEF Consumed, Known
  <2> QED BY <2>1, <2>8, <2>9, <2>11, <2>12 DEF Consumed, Known
<1>5. ASSUME NEW a \in Attempts, Admit(a)
      PROVE  Consumed'
  <2>1. /\ UNCHANGED <<attempts, token, removed>> /\ req[a].pc = "valid" /\ rows' = rows \cup {a}
        /\ \A b \in Attempts \ {a} : req'[b] = req[b]
    BY <1>5 DEF Admit, commandVars, TypeOK
  <2>2. req'[a].pc = "ok" /\ req'[a].token = req[a].token
    BY <1>5, <2>1, RequestType DEF Admit, Issued, TypeOK, Requests
  <2>3. ~(a > attempts)
    BY <2>1, NotMade DEF Consumed, Known
  <2>4. \A b \in Attempts : /\ Admitted(b)' <=> Admitted(b)
                             /\ req'[b].token = req[b].token
    BY <2>1, <2>2 DEF Admitted
  <2>5. \A b \in Attempts : b > attempts' => req'[b] = NoReq
    BY <2>1, <2>3 DEF Consumed, Known
  <2>6. /\ \A b \in Attempts : req'[b].pc = "ok" => b \in Known'
        /\ \A b \in Known' : req'[b].pc \in {"none", "ok"}
    BY <1>0, <2>1, <2>2 DEF Consumed, Known
  <2> QED BY <2>1, <2>4, <2>5, <2>6 DEF Consumed, Known
<1>6. ASSUME NEW a \in Attempts, JoinError(a)
      PROVE  Consumed'
  <2>1. /\ UNCHANGED <<attempts, token, rows, removed>> /\ req[a].pc \in {"sent", "valid"}
        /\ \A b \in Attempts \ {a} : req'[b] = req[b]
    BY <1>6 DEF JoinError, commandVars, TypeOK
  <2>2. req'[a].pc = "refused"
    BY <1>6, <2>1, RequestType DEF JoinError, TypeOK, Requests
  <2>3. ~(a > attempts)
    BY <2>1, NotMade DEF Consumed, Known
  <2>4. \A b \in Attempts : Admitted(b)' => /\ Admitted(b)
                                             /\ req'[b].token = req[b].token
    BY <2>1, <2>2 DEF Admitted
  <2>5. \A b \in Attempts : b > attempts' => req'[b] = NoReq
    BY <2>1, <2>3 DEF Consumed, Known
  <2>6. /\ \A b \in Attempts : req'[b].pc = "ok" => b \in Known'
        /\ \A b \in Known' : req'[b].pc \in {"none", "ok"}
    BY <1>0, <2>1, <2>2 DEF Consumed, Known
  <2> QED BY <2>1, <2>4, <2>5, <2>6 DEF Consumed, Known
<1>7. ASSUME NEW m \in Machines, Register(m)
      PROVE  Consumed'
  <2>1. /\ UNCHANGED <<attempts, token, req, removed>> /\ attempt[m] \in Attempts
        /\ rows' = IF m = Coordinator THEN rows \cup {attempt[m]} ELSE rows
    BY <1>7, AttemptType DEF Register, OneStep
  <2>2. m = Coordinator => req[attempt[m]].pc = "none" /\ attempt[m] \notin Known
    BY <1>7 DEF Register, OneStep, Commands
  <2> QED BY <1>0, <2>1, <2>2 DEF Consumed, Admitted, Known
<1>8. CASE UNCHANGED <<attempts, token, req, rows, removed>>
  BY <1>8 DEF Consumed, Admitted, Known
<1>9. ASSUME NEW m \in Machines, NEW a \in Attempts, DeleteNode(m, a)
      PROVE  Consumed'
  <2>1. /\ UNCHANGED <<attempts, token, req>> /\ Known' = Known
        /\ rows' \cap removed' = {}
    BY <1>9 DEF DeleteNode, Known, Consumed
  <2> QED BY <2>1 DEF Consumed, Admitted
<1>10. ASSUME NEW m \in Machines, WriteCA(m) \/ WriteCert(m) \/ WriteKey(m)
       PROVE  Consumed'
  <2>1. UNCHANGED <<attempts, token, req, rows, removed>>
    BY <1>10 DEF WriteCA, WriteCert, WriteKey, OneStep, Write
  <2> QED BY <1>8, <2>1
<1>11. CASE WriteCAKey
  <2>1. UNCHANGED <<attempts, token, req, rows, removed>>
    BY <1>11 DEF WriteCAKey, OneStep, Write
  <2> QED BY <1>8, <2>1
<1> QED
  BY <1>1, <1>2, <1>3, <1>4, <1>5, <1>6, <1>7, <1>8, <1>9, <1>10, <1>11
  DEF Next, Command, Handler, Answered, RejectCA, Save, OneStep, Stop, ApplyConfigSync
-----------------------------------------------------------------------------
(* A step of a command that neither begins an attempt nor touches requests:*)
(* its machine is past its request, or has left the command.               *)
LEMMA CommandStep ==
  ASSUME JoinInv, NEW m \in Machines,
         UNCHANGED <<attempt, req, config>>, Known \subseteq Known', rows' \cap removed' = {},
         at'[Coordinator] # "out" => Known' = Known,
         \A k \in Machines \ {m} : at'[k] = at[k],
         at[m] # "out",
         at'[m] = "out" \/ at[m] # "asking" \/ req[attempt[m]].pc = "ok"
  PROVE  Commands'
BY DEF JoinInv, Commands, MembersAreKnown, Machines, Known

(* Each action keeps what is known of the commands.                        *)
LEMMA CommandsInd ==
  ASSUME JoinInv, Next
  PROVE  Commands'
<1>0. /\ attempts \in Nat /\ attempt \in [Machines -> 0..attempts] /\ Coordinator \notin Hosts
      /\ Coordinator \in Machines /\ Hosts \subseteq Machines /\ MaxAttempts \in Nat
      /\ at \in [Machines -> {"out"} \cup Steps] /\ req \in [Attempts -> Requests \cup {NoReq}]
  BY JoiningAssumption DEF JoinInv, TypeOK, Ids, Machines
<1>00. rows' \cap removed' = {} /\ rows \cap removed = {} /\ Known \subseteq 1..attempts
  BY ConsumedInd DEF JoinInv, Consumed, TypeOK, Known
<1>1. CASE RunInit
  <2>1. /\ attempts + 1 \in Attempts /\ UNCHANGED <<req, rows, removed, config>>
        /\ attempt'[Coordinator] = attempts + 1 /\ at'[Coordinator] = "ca"
        /\ \A h \in Hosts : at'[h] = at[h] /\ attempt'[h] = attempt[h]
    BY <1>0, <1>1 DEF RunInit, Begin, Attempts
  <2>2. req[attempts + 1].pc = "none" /\ attempts + 1 \notin Known
    BY <1>0, <1>00, <2>1, NotMade DEF JoinInv, Consumed
  <2> QED BY <1>0, <2>1, <2>2 DEF JoinInv, Commands, MembersAreKnown, Machines, Known
<1>2. ASSUME NEW h \in Hosts, NEW t \in Tokens, RunJoin(h, t)
      PROVE  Commands'
  <2>1. /\ attempts + 1 \in Attempts /\ UNCHANGED <<rows, removed, config>>
        /\ attempt'[h] = attempts + 1 /\ at'[h] = "asking"
        /\ \A m \in Machines \ {h} : at'[m] = at[m] /\ attempt'[m] = attempt[m]
        /\ \A a \in Attempts \ {attempts + 1} : req'[a] = req[a]
    BY <1>0, <1>2 DEF RunJoin, Begin, Attempts
  <2>2. \A m \in Machines : attempt[m] # attempts + 1
    BY <1>0
  <2> QED BY <1>0, <2>1, <2>2 DEF JoinInv, Commands, MembersAreKnown, Known
<1>3. ASSUME NEW t \in Tokens, GenerateJoinToken(t) \/ Expire(t)
      PROVE  Commands'
  BY <1>3 DEF GenerateJoinToken, Expire, commandVars, JoinInv, Commands, MembersAreKnown, Known
<1>4. ASSUME NEW a \in Attempts, ValidateJoinToken(a) \/ Admit(a) \/ JoinError(a)
      PROVE  Commands'
  <2>1. /\ UNCHANGED <<at, attempt, config>> /\ Known \subseteq Known' /\ Known' \subseteq Known \cup {a}
        /\ req[a].pc \in {"sent", "valid"}
        /\ \A b \in Attempts \ {a} : req'[b] = req[b]
    BY <1>0, <1>4 DEF ValidateJoinToken, Admit, JoinError, commandVars, Known
  <2> QED BY <1>0, <1>00, <2>1 DEF JoinInv, Commands, MembersAreKnown, Known
<1>5. ASSUME NEW h \in Hosts, Answered(h)
      PROVE  Commands'
  <2>1. at'[h] = IF req[attempt[h]].pc = "ok" THEN "ca" ELSE "out"
    BY <1>0, <1>5 DEF Answered, OneStep
  <2>2. /\ \A k \in Machines \ {h} : at'[k] = at[k]
        /\ at[h] # "out" /\ UNCHANGED <<attempt, req, config, rows, removed>>
    BY <1>0, <1>5 DEF Answered, OneStep
  <2> QED BY <1>0, <1>00, <2>1, <2>2, CommandStep DEF Known
<1>6. ASSUME NEW m \in Machines,
             \/ WriteCA(m) \/ WriteCert(m) \/ WriteKey(m) \/ Register(m)
             \/ m = Coordinator /\ (WriteCAKey \/ RejectCA)
      PROVE  Commands'
  <2>1. /\ at[m] \notin {"out", "asking"} /\ UNCHANGED <<attempt, req, config, removed>>
        /\ \A k \in Machines \ {m} : at'[k] = at[k]
    BY <1>0, <1>6 DEF WriteCA, WriteCAKey, RejectCA, WriteCert, WriteKey, Register, OneStep, Write
  <2>2. Known \subseteq Known' /\ (at'[Coordinator] # "out" => Known' = Known)
    <3>1. CASE Register(m)
      BY <1>0, <3>1 DEF Register, OneStep, Known
    <3>2. CASE ~Register(m)
      BY <1>6, <3>2 DEF WriteCA, WriteCAKey, RejectCA, WriteCert, WriteKey, OneStep, Write, Known
    <3> QED BY <3>1, <3>2
  <2> QED BY <1>00, <2>1, <2>2, CommandStep
<1>7. ASSUME NEW m \in Machines, Stop(m)
      PROVE  Commands'
  <2>1. /\ at[m] # "out" /\ at'[m] = "out" /\ UNCHANGED <<attempt, req, config, rows, removed>>
        /\ \A k \in Machines \ {m} : at'[k] = at[k]
    BY <1>0, <1>7 DEF Stop
  <2> QED BY <1>00, <2>1, CommandStep DEF Known
<1>8. ASSUME NEW m \in Machines, Save(m)
      PROVE  Commands'
  <2>1. /\ at[m] = "save" /\ at'[m] = "register" /\ UNCHANGED <<attempt, req, rows, removed>>
        /\ \A k \in Machines \ {m} : at'[k] = at[k] /\ config'[k] = config[k]
        /\ config'[m] = attempt[m]
    BY <1>0, <1>8 DEF Save, OneStep, JoinInv, TypeOK
  <2>2. m \in Hosts => attempt[m] \in Known
    <3>1. attempt[m] \in Attempts
      BY <2>1, AttemptType
    <3> QED BY <2>1, <3>1 DEF JoinInv, Commands, Consumed
  <2> QED BY <1>0, <1>00, <2>1, <2>2 DEF JoinInv, Commands, MembersAreKnown, Known
<1>9. ASSUME NEW h \in Hosts, ApplyConfigSync(h)
      PROVE  Commands'
  BY <1>9 DEF ApplyConfigSync, JoinInv, Commands, MembersAreKnown, Known
<1>10. ASSUME NEW m \in Machines, NEW a \in Attempts, DeleteNode(m, a)
       PROVE  Commands'
  <2>1. UNCHANGED <<at, attempt, req, config>> /\ Known' = Known
    BY <1>10 DEF DeleteNode, Known
  <2> QED BY <1>0, <1>00, <2>1 DEF JoinInv, Commands, MembersAreKnown, Known
<1> QED
  BY <1>0, <1>1, <1>2, <1>3, <1>4, <1>5, <1>6, <1>7, <1>8, <1>9, <1>10 DEF Next, Command, Handler
-----------------------------------------------------------------------------
(* Each action keeps what is known of the files.                           *)
LEMMA WrittenInd ==
  ASSUME JoinInv, Next
  PROVE  Written'
<1> USE DEF JoinInv
<1>0. /\ Coordinator \notin Hosts /\ Coordinator \in Machines /\ Hosts \subseteq Machines
      /\ Machines = Hosts \cup {Coordinator}
      /\ at \in [Machines -> {"out"} \cup Steps] /\ req \in [Attempts -> Requests \cup {NoReq}]
      /\ file \in [Machines -> Files] /\ config \in [Machines -> Ids]
      /\ attempt \in [Machines -> 0..attempts]
  BY JoiningAssumption DEF TypeOK, Machines
<1>1. ASSUME NEW m \in Machines, NEW step \in {"ca", "asking"}, Begin(m, step),
             m = Coordinator <=> step = "ca",
             \A a \in Attempts : req'[a] = req[a] \/ (req'[a].pc = "sent" /\ config[Coordinator] # 0)
      PROVE  Written'
  <2>1. /\ UNCHANGED <<file, config>> /\ at[m] = "out" /\ config[m] = 0 /\ at'[m] = step
        /\ \A k \in Machines \ {m} : at'[k] = at[k] /\ attempt'[k] = attempt[k]
    BY <1>0, <1>1 DEF Begin
  <2> QED BY <1>0, <1>1, <2>1 DEF Written, IdentityIsConsistent, CAIsBroken
<1>2. CASE RunInit
  <2>1. Begin(Coordinator, "ca") /\ UNCHANGED req
    BY <1>2 DEF RunInit
  <2> QED BY <1>0, <1>1, <2>1
<1>3. ASSUME NEW h \in Hosts, NEW t \in Tokens, RunJoin(h, t)
      PROVE  Written'
  <2>1. Begin(h, "asking") /\ config[Coordinator] # 0
    BY <1>3 DEF RunJoin
  <2>2. \A a \in Attempts : req'[a] = req[a] \/ req'[a].pc = "sent"
    BY <1>0, <1>3 DEF RunJoin
  <2> QED BY <1>0, <1>1, <2>1, <2>2
<1>4. ASSUME NEW t \in Tokens, GenerateJoinToken(t) \/ Expire(t)
      PROVE  Written'
  BY <1>4 DEF GenerateJoinToken, Expire, commandVars, Written, IdentityIsConsistent, CAIsBroken
<1>5. ASSUME NEW a \in Attempts, ValidateJoinToken(a) \/ JoinError(a)
      PROVE  Written'
  <2>1. /\ UNCHANGED <<at, attempt, file, config>> /\ req[a].pc # "none"
        /\ \A b \in Attempts \ {a} : req'[b] = req[b]
    BY <1>0, <1>5 DEF ValidateJoinToken, JoinError, commandVars
  <2>2. req'[a].pc \in {"valid", "refused"}
    BY <1>0, <1>5, <2>1, RequestType DEF ValidateJoinToken, JoinError, Requests
  <2> QED BY <2>1, <2>2 DEF Written, IdentityIsConsistent, CAIsBroken
<1>6. ASSUME NEW a \in Attempts, Admit(a)
      PROVE  Written'
  <2>1. /\ UNCHANGED <<at, attempt, file, config>> /\ req[a].pc # "none"
        /\ \A b \in Attempts \ {a} : req'[b] = req[b]
    BY <1>0, <1>6 DEF Admit, commandVars
  <2>2. req'[a].ca = file[Coordinator].ca /\ req'[a].signer = file[Coordinator].caKey
    BY <1>0, <1>6, <2>1, RequestType DEF Admit, Issued, Requests
  <2>3. file[Coordinator].caKey = file[Coordinator].ca
    BY <1>0, <2>1 DEF Written, IdentityIsConsistent, CAIsBroken
  <2> QED BY <2>1, <2>2, <2>3 DEF Written, IdentityIsConsistent, CAIsBroken
<1>7. ASSUME NEW m \in Machines, Stop(m)
      PROVE  Written'
  <2>1. /\ at'[m] = "out" /\ UNCHANGED <<attempt, req, config, file>>
        /\ \A k \in Machines \ {m} : at'[k] = at[k]
    BY <1>0, <1>7 DEF Stop
  <2> QED BY <1>0, <2>1 DEF Written, IdentityIsConsistent, CAIsBroken
<1>8. ASSUME NEW h \in Hosts, Answered(h)
      PROVE  Written'
  <2>1. /\ at'[h] \in {"ca", "out"} /\ UNCHANGED <<attempt, req, config, file>>
        /\ \A k \in Machines \ {h} : at'[k] = at[k]
    BY <1>0, <1>8 DEF Answered, OneStep
  <2> QED BY <1>0, <2>1 DEF Written, IdentityIsConsistent, CAIsBroken
<1>9. ASSUME NEW m \in Machines, Register(m)
      PROVE  Written'
  <2>1. /\ at'[m] = "out" /\ UNCHANGED <<attempt, req, config, file>>
        /\ \A k \in Machines \ {m} : at'[k] = at[k]
    BY <1>0, <1>9 DEF Register, OneStep
  <2> QED BY <1>0, <2>1 DEF Written, IdentityIsConsistent, CAIsBroken
<1>20. CASE RejectCA
  <2>1. /\ at'[Coordinator] = "out" /\ UNCHANGED <<attempt, req, config, file>>
        /\ \A k \in Machines \ {Coordinator} : at'[k] = at[k]
    BY <1>0, <1>20 DEF RejectCA, OneStep
  <2> QED BY <1>0, <2>1 DEF Written, IdentityIsConsistent, CAIsBroken
<1>21. ASSUME NEW m \in Machines, NEW a \in Attempts, DeleteNode(m, a)
       PROVE  Written'
  BY <1>21 DEF DeleteNode, Written, IdentityIsConsistent, CAIsBroken
<1>10. ASSUME NEW h \in Hosts, ApplyConfigSync(h)
       PROVE  Written'
  BY <1>10 DEF ApplyConfigSync, Written, IdentityIsConsistent, CAIsBroken
<1>11. ASSUME NEW m \in Machines, at[m] \in {"ca", "caKey", "cert", "key"}
       PROVE  config[m] = 0
  BY <1>11 DEF TypeOK
<1>12. ASSUME at[Coordinator] \in {"ca", "caKey", "cert", "key", "save"}
       PROVE  /\ \A h \in Hosts : at[h] \in {"out", "asking"}
              /\ \A m \in Machines : config[m] = 0
              /\ \A a \in Attempts : req[a].pc = "none"
  <2>1. config[Coordinator] = 0
    BY <1>0, <1>12 DEF TypeOK
  <2>2. /\ \A a \in Attempts : req[a].pc = "none"
        /\ \A m \in Machines : config[m] = 0
    BY <1>0, <2>1 DEF Written
  <2>3. ASSUME NEW h \in Hosts, at[h] \notin {"out", "asking"}
        PROVE  FALSE
    <3>1. attempt[h] \in Attempts
      BY <1>0, <2>3, AttemptType
    <3>2. req[attempt[h]].pc = "ok"
      BY <2>3 DEF Commands
    <3> QED BY <2>2, <3>1, <3>2
  <2> QED BY <2>2, <2>3
(* A host's files are written from the answer to its request.              *)
<1>13. ASSUME NEW h \in Hosts, at[h] \notin {"out", "asking"}
       PROVE  /\ req[attempt[h]].ca = file[Coordinator].ca
              /\ req[attempt[h]].signer = file[Coordinator].ca
              /\ config[Coordinator] # 0
              /\ file[Coordinator].caKey = file[Coordinator].ca
  <2>1. attempt[h] \in Attempts
    BY <1>0, <1>13, AttemptType
  <2>2. req[attempt[h]].pc = "ok"
    BY <1>13 DEF Commands
  <2>3. /\ req[attempt[h]].ca = file[Coordinator].ca
        /\ req[attempt[h]].signer = file[Coordinator].ca
        /\ config[Coordinator] # 0
    BY <2>1, <2>2 DEF Written
  <2> QED BY <1>0, <2>3 DEF Written, IdentityIsConsistent, CAIsBroken
<1>14. CASE WriteCA(Coordinator)
  <2>1. /\ at[Coordinator] = "ca" /\ at'[Coordinator] = "caKey"
        /\ UNCHANGED <<attempt, req>>
        /\ \A h \in Hosts : at'[h] = at[h]
    BY <1>0, <1>14 DEF WriteCA, OneStep
  <2>2. /\ file'[Coordinator].ca \in {attempt[Coordinator], Broken} /\ UNCHANGED config
        /\ \A h \in Hosts : file'[h] = file[h]
    BY <1>0, <1>14, CAStep
  <2> QED BY <1>0, <1>12, <2>1, <2>2 DEF Written, IdentityIsConsistent, CAIsBroken
<1>15. CASE WriteCAKey
  <2>1. /\ at[Coordinator] = "caKey" /\ at'[Coordinator] = "cert"
        /\ UNCHANGED <<attempt, req>>
        /\ \A h \in Hosts : at'[h] = at[h]
    BY <1>0, <1>15 DEF WriteCAKey, OneStep
  <2>2. /\ file'[Coordinator].caKey \in {attempt[Coordinator], Broken} /\ UNCHANGED config
        /\ file'[Coordinator].ca = file[Coordinator].ca
        /\ \A h \in Hosts : file'[h] = file[h]
    BY <1>15, CAKeyStep
  <2> QED BY <1>0, <1>12, <2>1, <2>2 DEF Written, IdentityIsConsistent, CAIsBroken
<1>16. ASSUME NEW h \in Hosts, WriteCA(h)
       PROVE  Written'
  <2>1. /\ at[h] = "ca" /\ at'[h] = "cert"
        /\ UNCHANGED <<attempt, req>> /\ config[h] = 0
        /\ \A k \in Machines \ {h} : at'[k] = at[k]
    BY <1>0, <1>11, <1>16 DEF WriteCA, OneStep
  <2>2. /\ file'[h].ca = file[Coordinator].ca /\ UNCHANGED config
        /\ \A k \in Machines \ {h} : file'[k] = file[k]
    BY <1>0, <1>13, <1>16, <2>1, CAStep
  <2> QED BY <1>0, <2>1, <2>2 DEF Written, IdentityIsConsistent, CAIsBroken
<1>17. ASSUME NEW m \in Machines, WriteCert(m)
       PROVE  Written'
  <2>1. /\ at[m] = "cert" /\ at'[m] = "key"
        /\ UNCHANGED <<attempt, req>> /\ config[m] = 0
        /\ \A k \in Machines \ {m} : at'[k] = at[k]
        /\ m = Coordinator => ~CAIsBroken
    BY <1>0, <1>11, <1>17 DEF WriteCert, OneStep
  <2>2. /\ \/ /\ file'[m].cert = attempt[m]
              /\ file'[m].signer = IF m = Coordinator THEN file[m].caKey ELSE req[attempt[m]].signer
           \/ m = Coordinator /\ file'[m].cert = Broken
        /\ file'[m].ca = file[m].ca /\ file'[m].caKey = file[m].caKey
        /\ UNCHANGED config /\ \A k \in Machines \ {m} : file'[k] = file[k]
    BY <1>17, CertStep
  <2>3. m = Coordinator => file[m].ca = attempt[m] /\ file[m].caKey = attempt[m]
    BY <2>1 DEF Written, CAIsBroken
  <2>4. \/ file'[m].cert = attempt[m] /\ file'[m].signer = file[Coordinator].ca
        \/ m = Coordinator /\ file'[m].cert = Broken
    BY <1>0, <1>13, <2>1, <2>2, <2>3
  <2>5. CASE m = Coordinator
    BY <1>0, <1>12, <2>1, <2>2, <2>3, <2>4, <2>5 DEF Written, IdentityIsConsistent, CAIsBroken
  <2>6. CASE m \in Hosts
    BY <1>0, <2>1, <2>2, <2>4, <2>6 DEF Written, IdentityIsConsistent, CAIsBroken
  <2> QED BY <1>0, <2>5, <2>6
<1>18. ASSUME NEW m \in Machines, WriteKey(m)
       PROVE  Written'
  <2>1. /\ at[m] = "key" /\ at'[m] = "save"
        /\ UNCHANGED <<attempt, req>> /\ config[m] = 0
        /\ \A k \in Machines \ {m} : at'[k] = at[k]
    BY <1>0, <1>11, <1>18 DEF WriteKey, OneStep
  <2>2. /\ file'[m].key = attempt[m] \/ (m = Coordinator /\ file'[m].key = Broken)
        /\ file'[m].cert = file[m].cert /\ file'[m].signer = file[m].signer
        /\ file'[m].ca = file[m].ca /\ file'[m].caKey = file[m].caKey
        /\ UNCHANGED config /\ \A k \in Machines \ {m} : file'[k] = file[k]
    BY <1>18, KeyStep
  <2> QED BY <1>0, <2>1, <2>2 DEF Written, IdentityIsConsistent, CAIsBroken
<1>19. ASSUME NEW m \in Machines, Save(m)
       PROVE  Written'
  <2>1. /\ at[m] = "save" /\ at'[m] = "register"
        /\ UNCHANGED <<attempt, req, file>>
        /\ \A k \in Machines \ {m} : at'[k] = at[k] /\ config'[k] = config[k]
        /\ config'[m] = attempt[m]
    BY <1>0, <1>19 DEF Save, OneStep
  <2>2. attempt[m] # 0 /\ attempt[m] \in Attempts
    BY <2>1, AttemptType, JoiningAssumption DEF Attempts
  <2>3. CASE m = Coordinator
    BY <1>0, <1>12, <2>1, <2>2, <2>3 DEF Written, IdentityIsConsistent, CAIsBroken
  <2>4. CASE m \in Hosts
    BY <1>0, <1>13, <2>1, <2>2, <2>4 DEF Written, IdentityIsConsistent, CAIsBroken
  <2> QED BY <1>0, <2>3, <2>4
<1> QED
  BY <1>0, <1>2, <1>3, <1>4, <1>5, <1>6, <1>7, <1>8, <1>9, <1>10, <1>14, <1>15, <1>16,
     <1>17, <1>18, <1>19, <1>20, <1>21
  DEF Next, Command, Handler
-----------------------------------------------------------------------------
(* Every step, and every stutter, keeps the invariant.                     *)
LEMMA NextInd == JoinInv /\ [Next]_vars => JoinInv'
<1>1. ASSUME JoinInv, Next
      PROVE  JoinInv'
  BY <1>1, TypeInd, ConsumedInd, CommandsInd, WrittenInd DEF JoinInv
<1>2. ASSUME JoinInv, UNCHANGED vars
      PROVE  JoinInv'
  <2>1. TypeOK'
    BY <1>2 DEF JoinInv, TypeOK, vars, commandVars
  <2>2. Consumed'
    BY <1>2 DEF JoinInv, Consumed, Admitted, Known, vars, commandVars
  <2>3. Commands'
    BY <1>2 DEF JoinInv, Commands, MembersAreKnown, Known, vars, commandVars
  <2>4. Written'
    BY <1>2 DEF JoinInv, Written, IdentityIsConsistent, CAIsBroken, vars, commandVars
  <2> QED BY <2>1, <2>2, <2>3, <2>4 DEF JoinInv
<1> QED BY <1>1, <1>2

(* What is known of requests, commands and files holds throughout.         *)
LEMMA JoinInvariance == Spec => []JoinInv
BY InitInd, NextInd, PTL DEF Spec

(* The variables of Joining keep their types.                              *)
THEOREM JoiningTypes == Spec => []TypeOK
<1>1. JoinInv => TypeOK
  BY DEF JoinInv
<1> QED BY <1>1, JoinInvariance, PTL

(* However requests with one token interleave, are lost and are made       *)
(* again, ValidateJoinToken and handlePeerJoin make one member of it.      *)
THEOREM TokensMakeOneMember == Spec => []OneMemberPerToken
<1>1. JoinInv => OneMemberPerToken
  <2> SUFFICES ASSUME JoinInv, NEW a \in Known, NEW b \in Known,
                      req[a].pc # "none", req[b].pc # "none", req[a].token = req[b].token
               PROVE  a = b
    BY DEF OneMemberPerToken
  <2>1. a \in Attempts /\ b \in Attempts
    BY JoiningAssumption DEF JoinInv, TypeOK, Attempts, Ids, Known
  <2>2. req[a].pc = "ok" /\ req[b].pc = "ok"
    BY DEF JoinInv, Consumed
  <2> QED BY <2>1, <2>2 DEF JoinInv, Consumed, Admitted
<1> QED BY <1>1, JoinInvariance, PTL

(* A host that runJoin gave a configuration has a row at the coordinator.  *)
THEOREM HostsAreMembers == Spec => []MembersAreKnown
<1>1. JoinInv => MembersAreKnown
  BY DEF JoinInv, Commands
<1> QED BY <1>1, JoinInvariance, PTL

(* Wherever runs of init and join stopped before, a machine with a         *)
(* configuration has the certificate, the key and the CA that go with it.  *)
THEOREM IdentitiesAreWhole == Spec => []IdentityIsConsistent
<1>1. JoinInv => IdentityIsConsistent
  BY DEF JoinInv, Written
<1> QED BY <1>1, JoinInvariance, PTL
-----------------------------------------------------------------------------
(* What becomes of a token.                                                *)

(* The command of a host is on its way with an attempt, or has saved the   *)
(* configuration that came of it.                                          *)
Pursued(h, a) == attempt[h] = a /\ (at[h] # "out" \/ config[h] = a)

(* While nothing broke, a used token let a request through, and a request  *)
(* that was not refused has its command waiting for it or made use of it.  *)
NothingWasted ==
  /\ \A h \in Hosts : at[h] = "register" => config[h] = attempt[h]
  /\ faults = 0 =>
       /\ \A t \in Tokens : token[t] = "used" => \E a \in Attempts : Admitted(a) /\ req[a].token = t
       /\ \A a \in Attempts : req[a].pc \in {"sent", "valid", "ok"} => \E h \in Hosts : Pursued(h, a)

(* A step that leaves the hosts' commands alone, and lets no request       *)
(* through and no token go.                                                *)
LEMMA HostsUntouched ==
  ASSUME NothingWasted, faults' = 0 => faults = 0,
         \A h \in Hosts : at'[h] = at[h] /\ attempt'[h] = attempt[h] /\ config'[h] = config[h],
         \A t \in Tokens : token'[t] = "used" =>
           \/ token[t] = "used"
           \/ \E a \in Attempts : Admitted(a)' /\ req'[a].token = t,
         \A a \in Attempts : Admitted(a) => Admitted(a)' /\ req'[a].token = req[a].token,
         \A a \in Attempts : req'[a].pc \in {"sent", "valid", "ok"} => req[a].pc \in {"sent", "valid", "ok"}
  PROVE  NothingWasted'
<1>1. \A h \in Hosts, a \in Attempts : Pursued(h, a) => Pursued(h, a)'
  BY DEF Pursued
<1>2. ASSUME faults = 0, NEW t \in Tokens, token'[t] = "used"
      PROVE  \E a \in Attempts : Admitted(a)' /\ req'[a].token = t
  BY <1>2 DEF NothingWasted
<1>3. ASSUME faults = 0, NEW a \in Attempts, req'[a].pc \in {"sent", "valid", "ok"}
      PROVE  \E h \in Hosts : Pursued(h, a)'
  BY <1>1, <1>3 DEF NothingWasted
<1> QED BY <1>2, <1>3 DEF NothingWasted

(* A host's command goes a step further, and keeps to its attempt.         *)
LEMMA CommandPursues ==
  ASSUME JoinInv, NothingWasted, NEW h \in Hosts,
         WriteCA(h) \/ WriteCert(h) \/ WriteKey(h) \/ Save(h) \/ Register(h) \/ Answered(h)
  PROVE  NothingWasted'
<1>1. /\ h \in Machines /\ at[h] # "out" /\ UNCHANGED <<attempt, token, req, faults>>
      /\ \A k \in Hosts \ {h} : at'[k] = at[k] /\ config'[k] = config[k]
  BY JoiningAssumption
     DEF WriteCA, WriteCert, WriteKey, Save, Register, Answered, OneStep, Write, Machines, JoinInv, TypeOK
<1>2. at'[h] = "register" => config'[h] = attempt[h]
  <2>1. CASE Save(h)
    BY <1>1, <2>1 DEF Save, JoinInv, TypeOK
  <2>2. CASE WriteCA(h) \/ WriteCert(h) \/ WriteKey(h) \/ Register(h) \/ Answered(h)
    BY <1>1, <2>2
       DEF WriteCA, WriteCert, WriteKey, Register, Answered, OneStep, JoinInv, TypeOK
  <2> QED BY <2>1, <2>2
<1>3. \/ at'[h] # "out" \/ config'[h] = attempt[h]
      \/ req[attempt[h]].pc \notin {"sent", "valid", "ok"}
  <2>1. CASE Register(h)
    BY <2>1 DEF Register, OneStep, NothingWasted
  <2>2. CASE Answered(h)
    BY <1>1, <2>2 DEF Answered, OneStep, JoinInv, TypeOK
  <2>3. CASE WriteCA(h) \/ WriteCert(h) \/ WriteKey(h) \/ Save(h)
    BY <1>1, <2>3 DEF WriteCA, WriteCert, WriteKey, Save, OneStep, JoinInv, TypeOK
  <2> QED BY <2>1, <2>2, <2>3
<1>4. \A k \in Hosts : at'[k] = "register" => config'[k] = attempt'[k]
  BY <1>1, <1>2 DEF NothingWasted
<1>5. ASSUME NEW a \in Attempts, req[a].pc \in {"sent", "valid", "ok"}, NEW k \in Hosts, Pursued(k, a)
      PROVE  Pursued(k, a)'
  BY <1>1, <1>3, <1>5 DEF Pursued
<1>6. UNCHANGED <<req, token, faults>> /\ \A a \in Attempts : Admitted(a)' <=> Admitted(a)
  BY <1>1 DEF Admitted
<1> QED BY <1>4, <1>5, <1>6 DEF NothingWasted

(* A host begins a new attempt when the one before came to nothing.        *)
LEMMA BeginPursues ==
  ASSUME JoinInv, NothingWasted, NEW h \in Hosts, NEW t \in Tokens, RunJoin(h, t)
  PROVE  NothingWasted'
<1> USE JoiningAssumption
<1>1. /\ attempts + 1 \in Attempts /\ h \in Machines
      /\ at[h] = "out" /\ config[h] = 0 /\ at'[h] = "asking" /\ attempt'[h] = attempts + 1
      /\ \A k \in Hosts \ {h} : at'[k] = at[k] /\ attempt'[k] = attempt[k]
      /\ UNCHANGED <<config, token, faults>>
  BY DEF RunJoin, Begin, Machines, Attempts, Ids, JoinInv, TypeOK
<1>2. \A a \in Attempts \ {attempts + 1} : req'[a] = req[a]
  BY DEF RunJoin, JoinInv, TypeOK
<1>3. req[attempts + 1] = NoReq
  BY <1>1 DEF JoinInv, Consumed, TypeOK, Ids
<1>4. \A a \in Attempts : ~Pursued(h, a)
  BY <1>1 DEF Pursued, Attempts
<1>5. \A a \in Attempts : Admitted(a) => a # attempts + 1
  BY <1>3, NotMade DEF Admitted
<1>6. ASSUME faults = 0, NEW u \in Tokens, token[u] = "used"
      PROVE  \E a \in Attempts : Admitted(a)' /\ req'[a].token = u
  <2>1. PICK a \in Attempts : Admitted(a) /\ req[a].token = u
    BY <1>6 DEF NothingWasted
  <2> QED BY <1>2, <1>5, <2>1 DEF Admitted
<1>7. ASSUME faults = 0, NEW a \in Attempts, req'[a].pc \in {"sent", "valid", "ok"}
      PROVE  \E k \in Hosts : Pursued(k, a)'
  <2>1. CASE a = attempts + 1
    BY <1>1, <2>1 DEF Pursued
  <2>2. CASE a # attempts + 1
    <3>1. PICK k \in Hosts : Pursued(k, a)
      BY <1>2, <1>7, <2>2 DEF NothingWasted
    <3>2. Pursued(k, a)'
      BY <1>1, <1>4, <3>1 DEF Pursued
    <3> QED BY <3>2
  <2> QED BY <2>1, <2>2
<1> QED BY <1>1, <1>6, <1>7 DEF NothingWasted

LEMMA HandlerWastes ==
  ASSUME JoinInv, NothingWasted, NEW a \in Attempts, Handler(a)
  PROVE  NothingWasted'
<1>0. req[a] \in Requests /\ req[a].token \in Tokens
  BY RequestType DEF Handler, ValidateJoinToken, Admit, JoinInv, Requests
<1>1. /\ UNCHANGED <<at, attempt, config, faults>> /\ \A b \in Attempts \ {a} : req'[b] = req[b]
      /\ req'[a].token = req[a].token
      /\ req[a].pc \in {"sent", "valid"} /\ req'[a].pc \in {"valid", "ok", "refused"}
      /\ Admitted(a) => Admitted(a)'
      /\ \A t \in Tokens : token'[t] = "used" =>
           token[t] = "used" \/ (t = req[a].token /\ Admitted(a)')
  <2>1. CASE ValidateJoinToken(a)
    BY <1>0, <2>1 DEF ValidateJoinToken, commandVars, Admitted, Requests, JoinInv, TypeOK
  <2>2. CASE Admit(a)
    BY <1>0, <2>2 DEF Admit, Issued, commandVars, Admitted, Requests, JoinInv, TypeOK
  <2> QED BY <2>1, <2>2 DEF Handler
<1>2. \A b \in Attempts : Admitted(b) => Admitted(b)' /\ req'[b].token = req[b].token
  BY <1>1 DEF Admitted
<1> QED BY <1>1, <1>2, HostsUntouched

LEMMA WastesNothing == Spec => []NothingWasted
<1>1. Init => NothingWasted
  BY NotMade DEF Init, NothingWasted, Machines
<1>2. ASSUME JoinInv, NothingWasted, [Next]_vars
      PROVE  NothingWasted'
  <2> USE <1>2
  <2>0. faults \in Nat /\ Coordinator \notin Hosts
    BY JoiningAssumption DEF JoinInv, TypeOK
  <2>1. ASSUME NEW h \in Hosts, NEW t \in Tokens, RunJoin(h, t)
        PROVE  NothingWasted'
    BY <2>1, BeginPursues
  <2>2. ASSUME NEW a \in Attempts, Handler(a)
        PROVE  NothingWasted'
    BY <2>2, HandlerWastes
  <2>3. ASSUME NEW h \in Hosts, Command(h)
        PROVE  NothingWasted'
    BY <2>0, <2>3, CommandPursues DEF Command
  <2>4. CASE \/ RunInit \/ Command(Coordinator) \/ UNCHANGED vars
             \/ \E h \in Hosts : ApplyConfigSync(h)
             \/ \E m \in Machines, a \in Attempts : DeleteNode(m, a)
             \/ \E t \in Tokens : GenerateJoinToken(t) \/ Expire(t)
    <3>1. UNCHANGED req /\ (faults' = 0 => faults = 0)
      BY <2>0, <2>4 DEF RunInit, Begin, Command, WriteCA, WriteCAKey, RejectCA, DeleteNode, Write, Fault, WriteCert, WriteKey, Save,
         Register, OneStep, ApplyConfigSync, GenerateJoinToken, Expire, vars, commandVars
    <3>2. \A h \in Hosts : at'[h] = at[h] /\ attempt'[h] = attempt[h] /\ config'[h] = config[h]
      BY <2>0, <2>4 DEF RunInit, Begin, Command, WriteCA, WriteCAKey, RejectCA, DeleteNode, Write, Fault, WriteCert, WriteKey, Save,
         Register, OneStep, ApplyConfigSync, GenerateJoinToken, Expire, vars, commandVars,
         Machines, JoinInv, TypeOK
    <3>3. \A t \in Tokens : token'[t] = "used" => token[t] = "used"
      BY <2>0, <2>4 DEF RunInit, Begin, Command, WriteCA, WriteCAKey, RejectCA, DeleteNode, Write, Fault, WriteCert, WriteKey, Save,
         Register, OneStep, ApplyConfigSync, GenerateJoinToken, Expire, vars, commandVars,
         JoinInv, TypeOK
    <3> QED BY <3>1, <3>2, <3>3, HostsUntouched DEF Admitted
  <2>5. CASE (\E a \in Attempts : JoinError(a)) \/ \E m \in Machines : Stop(m)
    <3>1. faults' # 0
      BY <2>0, <2>5 DEF JoinError, Stop, Fault
    <3>2. \A h \in Hosts : at'[h] = "register" =>
            at[h] = "register" /\ attempt'[h] = attempt[h] /\ config'[h] = config[h]
      BY <2>5 DEF JoinError, Stop, commandVars, Machines, JoinInv, TypeOK
    <3> QED BY <3>1, <3>2 DEF NothingWasted
  <2> QED BY <2>1, <2>2, <2>3, <2>4, <2>5 DEF Next, Machines
<1> QED BY <1>1, <1>2, JoinInvariance, PTL DEF Spec

(* handlePeerJoin and runJoin: while nothing breaks, a token that is used  *)
(* is never lost on the way.  A host whose request it let through goes on  *)
(* joining with it or has become a member, whoever else asks with it and   *)
(* whenever it would have expired.  (That joining ends is                  *)
(* TokenMakesAMember.)                                                     *)
TokensAreNotWasted ==
  faults = 0 =>
    \A t \in Tokens : token[t] = "used" =>
      \E h \in Hosts : /\ attempt[h] \in Attempts /\ Admitted(attempt[h]) /\ req[attempt[h]].token = t
                       /\ at[h] # "out" \/ config[h] = attempt[h]

THEOREM UsedTokensServe == Spec => []TokensAreNotWasted
<1>1. NothingWasted => TokensAreNotWasted
  <2> SUFFICES ASSUME NothingWasted, faults = 0, NEW t \in Tokens, token[t] = "used"
               PROVE  \E h \in Hosts : /\ attempt[h] \in Attempts /\ Admitted(attempt[h])
                                       /\ req[attempt[h]].token = t
                                       /\ at[h] # "out" \/ config[h] = attempt[h]
    BY DEF TokensAreNotWasted
  <2>1. PICK a \in Attempts : Admitted(a) /\ req[a].token = t
    BY DEF NothingWasted
  <2>2. PICK h \in Hosts : Pursued(h, a)
    BY <2>1 DEF NothingWasted, Admitted
  <2> QED BY <2>1, <2>2 DEF Pursued
<1> QED BY <1>1, WastesNothing, PTL
=============================================================================
