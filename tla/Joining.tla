------------------------------- MODULE Joining -------------------------------
(***************************************************************************)
(* How a cluster comes to be: pingmesh init on the coordinator             *)
(* (src/internal/cli/init.go), join tokens (src/internal/cli/token.go,     *)
(* src/internal/cluster/join.go), pingmesh join on a host                  *)
(* (src/internal/cli/join.go) and the coordinator's handlePeerJoin         *)
(* (src/internal/api/peer_handlers.go).                                    *)
(*                                                                         *)
(* Every run of init, and every request to join, generates an identity: a  *)
(* node id and a key pair.  Both are stood for by the number of the        *)
(* attempt.  A command writes its files one at a time and may stop between *)
(* any two; what it has written stays, and the command may be run again    *)
(* with the same token or another one.  The handler of a request goes on   *)
(* when its client has given up.                                           *)
(*                                                                         *)
(* Writes may fail.  join notices; init does not look at what pem.Encode   *)
(* returns, and goes on beside a file that is empty or broken off.         *)
(***************************************************************************)
EXTENDS Integers, FiniteSets

CONSTANTS
  Coordinator, Hosts,   \* the machine init is run on, and the others
  Tokens,               \* join tokens there may be
  MaxAttempts,          \* bound on the runs of init and of join together
  MaxFaults,            \* bound on errors, lost answers and crashes together
  MaxRemovals           \* bound on the nodes removed from the cluster

ASSUME JoiningAssumption ==
  /\ Coordinator \notin Hosts /\ MaxAttempts \in Nat /\ MaxFaults \in Nat
  /\ MaxRemovals \in Nat

Machines == Hosts \cup {Coordinator}
Attempts == 1..MaxAttempts
Ids == 0..MaxAttempts   \* attempts, and 0 for none
Broken == -1            \* what a file holds that was opened but not written
Contents == Ids \cup {Broken}

VARIABLES
  at,        \* where the command on a machine is; "out" when none runs
  attempt,   \* the attempt it makes
  attempts,  \* attempts made so far
  file,      \* the certificates directory: who made ca.crt and ca.key, whose
             \* node.crt and node.key, and the CA key that signed node.crt
  config,    \* the id in config.json, 0 without the file
  ownRow,    \* the id of the machine's own row in its database, 0 if none
  token,     \* join_tokens
  rows,      \* nodes table of the coordinator
  removed,   \* history: the ids deleted from it
  req,       \* the join request of an attempt, at the coordinator
  faults

commandVars == <<at, attempt, attempts, file, config, ownRow>>
vars == <<commandVars, token, rows, removed, req, faults>>
Known == rows \cup removed

Steps == {"asking", "ca", "caKey", "cert", "key", "save", "register"}
NoFiles == [ca |-> 0, caKey |-> 0, cert |-> 0, signer |-> 0, key |-> 0]
NoReq == [pc |-> "none", token |-> "", ca |-> 0, signer |-> 0]

Files == [ca : Contents, caKey : Contents, cert : Contents, signer : Contents, key : Contents]
Requests ==
  [pc : {"sent", "valid", "ok", "refused"}, token : Tokens, ca : Contents,
   signer : Contents]

TypeOK ==
  /\ at \in [Machines -> {"out"} \cup Steps]
  /\ attempts \in Ids /\ attempt \in [Machines -> 0..attempts]
  /\ file \in [Machines -> Files]
  /\ config \in [Machines -> Ids] /\ ownRow \in [Machines -> Ids]
  /\ \A m \in Machines : config[m] # 0 => at[m] \in {"out", "register"}
  /\ token \in [Tokens -> {"none", "unused", "used", "expired"}]
  /\ rows \subseteq 1..attempts /\ removed \subseteq 1..attempts
  /\ req \in [Attempts -> Requests \cup {NoReq}]
  /\ faults \in 0..MaxFaults

Init ==
  /\ at = [m \in Machines |-> "out"] /\ attempt = [m \in Machines |-> 0] /\ attempts = 0
  /\ file = [m \in Machines |-> NoFiles]
  /\ config = [m \in Machines |-> 0] /\ ownRow = [m \in Machines |-> 0]
  /\ token = [t \in Tokens |-> "none"] /\ rows = {} /\ removed = {}
  /\ req = [a \in Attempts |-> NoReq] /\ faults = 0

Fault == faults < MaxFaults /\ faults' = faults + 1
-----------------------------------------------------------------------------
(* Both commands refuse to run on a machine that has a configuration.      *)
Begin(m, step) ==
  /\ at[m] = "out" /\ config[m] = 0 /\ attempts < MaxAttempts
  /\ attempts' = attempts + 1
  /\ attempt' = [attempt EXCEPT ![m] = attempts + 1]
  /\ at' = [at EXCEPT ![m] = step]
  /\ UNCHANGED <<file, config, ownRow>>

RunInit ==
  /\ Begin(Coordinator, "ca")
  /\ UNCHANGED <<token, rows, removed, req, faults>>

RunJoin(h, t) ==
  /\ token[t] # "none" /\ config[Coordinator] # 0
  /\ Begin(h, "asking")
  /\ req' = [req EXCEPT ![attempts + 1] =
               [pc |-> "sent", token |-> t, ca |-> 0, signer |-> 0]]
  /\ UNCHANGED <<token, rows, removed, faults>>
-----------------------------------------------------------------------------
(* A token is made where a coordinator's configuration is.                 *)
MayIssue == config[Coordinator] # 0

GenerateJoinToken(t) ==
  /\ MayIssue /\ token[t] = "none"
  /\ token' = [token EXCEPT ![t] = "unused"]
  /\ UNCHANGED <<commandVars, rows, removed, req, faults>>

Expire(t) ==
  /\ token[t] = "unused"
  /\ token' = [token EXCEPT ![t] = "expired"]
  /\ UNCHANGED <<commandVars, rows, removed, req, faults>>

(* Mutants: the UPDATE does not ask for an unused token; it has no WHERE   *)
(* for the token.                                                          *)
ValidateJoinToken_Reuse(a) ==
  /\ req[a].pc = "sent"
  /\ token' = [token EXCEPT ![req[a].token] = IF @ = "expired" THEN @ ELSE "used"]
  /\ req' = [req EXCEPT ![a].pc = IF token[req[a].token] # "expired" THEN "valid" ELSE "refused"]
  /\ UNCHANGED <<commandVars, rows, removed, faults>>

ValidateJoinToken_All(a) ==
  /\ req[a].pc = "sent"
  /\ LET valid == token[req[a].token] = "unused" IN
     /\ req' = [req EXCEPT ![a].pc = IF valid THEN "valid" ELSE "refused"]
     /\ token' = IF valid THEN [t \in Tokens |-> IF token[t] = "unused" THEN "used" ELSE token[t]]
                 ELSE token
  /\ UNCHANGED <<commandVars, rows, removed, faults>>

(* handlePeerJoin.  The token is checked and consumed by one UPDATE.       *)
ValidateJoinToken(a) ==
  /\ req[a].pc = "sent"
  /\ LET valid == token[req[a].token] = "unused" IN
     /\ req' = [req EXCEPT ![a].pc = IF valid THEN "valid" ELSE "refused"]
     /\ token' = [token EXCEPT ![req[a].token] = IF valid THEN "used" ELSE @]
  /\ UNCHANGED <<commandVars, rows, removed, faults>>

(* The certificate is made from the coordinator's files; the answer has it *)
(* and the CA's.                                                           *)
Issued(r) ==
  [r EXCEPT !.pc = "ok", !.ca = file[Coordinator].ca, !.signer = file[Coordinator].caKey]

(* The row is created, then the request is answered.                       *)
Admit(a) ==
  /\ req[a].pc = "valid"
  /\ rows' = rows \cup {a}
  /\ req' = [req EXCEPT ![a] = Issued(@)]
  /\ UNCHANGED <<commandVars, token, removed, faults>>

(* Mutant: the error of CreateNode is only logged.                         *)
JoinError_Logged(a) ==
  /\ req[a].pc = "valid" /\ Fault
  /\ req' = [req EXCEPT ![a] = Issued(@)]
  /\ UNCHANGED <<commandVars, token, rows, removed>>

(* A query or a file operation of the handler fails, or the coordinator    *)
(* stops: the client gets an error.  A consumed token stays consumed.      *)
JoinError(a) ==
  /\ req[a].pc \in {"sent", "valid"} /\ Fault
  /\ req' = [req EXCEPT ![a].pc = "refused"]
  /\ UNCHANGED <<commandVars, token, rows, removed>>
-----------------------------------------------------------------------------
(* The command goes on, step by step.                                      *)
OneStep(m, step, next) ==
  /\ at[m] = step
  /\ at' = [at EXCEPT ![m] = next]
  /\ UNCHANGED <<attempt, attempts, token, req, removed>>

Answered(h) ==
  /\ at[h] = "asking" /\ req[attempt[h]].pc \in {"ok", "refused"}
  /\ OneStep(h, "asking", IF req[attempt[h]].pc = "ok" THEN "ca" ELSE "out")
  /\ UNCHANGED <<file, config, ownRow, rows, faults>>

(* The directory becomes dir, or broken when a write of init fails once the*)
(* file is open.                                                           *)
Write(m, dir, broken) ==
  /\ \/ file' = [file EXCEPT ![m] = dir] /\ UNCHANGED faults
     \/ m = Coordinator /\ Fault /\ file' = [file EXCEPT ![m] = broken]
  /\ UNCHANGED <<config, ownRow, rows>>

WriteCA(m) ==
  /\ OneStep(m, "ca", IF m = Coordinator THEN "caKey" ELSE "cert")
  /\ Write(m, [file[m] EXCEPT !.ca = IF m = Coordinator THEN attempt[m] ELSE req[attempt[m]].ca],
              [file[m] EXCEPT !.ca = Broken])

(* Mutant: a key that is there is kept.                                    *)
WriteCAKey_Keep ==
  /\ OneStep(Coordinator, "caKey", "cert")
  /\ Write(Coordinator,
           [file[Coordinator] EXCEPT !.caKey = IF @ # 0 THEN @ ELSE attempt[Coordinator]],
           [file[Coordinator] EXCEPT !.caKey = Broken])

WriteCAKey ==
  /\ OneStep(Coordinator, "caKey", "cert")
  /\ Write(Coordinator, [file[Coordinator] EXCEPT !.caKey = attempt[Coordinator]],
                        [file[Coordinator] EXCEPT !.caKey = Broken])

(* The node's certificate is made from the files of the CA as they are.    *)
CAIsBroken == Broken \in {file[Coordinator].ca, file[Coordinator].caKey}

WriteCert(m) ==
  /\ m = Coordinator => ~CAIsBroken
  /\ OneStep(m, "cert", "key")
  /\ Write(m, [file[m] EXCEPT !.cert = attempt[m],
                !.signer = IF m = Coordinator THEN file[m].caKey ELSE req[attempt[m]].signer],
              [file[m] EXCEPT !.cert = Broken, !.signer = Broken])

RejectCA ==
  /\ CAIsBroken
  /\ OneStep(Coordinator, "cert", "out")
  /\ UNCHANGED <<file, config, ownRow, rows, faults>>

WriteKey(m) ==
  /\ OneStep(m, "key", "save")
  /\ Write(m, [file[m] EXCEPT !.key = attempt[m]], [file[m] EXCEPT !.key = Broken])

Save(m) ==
  /\ OneStep(m, "save", "register")
  /\ config' = [config EXCEPT ![m] = attempt[m]]
  /\ UNCHANGED <<file, ownRow, rows, faults>>

(* CreateNode in the machine's own database, which on the coordinator is   *)
(* the cluster's.                                                          *)
Register(m) ==
  /\ OneStep(m, "register", "out")
  /\ ownRow' = [ownRow EXCEPT ![m] = attempt[m]]
  /\ rows' = IF m = Coordinator THEN rows \cup {attempt[m]} ELSE rows
  /\ UNCHANGED <<file, config, faults>>

(* The command fails, is stopped, or has waited 10 s for the answer.  What *)
(* becomes of a file it was writing does not matter: the next command      *)
(* writes it anew before anything reads it.                                *)
Stop(m) ==
  /\ at[m] # "out" /\ Fault
  /\ at' = [at EXCEPT ![m] = "out"]
  /\ UNCHANGED <<attempt, attempts, file, config, ownRow, token, rows, removed, req>>

(* handleDeleteNode, which the agent of every machine serves for its own   *)
(* table.  The host that had the row is not told.                          *)
DeleteNode(m, a) ==
  /\ config[m] # 0
  /\ a \in (IF m = Coordinator THEN rows ELSE {ownRow[m]} \ {0})
  /\ ownRow' = [ownRow EXCEPT ![m] = IF @ = a THEN 0 ELSE @]
  /\ IF m = Coordinator
     THEN /\ Cardinality(removed) < MaxRemovals
          /\ rows' = rows \ {a} /\ removed' = removed \cup {a}
     ELSE UNCHANGED <<rows, removed>>
  /\ UNCHANGED <<at, attempt, attempts, file, config, token, req, faults>>

(* Mutant: config sync only updates the rows it finds.                     *)
ApplyConfigSync_Update(h) ==
  /\ config[h] # 0 /\ ownRow[h] # 0 /\ config[h] \in rows
  /\ ownRow' = [ownRow EXCEPT ![h] = config[h]]
  /\ UNCHANGED <<at, attempt, attempts, file, config, token, rows, removed, req, faults>>

(* The agent of a configured host pulls the nodes table, its own row in it.*)
ApplyConfigSync(h) ==
  /\ config[h] # 0 /\ config[h] \in rows
  /\ ownRow' = [ownRow EXCEPT ![h] = config[h]]
  /\ UNCHANGED <<at, attempt, attempts, file, config, token, rows, removed, req, faults>>
-----------------------------------------------------------------------------
Command(m) ==
  \/ m \in Hosts /\ Answered(m)
  \/ m = Coordinator /\ (WriteCAKey \/ RejectCA)
  \/ WriteCA(m) \/ WriteCert(m) \/ WriteKey(m) \/ Save(m) \/ Register(m)

Handler(a) == ValidateJoinToken(a) \/ Admit(a)

Next ==
  \/ RunInit \/ \E h \in Hosts, t \in Tokens : RunJoin(h, t)
  \/ \E t \in Tokens : GenerateJoinToken(t) \/ Expire(t)
  \/ \E a \in Attempts : Handler(a) \/ JoinError(a)
  \/ \E m \in Machines : Command(m) \/ Stop(m) \/ \E a \in Attempts : DeleteNode(m, a)
  \/ \E h \in Hosts : ApplyConfigSync(h)

Spec == Init /\ [][Next]_vars

(* Commands and handlers that can go on do; the agent of a configured host *)
(* is started and, in the end, reaches the coordinator.                    *)
FairSpec ==
  /\ Spec /\ \A a \in Attempts : WF_vars(Handler(a))
  /\ \A m \in Machines : WF_vars(Command(m))
  /\ \A h \in Hosts : WF_vars(ApplyConfigSync(h))
-----------------------------------------------------------------------------
(* Properties.                                                             *)

(* token.go: "Tokens are single-use".  Two requests with one token, made   *)
(* by two hosts at a time or by one host again after its answer was lost or*)
(* its node removed, never make two members.                               *)
OneMemberPerToken ==
  \A a, b \in Known :
    req[a].pc # "none" /\ req[b].pc # "none" /\ req[a].token = req[b].token => a = b

(* Whatever attempts failed on a machine before and wherever they stopped, *)
(* once it has a configuration its certificate, its key and its id belong  *)
(* together, and everyone's certificate is signed by the one CA they trust,*)
(* whose files are whole.  Only the coordinator's own certificate and key  *)
(* may be broken, by a write whose failure init did not notice; they are   *)
(* never those of another attempt.                                         *)
IdentityIsConsistent ==
  \A m \in Machines : config[m] # 0 =>
    /\ \/ file[m].cert = config[m] /\ file[m].signer = file[Coordinator].ca
       \/ m = Coordinator /\ file[m].cert = Broken
    /\ file[m].key = config[m] \/ (m = Coordinator /\ file[m].key = Broken)
    /\ file[m].ca = file[Coordinator].ca
    /\ file[Coordinator].caKey = file[Coordinator].ca
    /\ file[Coordinator].ca \in Attempts

(* A host that believes it is a member was made one by the coordinator,    *)
(* and it still is unless its node was removed.  No request that is late,  *)
(* made again or answered with an error brings a removed node back.        *)
MembersAreKnown ==
  \A h \in Hosts : config[h] # 0 =>
    /\ config[h] \in Known
    /\ config[h] \in removed => config[h] \notin rows

(* A token that is consumed makes a member, as long as nothing breaks: no  *)
(* other request and no expiry can spoil a join that was admitted.         *)
TokenMakesAMember ==
  \A t \in Tokens :
    token[t] = "used"
      ~> faults > 0 \/ \E h \in Hosts : config[h] # 0 /\ req[config[h]].token = t

(* A configured host ends up with its own row, which its check results     *)
(* refer to, even if join stopped between the two or the row was deleted on*)
(* the host, unless the coordinator removed the node.                      *)
RegisteredInTheEnd ==
  \A h \in Hosts : config[h] # 0 ~> ownRow[h] = config[h] \/ config[h] \in removed
=============================================================================
