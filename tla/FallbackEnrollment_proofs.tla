----------------------- MODULE FallbackEnrollment_proofs -----------------------
(***************************************************************************)
(* Proofs about pairing and enrollment, for any programs, numbers of       *)
(* pairings, coordinators, faults and restarts.                            *)
(***************************************************************************)
EXTENDS FallbackEnrollment, TLAPS

(* The type of each record, by name. *)
Statuses == [state : States, principal : Numbers]

Waits == [at : Points, status : Statuses, secret : Numbers, key : Numbers]

Coordinators ==
    [key : Nat, token : Numbers, invited : Numbers, registered : BOOLEAN,
     published : Copy \union {NoCopy}]

Owings == [present : BOOLEAN, refused : BOOLEAN, post : Posts]

Execs ==
    [at : Stages, hash : Numbers, token : Numbers, pinned : Numbers,
     registered : BOOLEAN, attemptDue : BOOLEAN, backoff : BOOLEAN, fetchDue : BOOLEAN,
     handBackDue : BOOLEAN, atHandBack : BOOLEAN, heldOver : BOOLEAN, published : BOOLEAN,
     reached : BOOLEAN, post : Posts, acknowledged : Posts, owed : Owings]

Told == [copy : Copy \union {NoCopy}, verdict : Verdicts \union {"none"}]

Histories == [given : SUBSET Nat, held : SUBSET Copy, told : Told]

Budgets == {b \in [Bounded -> Nat] : \A what \in Bounded : b[what] <= Budget[what]}

PairingTyped ==
    /\ request \in BOOLEAN
    /\ codeFile \in Numbers /\ credential \in Numbers /\ trustFile \in Numbers
    /\ statusFile \in Statuses
    /\ wait \in Waits
    /\ coordinator \in Coordinators
    /\ left \in Budgets

ExecTyped ==
    /\ keyFile \in BOOLEAN
    /\ held \in Copy \union {NoCopy}
    /\ exec \in Execs
    /\ past \subseteq Serials
    /\ history \in Histories

Typed == PairingTyped /\ ExecTyped

(* TypeOK follows; it does not say of the thread's record that it has no   *)
(* other field, nor of the budget that it only shrinks.                    *)
LEMMA TypedIsTypeOK == Typed => TypeOK
BY DEF Typed, PairingTyped, ExecTyped, TypeOK, Statuses, Waits, Coordinators, Owings, Execs,
       Told, Histories, Budgets

LEMMA SpendType ==
  ASSUME left \in Budgets, NEW what \in Bounded, Spend(what)
  PROVE  /\ left' \in Budgets
         /\ left[what] > 0 /\ left'[what] = left[what] - 1
         /\ \A other \in Bounded \ {what} : left'[other] = left[other]
<1> USE PairingAssumption DEF Budgets
<1>1. left' = [left EXCEPT ![what] = @ - 1] /\ left[what] \in Nat /\ left[what] > 0
  BY DEF Spend
<1>2. left' \in [Bounded -> Nat]
  BY <1>1
<1>3. \A other \in Bounded : left'[other] <= Budget[other]
  BY <1>1
<1> QED  BY <1>1, <1>2, <1>3

LEMMA Faults ==
  ASSUME left \in Budgets, Spend("faults")
  PROVE  left' \in Budgets /\ left'["requests"] = left["requests"]
BY SpendType DEF Bounded
-----------------------------------------------------------------------------
(* Pairing. *)
LEMMA Secrets ==
  ASSUME left \in Budgets
  PROVE  NextSecret \in Nat /\ NextSecret \in Numbers
<1> "requests" \in Bounded
  BY DEF Bounded
<1> QED  BY PairingAssumption DEF NextSecret, Budgets, Numbers

LEMMA Reached ==
  ASSUME wait \in Waits, NEW state \in States, NEW point \in Points
  PROVE  /\ Reach(state, point) \in Waits
         /\ Reach(state, point).at = point
         /\ Reach(state, point).status.state = state
         /\ Reach(state, point).secret = wait.secret
         /\ Reach(state, point).key = wait.key
<1> DEFINE status == [wait.status EXCEPT !.state = state]
<1>1. status \in Statuses /\ status.state = state
  BY DEF Waits, Statuses
<1>2. Reach(state, point) = [wait EXCEPT !.at = point, !.status = status]
  BY DEF Reach
<1> HIDE DEF status
<1> QED  BY <1>1, <1>2 DEF Waits

LEMMA Forgotten ==
  ASSUME NEW w \in Waits
  PROVE  /\ Forget(w) \in Waits
         /\ Forget(w).at = w.at /\ Forget(w).status = w.status
         /\ Forget(w).secret = None /\ Forget(w).key = None
BY DEF Forget, Waits, Numbers

(* A pairing that fails or expires. *)
LEMMA Ended ==
  ASSUME wait \in Waits, NEW state \in {"failed", "expired"},
         wait' = Forget(Reach(state, "status"))
  PROVE  /\ wait' \in Waits
         /\ wait'.at = "status" /\ wait'.status.state = state /\ wait'.secret = None
<1> state \in States /\ "status" \in Points
  BY DEF States, Points
<1> QED  BY Reached, Forgotten

LEMMA PairingInitTyped == Init => PairingTyped
<1> SUFFICES ASSUME Init PROVE PairingTyped
  OBVIOUS
<1>1. Idle \in Statuses /\ None \in Numbers
  BY DEF Idle, Statuses, States, Numbers
<1>2. wait \in Waits
  BY <1>1 DEF Init, PairingInit, Waits, Points
<1>3. coordinator \in Coordinators
  BY <1>1 DEF Init, Coordinators
<1>4. left \in Budgets
  BY PairingAssumption DEF Init, PairingInit, Budgets
<1> QED  BY <1>1, <1>2, <1>3, <1>4 DEF Init, PairingInit, PairingTyped

LEMMA PairingStepTyped ==
  ASSUME PairingTyped, PairingStep
  PROVE  PairingTyped'
<1> USE DEF PairingTyped
<1> None \in Numbers
  BY DEF Numbers
<1>1. CASE Begin
  <2>1. CASE wait' = [at |-> "code", status |-> [state |-> "waiting", principal |-> None],
                      secret |-> NextSecret, key |-> None] /\ UNCHANGED left
    <3>1. wait' \in Waits
      BY <2>1, Secrets DEF Waits, Statuses, States, Points
    <3> QED  BY <1>1, <2>1, <3>1 DEF Begin
  <2>2. CASE Spend("faults") /\ wait' = Forget(Reach("failed", "status"))
    BY <1>1, <2>2, Ended, Faults DEF Begin
  <2> QED  BY <1>1, <2>1, <2>2 DEF Begin
<1>2. CASE WriteCode
  <2>1. wait' \in Waits /\ wait.secret \in Numbers
    BY <1>2 DEF WriteCode, Waits, Points
  <2> QED  BY <1>2, <2>1, Faults DEF WriteCode
<1>3. CASE WriteStatus
  <2>1. wait' \in Waits /\ wait.status \in Statuses
    BY <1>3 DEF WriteStatus, Waits, Points
  <2> QED  BY <1>3, <2>1, Faults DEF WriteStatus
<1>4. CASE Poll
  BY <1>4 DEF Poll, files, Waits, Points
<1>5. CASE Expire
  BY <1>5, Ended DEF Expire
<1>6. CASE Claim
  <2>1. coordinator' \in Coordinators
    BY <1>6 DEF Claim, Coordinators, Waits
  <2>2. coordinator.key \in Numbers
    BY DEF Coordinators, Numbers
  <2>3. CASE wait' = [wait EXCEPT !.at = "credential", !.key = coordinator.key]
             /\ UNCHANGED <<codeFile, left>>
    <3>1. wait' \in Waits
      BY <2>2, <2>3 DEF Waits, Points
    <3> QED  BY <1>6, <2>1, <2>3, <3>1 DEF Claim
  <2>4. ASSUME Spend("faults"),
               \/ wait' = [wait EXCEPT !.at = "credential"] /\ UNCHANGED codeFile
               \/ wait' = [wait EXCEPT !.at = "status"] /\ UNCHANGED codeFile
        PROVE  PairingTyped'
    <3>1. wait' \in Waits /\ UNCHANGED codeFile
      BY <2>4 DEF Waits, Points
    <3> QED  BY <1>6, <2>1, <2>4, <3>1, Faults DEF Claim
  <2>5. CASE Spend("faults") /\ wait' = Forget(Reach("failed", "status")) /\ codeFile' = None
    BY <1>6, <2>1, <2>5, Ended, Faults DEF Claim
  <2> QED  BY <1>6, <2>3, <2>4, <2>5 DEF Claim
<1>7. CASE SaveCredential
  <2>1. CASE /\ credential' = wait.secret
             /\ wait' = [wait EXCEPT !.at = "key"]
             /\ UNCHANGED <<codeFile, left>>
    <3>1. wait' \in Waits /\ wait.secret \in Numbers
      BY <2>1 DEF Waits, Points
    <3> QED  BY <1>7, <2>1, <3>1 DEF SaveCredential
  <2>2. CASE /\ Spend("faults") /\ codeFile' = None
             /\ wait' = Forget(Reach("failed", "status"))
             /\ UNCHANGED credential
    BY <1>7, <2>2, Ended, Faults DEF SaveCredential
  <2> QED  BY <1>7, <2>1, <2>2 DEF SaveCredential
<1>8. CASE StoreKey
  <2> DEFINE paired == [state |-> "paired", principal |-> wait.secret]
             done == [wait EXCEPT !.at = "status", !.status = paired]
  <2>1. paired \in Statuses
    BY DEF Waits, Statuses, States
  <2>2. done \in Waits
    <3> HIDE DEF paired
    <3> QED  BY <2>1 DEF Waits, Points
  <2>3. wait' = Forget(done)
    BY <1>8 DEF StoreKey
  <2>4. wait' \in Waits
    <3> HIDE DEF done
    <3> QED  BY <2>2, <2>3, Forgotten
  <2>5. trustFile' \in Numbers
    BY <1>8 DEF StoreKey, Waits
  <2> QED  BY <1>8, <2>4, <2>5, Faults DEF StoreKey
<1> QED
  BY <1>1, <1>2, <1>3, <1>4, <1>5, <1>6, <1>7, <1>8 DEF PairingStep

LEMMA RestartTyped ==
  ASSUME PairingTyped, Restart
  PROVE  PairingTyped'
<1> USE DEF PairingTyped
<1> None \in Numbers /\ "ends" \in Bounded
  BY DEF Numbers, Bounded
<1> DEFINE expired == [state |-> "expired", principal |-> None]
           waited == statusFile.state = "waiting"
<1>1. expired \in Statuses
  BY DEF Statuses, States
<1>2. wait' \in Waits
  <2> DEFINE point == IF waited THEN "status" ELSE "rest"
             status == IF waited THEN expired ELSE statusFile
  <2>1. point \in Points /\ status \in Statuses
    <3> HIDE DEF expired
    <3> QED  BY <1>1 DEF Points
  <2>2. wait' = [at |-> point, status |-> status, secret |-> None, key |-> None]
    BY DEF Restart
  <2> HIDE DEF point, status
  <2> QED  BY <2>1, <2>2 DEF Waits
<1>3. left' \in Budgets
  BY SpendType DEF Restart
<1> QED  BY <1>2, <1>3 DEF Restart

(* The operator, the coordinator and the executor's thread, as far as      *)
(* pairing sees them.                                                      *)
Others == Operator \/ Executor \/ RefetchTimer \/ BackoffTimer \/ Environment

LEMMA OthersPair ==
  ASSUME PairingTyped, Others
  PROVE  /\ PairingTyped'
         /\ UNCHANGED <<codeFile, statusFile, wait, credential, trustFile>>
         /\ \/ left'["requests"] = left["requests"]
            \/ Request /\ left'["requests"] = left["requests"] - 1
         /\ request' = request \/ Request
<1> USE DEF PairingTyped
<1>0. /\ "requests" \in Bounded /\ "copies" \in Bounded /\ "coordinators" \in Bounded
      /\ "handBacks" \in Bounded /\ "faults" \in Bounded
      /\ "requests" # "copies" /\ "requests" # "coordinators" /\ "requests" # "handBacks"
  BY DEF Bounded
<1>1. CASE Operator
  <2>1. CASE Request
    BY <1>0, <2>1, SpendType DEF Request
  <2>2. CASE Invite
    <3>1. coordinator' \in Coordinators
      BY <2>2 DEF Invite, Coordinators
    <3> QED  BY <2>2, <3>1 DEF Invite, files
  <2> QED  BY <1>1, <2>1, <2>2 DEF Operator
<1>2. CASE ReadCredential \/ RefetchTimer \/ BackoffTimer \/ Expires
  BY <1>2 DEF ReadCredential, RefetchTimer, BackoffTimer, Expires, pairingVars, files
<1>3. CASE ReadKeys \/ Probe \/ Fetch \/ Install \/ Acknowledge
  <2>1. /\ UNCHANGED <<pairingFiles, coordinator>>
        /\ Spend("faults") \/ UNCHANGED left
    BY <1>3 DEF ReadKeys, Probe, Fetch, Install, Acknowledge
  <2> QED  BY <2>1, Faults DEF pairingFiles
<1>4. CASE Register
  <2>1. UNCHANGED pairingFiles /\ (Spend("faults") \/ UNCHANGED left)
    BY <1>4 DEF Register
  <2>2. coordinator' \in Coordinators
    <3>1. CASE StoresTheKey
      <4> DEFINE copy == IF coordinator.published = NoCopy THEN NoCopy
                         ELSE [coordinator.published EXCEPT !.enrolls = TRUE]
      <4>1. copy \in Copy \union {NoCopy}
        BY DEF Coordinators, Copy
      <4>2. coordinator' = [coordinator EXCEPT !.registered = TRUE, !.published = copy]
        BY <3>1 DEF StoresTheKey
      <4> HIDE DEF copy
      <4> QED  BY <4>1, <4>2 DEF Coordinators
    <3> QED  BY <1>4, <3>1 DEF Register
  <2> QED  BY <2>1, <2>2, Faults DEF pairingFiles
<1>5. CASE Publish
  <2>1. PICK serial \in Serials, ours \in BOOLEAN :
            coordinator' = [coordinator EXCEPT !.published =
               [serial |-> serial, signer |-> coordinator.key, ours |-> ours,
                enrolls |-> coordinator.registered]]
    BY <1>5 DEF Publish
  <2> DEFINE copy == [serial |-> serial, signer |-> coordinator.key, ours |-> ours,
                      enrolls |-> coordinator.registered]
  <2>2. copy \in Copy
    BY DEF Coordinators, Copy
  <2>3. coordinator' \in Coordinators
    <3>1. coordinator' = [coordinator EXCEPT !.published = copy]
      BY <2>1
    <3> HIDE DEF copy
    <3> QED  BY <2>2, <3>1 DEF Coordinators
  <2> QED  BY <1>0, <1>5, <2>3, SpendType DEF Publish, pairingFiles
<1>6. CASE CoordinatorForgets
  <2>1. coordinator' \in Coordinators
    <3> DEFINE other == [key |-> coordinator.key + 1, token |-> None, invited |-> None,
                         registered |-> FALSE, published |-> NoCopy]
               copy == IF coordinator.published = NoCopy THEN NoCopy
                       ELSE [coordinator.published EXCEPT !.enrolls = FALSE]
    <3>1. other \in Coordinators
      BY DEF Coordinators, Numbers
    <3>2. copy \in Copy \union {NoCopy}
      BY DEF Coordinators, Copy
    <3>3. \/ coordinator' = other
          \/ coordinator' = [coordinator EXCEPT !.registered = FALSE, !.published = copy]
      BY <1>6 DEF CoordinatorForgets
    <3> HIDE DEF other, copy
    <3> QED  BY <3>1, <3>2, <3>3 DEF Coordinators
  <2> QED  BY <1>0, <1>6, <2>1, SpendType DEF CoordinatorForgets, pairingFiles
<1>7. CASE HandBack
  BY <1>0, <1>7, SpendType DEF HandBack, pairingFiles
<1> QED
  BY <1>1, <1>2, <1>3, <1>4, <1>5, <1>6, <1>7 DEF Others, Executor, Environment
-----------------------------------------------------------------------------
(* Secrets are numbered upwards, so a credential that replaces another is  *)
(* of a later pairing.                                                     *)
SecretsAreOrdered ==
    /\ credential # None => credential <= NextSecret
    /\ wait.secret # None => wait.secret <= NextSecret
    /\ wait.secret # None /\ credential # None => credential <= wait.secret

(* A principal that was saved, and at most replaced by a later one. *)
Saved(status) ==
    status.state = "paired" =>
        credential # None /\ status.principal # None /\ status.principal <= credential

PairingIsSaved ==
    /\ SecretsAreOrdered
    /\ Waiting \/ wait.at \in {"credential", "key"} => wait.secret # None
    /\ wait.at = "key" => credential = wait.secret
    /\ Saved(wait.status)
    /\ Saved(statusFile)

(* A step that ends the pairing, or starts one with the newest secret.     *)
LEMMA SavedStep ==
  ASSUME PairingTyped, PairingIsSaved, PairingStep
  PROVE  PairingIsSaved'
<1> USE DEF PairingTyped
<1>0. NextSecret \in Nat
  BY Secrets
<1>1. /\ credential # None => credential \in Nat
      /\ wait.secret # None => wait.secret \in Nat
      /\ wait.status \in Statuses
  BY DEF Numbers, Waits
<1>2. ASSUME left'["requests"] = left["requests"] PROVE NextSecret' = NextSecret
  BY <1>2 DEF NextSecret
<1>3. ASSUME wait' \in Waits, wait'.secret = None, wait'.status.state \in {"failed", "expired"},
             wait'.at = "status", left'["requests"] = left["requests"],
             UNCHANGED <<credential, statusFile>>
      PROVE  PairingIsSaved'
  BY <1>2, <1>3 DEF PairingIsSaved, SecretsAreOrdered, Saved, Waiting
<1>4. ASSUME wait'.secret = wait.secret, wait'.status = wait.status,
             wait'.at = "credential" => Waiting,
             wait'.at # "key", left'["requests"] = left["requests"],
             UNCHANGED <<credential, statusFile>>
      PROVE  PairingIsSaved'
  BY <1>2, <1>4 DEF PairingIsSaved, SecretsAreOrdered, Saved, Waiting
<1>5. CASE Begin
  <2>1. CASE wait' = [at |-> "code", status |-> [state |-> "waiting", principal |-> None],
                      secret |-> NextSecret, key |-> None] /\ UNCHANGED left
    <3>1. /\ wait'.secret = NextSecret /\ wait'.at = "code" /\ wait'.status.state = "waiting"
          /\ UNCHANGED <<credential, statusFile>>
      BY <1>5, <2>1 DEF Begin
    <3>2. NextSecret' = NextSecret /\ NextSecret # None
      BY <1>0, <1>2, <2>1, PairingAssumption
    <3> QED
      BY <1>0, <1>1, <3>1, <3>2 DEF PairingIsSaved, SecretsAreOrdered, Saved, Waiting
  <2>2. CASE Spend("faults") /\ wait' = Forget(Reach("failed", "status"))
    BY <1>3, <1>5, <2>2, Ended, Faults DEF Begin
  <2> QED  BY <1>5, <2>1, <2>2 DEF Begin
<1>6. CASE WriteCode
  <2>1. wait'.secret = wait.secret /\ wait'.status = wait.status /\ wait'.at = "status"
    BY <1>6 DEF WriteCode, Waits
  <2> QED  BY <1>4, <1>6, <2>1, Faults DEF WriteCode
<1>7. CASE WriteStatus
  <2>1. /\ wait'.secret = wait.secret /\ wait'.status = wait.status /\ wait'.at = "rest"
        /\ left'["requests"] = left["requests"]
        /\ UNCHANGED credential /\ statusFile' \in {statusFile, wait.status}
    BY <1>7, Faults DEF WriteStatus, Waits
  <2> QED  BY <1>2, <2>1 DEF PairingIsSaved, SecretsAreOrdered, Saved, Waiting
<1>8. CASE Poll
  <2>1. wait'.secret = wait.secret /\ wait'.status = wait.status /\ wait'.at = "status"
    BY <1>8 DEF Poll, Waits
  <2> QED  BY <1>4, <1>8, <2>1 DEF Poll, files
<1>9. CASE Expire
  BY <1>3, <1>9, Ended DEF Expire
<1>10. CASE Claim
  <2>1. ASSUME \/ wait' = [wait EXCEPT !.at = "credential", !.key = coordinator.key]
               \/ wait' = [wait EXCEPT !.at = "credential"]
               \/ wait' = [wait EXCEPT !.at = "status"]
        PROVE  /\ wait'.secret = wait.secret /\ wait'.status = wait.status
               /\ wait'.at # "key"
    BY <2>1 DEF Waits
  <2>2. /\ Waiting /\ left'["requests"] = left["requests"]
        /\ UNCHANGED <<credential, statusFile>>
    BY <1>10, Faults DEF Claim
  <2>3. CASE wait' = Forget(Reach("failed", "status"))
    BY <1>3, <2>2, <2>3, Ended
  <2> QED  BY <1>4, <1>10, <2>1, <2>2, <2>3 DEF Claim
<1>11. CASE SaveCredential
  <2>1. CASE /\ credential' = wait.secret
             /\ wait' = [wait EXCEPT !.at = "key"]
             /\ UNCHANGED <<codeFile, left>>
    <3>1. /\ wait'.secret = wait.secret /\ wait'.status = wait.status /\ wait'.at = "key"
          /\ wait.secret # None /\ wait.secret \in Nat
          /\ UNCHANGED statusFile
      BY <1>1, <1>11, <2>1 DEF SaveCredential, Waits, PairingIsSaved
    <3>2. \A status \in Statuses : Saved(status) => Saved(status)'
      <4> SUFFICES ASSUME NEW status \in Statuses, Saved(status), status.state = "paired"
                   PROVE  status.principal # None /\ status.principal <= wait.secret
        BY <2>1, <3>1 DEF Saved
      <4>1. /\ credential # None /\ credential \in Nat
            /\ status.principal # None /\ status.principal \in Nat
            /\ status.principal <= credential
        BY <1>1 DEF Saved, Statuses, Numbers
      <4>2. credential <= wait.secret
        BY <3>1, <4>1 DEF PairingIsSaved, SecretsAreOrdered
      <4> QED  BY <3>1, <4>1, <4>2
    <3>3. Saved(wait.status)' /\ Saved(statusFile)'
      BY <1>1, <3>1, <3>2 DEF PairingIsSaved, Saved
    <3>4. NextSecret' = NextSecret
      BY <1>2, <2>1
    <3> QED
      BY <2>1, <3>1, <3>3, <3>4 DEF PairingIsSaved, SecretsAreOrdered, Waiting
  <2>2. CASE /\ Spend("faults") /\ codeFile' = None
             /\ wait' = Forget(Reach("failed", "status"))
             /\ UNCHANGED credential
    BY <1>3, <1>11, <2>2, Ended, Faults DEF SaveCredential
  <2> QED  BY <1>11, <2>1, <2>2 DEF SaveCredential
<1>12. CASE StoreKey
  <2> DEFINE paired == [state |-> "paired", principal |-> wait.secret]
             done == [wait EXCEPT !.at = "status", !.status = paired]
  <2>1. done \in Waits /\ done.status = paired /\ done.at = "status"
    <3>1. paired \in Statuses
      BY DEF Waits, Statuses, States
    <3> HIDE DEF paired
    <3> QED  BY <3>1 DEF Waits, Points
  <2>2. wait'.secret = None /\ wait'.status = paired /\ wait'.at = "status"
    <3>1. wait' = Forget(done)
      BY <1>12 DEF StoreKey
    <3> HIDE DEF done
    <3> QED  BY <2>1, <3>1, Forgotten
  <2>3. /\ credential = wait.secret /\ wait.secret # None /\ wait.secret \in Nat
        /\ UNCHANGED <<credential, statusFile>>
        /\ left'["requests"] = left["requests"]
    BY <1>1, <1>12, Faults DEF StoreKey, PairingIsSaved
  <2> QED
    BY <1>2, <2>2, <2>3 DEF PairingIsSaved, SecretsAreOrdered, Saved, Waiting
<1> QED
  BY <1>5, <1>6, <1>7, <1>8, <1>9, <1>10, <1>11, <1>12 DEF PairingStep

LEMMA SavedElsewhere ==
  ASSUME PairingTyped, PairingIsSaved, Others \/ Restart
  PROVE  PairingIsSaved'
<1> USE DEF PairingTyped
<1>1. NextSecret \in Nat /\ left["requests"] \in Nat /\ Budget["requests"] \in Nat
  BY Secrets, PairingAssumption DEF Budgets, Bounded
<1>2. CASE Others
  <2>1. NextSecret' \in {NextSecret, NextSecret + 1}
    BY <1>1, <1>2, OthersPair DEF NextSecret
  <2>2. /\ credential # None => credential \in Nat
        /\ wait.secret # None => wait.secret \in Nat
    BY DEF Numbers, Waits
  <2>3. UNCHANGED <<statusFile, wait, credential>>
    BY <1>2, OthersPair
  <2> QED
    BY <1>1, <2>1, <2>2, <2>3 DEF PairingIsSaved, SecretsAreOrdered, Saved, Waiting
<1>3. CASE Restart
  <2>1. left'["requests"] = left["requests"]
    BY <1>3, SpendType DEF Restart, Bounded
  <2>2. /\ UNCHANGED <<credential, statusFile>>
        /\ wait'.secret = None /\ wait'.at \in {"status", "rest"}
        /\ \/ wait'.status.state = "expired"
           \/ statusFile.state # "waiting" /\ wait'.status = statusFile
    BY <1>3 DEF Restart
  <2> QED
    BY <2>1, <2>2 DEF PairingIsSaved, SecretsAreOrdered, NextSecret, Saved, Waiting
<1> QED  BY <1>2, <1>3

(* Every step is the pairing thread's, a restart, or one of the others. *)
LEMMA Steps ==
  ASSUME [Next]_vars
  PROVE  \/ PairingThread
         \/ ProcessRestarts
         \/ Others
         \/ UNCHANGED vars
BY DEF Next, Others

LEMMA PairingNext ==
  PairingTyped /\ PairingIsSaved /\ [Next]_vars => PairingTyped' /\ PairingIsSaved'
<1> SUFFICES ASSUME PairingTyped, PairingIsSaved, [Next]_vars
             PROVE  PairingTyped' /\ PairingIsSaved'
  OBVIOUS
<1>1. CASE PairingThread
  BY <1>1, PairingStepTyped, SavedStep DEF PairingThread
<1>2. CASE ProcessRestarts
  BY <1>2, RestartTyped, SavedElsewhere DEF ProcessRestarts
<1>3. CASE Others
  BY <1>3, OthersPair, SavedElsewhere
<1>4. CASE UNCHANGED vars
  BY <1>4 DEF vars, pairingVars, files, PairingTyped, PairingIsSaved, SecretsAreOrdered,
     NextSecret, Saved, Waiting
<1> QED  BY <1>1, <1>2, <1>3, <1>4, Steps

LEMMA AlwaysPairing == Spec => [](PairingTyped /\ PairingIsSaved)
<1>1. Init => PairingIsSaved
  BY DEF Init, PairingInit, Idle, PairingIsSaved, SecretsAreOrdered, Saved, Waiting
<1> QED  BY <1>1, PairingInitTyped, PairingNext, PTL DEF Spec

(* A status file that says the player is paired names a principal whose    *)
(* credential was saved, whatever is lost, fails or restarts               *)
(* (attemptClaim(), pairing.cpp:363-392).                                  *)
THEOREM PairedIsSaved == Spec => []PairedHasCredential
<1>1. PairingIsSaved => PairedHasCredential
  BY DEF PairingIsSaved, Saved, PairedHasCredential
<1> QED  BY <1>1, AlwaysPairing, PTL
-----------------------------------------------------------------------------
(* The executor's thread.  What it may say: a post that says "verified" is *)
(* about a copy that was held.                                             *)
Honest(saying, copies) == saying.verdict = "verified" => saying.copy \in copies

(* What it remembers between its steps: a key that a pairing gave, and an  *)
(* honest acknowledgement if one is owed.                                  *)
Remembers(e, keys, copies) ==
    /\ e.pinned # None => e.pinned \in keys
    /\ e.owed.present => Honest(e.owed.post, copies)

(* ... and what it is about to do.                                         *)
Sound(e, keys, copies) ==
    /\ Remembers(e, keys, copies)
    /\ e.at = "install" =>
           /\ e.post.copy \in Copy /\ e.post.copy.ours /\ e.post.copy.signer \in keys
    /\ e.at \in {"retry", "post", "holdingPost"} => Honest(e.post, copies)

LEMMA NoPostType == NoPost \in Posts
BY DEF NoPost, Posts, Verdicts

LEMMA RestType ==
  ASSUME NEW e \in Execs, NEW keys, NEW copies, Remembers(e, keys, copies)
  PROVE  Rest(e) \in Execs /\ Sound(Rest(e), keys, copies)
<1>1. /\ Rest(e) \in Execs
      /\ Rest(e).at = "rest" /\ Rest(e).pinned = e.pinned /\ Rest(e).owed = e.owed
  BY NoPostType DEF Rest, Execs, Stages
<1> QED  BY <1>1 DEF Sound, Remembers

LEMMA GoesOn ==
  ASSUME NEW e \in Execs, NEW keys, NEW copies, Remembers(e, keys, copies),
         NEW point \in {"fetch", "register", "again", "rest", "keys", "probe"}
  PROVE  /\ [e EXCEPT !.at = point] \in Execs
         /\ Sound([e EXCEPT !.at = point], keys, copies)
BY DEF Execs, Stages, Sound, Remembers

LEMMA AfterRegistrationType ==
  ASSUME NEW e \in Execs, NEW keys, NEW copies, Remembers(e, keys, copies)
  PROVE  AfterRegistration(e) \in Execs /\ Sound(AfterRegistration(e), keys, copies)
<1> DEFINE due == e.attemptDue /\ e.at # "register"
           fetching == [e EXCEPT !.attemptDue = FALSE, !.at = "fetch"]
           resting == [e EXCEPT !.attemptDue = due]
<1>1. due \in BOOLEAN
  OBVIOUS
<1>2. fetching \in Execs /\ Sound(fetching, keys, copies)
  BY DEF Execs, Stages, Sound, Remembers
<1>3. resting \in Execs /\ Remembers(resting, keys, copies)
  <2> HIDE DEF due
  <2> QED  BY <1>1 DEF Execs, Remembers
<1>4. Rest(resting) \in Execs /\ Sound(Rest(resting), keys, copies)
  <2> HIDE DEF resting
  <2> QED  BY <1>3, RestType
<1>5. AfterRegistration(e) = fetching \/ AfterRegistration(e) = Rest(resting)
  BY DEF AfterRegistration
<1> HIDE DEF fetching, resting
<1> QED  BY <1>2, <1>4, <1>5

LEMMA KeepCurrentType ==
  ASSUME NEW e \in Execs, NEW keys, NEW copies, Remembers(e, keys, copies)
  PROVE  KeepCurrent(e) \in Execs /\ Sound(KeepCurrent(e), keys, copies)
<1> DEFINE due == [e EXCEPT !.at = "register", !.post = NoPost]
<1>1. due \in Execs /\ Sound(due, keys, copies) /\ Remembers(due, keys, copies)
  BY NoPostType DEF Execs, Stages, Sound, Remembers
<1>2. KeepCurrent(e) = due \/ KeepCurrent(e) = AfterRegistration(due)
  BY DEF KeepCurrent
<1> HIDE DEF due
<1> QED  BY <1>1, <1>2, AfterRegistrationType

LEMMA FinishType ==
  ASSUME NEW e \in Execs, NEW keys, NEW copies, Remembers(e, keys, copies), NEW copy
  PROVE  Finish(e, copy) \in Execs /\ Sound(Finish(e, copy), keys, copies)
<1> DEFINE due == e.handBackDue /\ ~e.reached
           handed == [e EXCEPT !.handBackDue = due]
           again == [e EXCEPT !.at = "again", !.post = NoPost]
<1>1. due \in BOOLEAN
  OBVIOUS
<1>2. handed \in Execs /\ Remembers(handed, keys, copies)
  <2> HIDE DEF due
  <2> QED  BY <1>1 DEF Execs, Remembers
<1>3. again \in Execs /\ Sound(again, keys, copies)
  BY NoPostType DEF Execs, Stages, Sound, Remembers
<1>4. Finish(e, copy) \in {Rest(handed), again, Rest(e)}
  BY DEF Finish
<1> HIDE DEF handed, again
<1> QED  BY <1>2, <1>3, <1>4, RestType

LEMMA AfterPostType ==
  ASSUME NEW e \in Execs, NEW keys, NEW copies, Remembers(e, keys, copies),
         NEW copy \in Copy \union {NoCopy}, copy # NoCopy => copy \in copies
  PROVE  AfterPost(e, copy) \in Execs /\ Sound(AfterPost(e, copy), keys, copies)
<1> DEFINE saying == [copy |-> copy, verdict |-> "verified", remember |-> FALSE]
           posting == [e EXCEPT !.at = "holdingPost", !.post = saying]
<1>1. saying \in Posts /\ (copy # NoCopy => Honest(saying, copies))
  BY DEF Posts, Verdicts, Honest
<1>2. posting \in Execs /\ (copy # NoCopy => Sound(posting, keys, copies))
  <2> HIDE DEF saying
  <2> QED  BY <1>1 DEF Execs, Stages, Sound, Remembers
<1>3. \/ copy # NoCopy /\ AfterPost(e, copy) = posting
      \/ AfterPost(e, copy) = Finish(e, copy)
  BY DEF AfterPost
<1> HIDE DEF posting
<1> QED  BY <1>2, <1>3, FinishType

LEMMA AfterVerdictType ==
  ASSUME NEW e \in Execs, NEW keys, NEW copies, Remembers(e, keys, copies),
         NEW copy \in Copy, NEW verdict \in Verdicts,
         NEW installed \in BOOLEAN, NEW unchanged \in BOOLEAN,
         verdict = "verified" => copy \in copies,
         installed => copy \in copies,
         held \in Copy \union {NoCopy}, held # NoCopy => held \in copies
  PROVE  LET next == AfterVerdict(e, copy, verdict, installed, unchanged)
         IN  next \in Execs /\ Sound(next, keys, copies)
<1> DEFINE saying == [copy |-> copy, verdict |-> verdict, remember |-> TRUE]
           found == installed \/ unchanged
           refused == e.owed.refused /\ ~installed
           backoff == e.backoff /\ ~installed
           owing == [e.owed EXCEPT !.refused = refused]
           e1 == [e EXCEPT !.published = found, !.owed.refused = refused,
                           !.backoff = backoff, !.post = saying]
           posting == [e1 EXCEPT !.at = "post"]
           kept == IF installed THEN copy ELSE held
<1>1. saying \in Posts /\ Honest(saying, copies)
  BY DEF Posts, Honest
<1>2. found \in BOOLEAN /\ refused \in BOOLEAN /\ backoff \in BOOLEAN
  OBVIOUS
<1>3. owing \in Owings /\ owing.present = e.owed.present /\ owing.post = e.owed.post
  <2> HIDE DEF refused
  <2> QED  BY <1>2 DEF Execs, Owings
<1>4. e1 = [e EXCEPT !.published = found, !.owed = owing, !.backoff = backoff, !.post = saying]
  OBVIOUS
<1>5. e1 \in Execs /\ Remembers(e1, keys, copies) /\ e1.post = saying
  <2> HIDE DEF saying, found, refused, backoff, owing, e1
  <2> QED  BY <1>1, <1>2, <1>3, <1>4 DEF Execs, Remembers
<1>6. posting \in Execs /\ Sound(posting, keys, copies)
  <2> HIDE DEF e1, saying
  <2> QED  BY <1>1, <1>5 DEF Execs, Stages, Sound, Remembers
<1>7. kept \in Copy \union {NoCopy} /\ (kept # NoCopy => kept \in copies)
  OBVIOUS
<1>8. AfterVerdict(e, copy, verdict, installed, unchanged) \in {posting, AfterPost(e1, kept)}
  BY DEF AfterVerdict
<1> HIDE DEF e1, posting, kept
<1> QED  BY <1>5, <1>6, <1>7, <1>8, AfterPostType
-----------------------------------------------------------------------------
(* The thread is sound, the pinned file holds a key a pairing gave, and    *)
(* the copy held was held, and is for this player.                         *)
ExecIsSound ==
    /\ Sound(exec, history.given, history.held)
    /\ trustFile # None => trustFile \in history.given
    /\ held # NoCopy => held \in history.held /\ held.ours

(* A step of HeldCopy, as FallbackEnrollment sees it. *)
Promised == [Promise!Next]_(Promise!vars)

LEMMA NothingPromised ==
  ASSUME UNCHANGED <<held, history>>
  PROVE  Promised
BY DEF Promised, Promise!vars

LEMMA SoundGrows ==
  ASSUME NEW e, NEW keys, NEW copies, NEW keys1, NEW copies1, Sound(e, keys, copies),
         keys \subseteq keys1, copies \subseteq copies1
  PROVE  Sound(e, keys1, copies1)
BY DEF Sound, Remembers, Honest

LEMMA SoundRemembers ==
  ASSUME NEW e, NEW keys, NEW copies, Sound(e, keys, copies)
  PROVE  Remembers(e, keys, copies)
BY DEF Sound

LEMMA ExecInitTyped == Init => ExecTyped /\ ExecIsSound
<1> SUFFICES ASSUME Init PROVE ExecTyped /\ ExecIsSound
  OBVIOUS
<1>1. FreshExec \in Execs /\ FreshExec.at = "rest" /\ FreshExec.pinned = None
      /\ ~FreshExec.owed.present
  BY NoPostType DEF FreshExec, NothingOwed, Execs, Owings, Stages, Numbers
<1>2. history \in Histories
  BY DEF Init, Histories, Told, NothingTold
<1>3. ExecTyped
  BY <1>1, <1>2 DEF Init, ExecTyped
<1>4. ExecIsSound
  BY <1>1 DEF Init, PairingInit, ExecIsSound, Sound, Remembers
<1> QED  BY <1>3, <1>4

(* A step that changes only the thread's record. *)
LEMMA ExecOnly ==
  ASSUME Typed, ExecIsSound, exec' \in Execs, Sound(exec', history.given, history.held),
         keyFile' \in BOOLEAN, past' \subseteq Serials,
         UNCHANGED <<held, history, trustFile>>
  PROVE  ExecTyped' /\ ExecIsSound' /\ Promised
BY NothingPromised DEF Typed, ExecTyped, ExecIsSound

LEMMA TokenType ==
  ASSUME Typed
  PROVE  Token \in Numbers /\ Asked \in Execs
<1>1. Token \in Numbers
  BY DEF Typed, PairingTyped, ExecTyped, Token, Execs
<1> QED  BY <1>1 DEF Typed, ExecTyped, Asked, Execs

LEMMA ReadCredentialSound ==
  ASSUME Typed, ExecIsSound, ReadCredential
  PROVE  ExecTyped' /\ ExecIsSound' /\ Promised
<1> USE DEF Typed, PairingTyped, ExecTyped
<1> DEFINE over == IsOver(held)
           begun == [exec EXCEPT !.at = "keys", !.heldOver = over]
           owing == [exec.owed EXCEPT !.refused = FALSE]
           anew == [begun EXCEPT !.hash = credential, !.token = None,
                                 !.backoff = FALSE, !.registered = FALSE,
                                 !.attemptDue = TRUE, !.owed = owing]
<1>1. over \in BOOLEAN
  BY DEF IsOver
<1>2. owing \in Owings /\ owing.present = exec.owed.present /\ owing.post = exec.owed.post
  BY DEF Execs, Owings
<1>3. begun \in Execs /\ Sound(begun, history.given, history.held) /\ begun.at = "keys"
      /\ begun.owed = exec.owed /\ begun.pinned = exec.pinned
  <2> HIDE DEF over
  <2> QED  BY <1>1 DEF Execs, Stages, ExecIsSound, Sound, Remembers
<1>4. anew \in Execs /\ Sound(anew, history.given, history.held)
  <2>1. None \in Numbers
    BY DEF Numbers
  <2> HIDE DEF begun, owing
  <2> QED  BY <1>2, <1>3, <2>1 DEF Execs, Sound, Remembers
<1>5. exec' = begun \/ exec' = anew
  <2>1. begun.owed = exec.owed
    BY <1>3
  <2> QED  BY <2>1 DEF ReadCredential
<1>6. exec' \in Execs /\ Sound(exec', history.given, history.held)
  <2> HIDE DEF begun, anew
  <2> QED  BY <1>3, <1>4, <1>5
<1> QED  BY <1>6, ExecOnly DEF ReadCredential, pairingVars, execFiles

LEMMA ReadKeysSound ==
  ASSUME Typed, ExecIsSound, ReadKeys
  PROVE  ExecTyped' /\ ExecIsSound' /\ Promised
<1> USE DEF Typed, PairingTyped, ExecTyped
<1>1. PICK refused \in BOOLEAN, unwritten \in BOOLEAN :
          /\ exec' = [Refreshed(exec, LoadedKey(refused)) EXCEPT !.at = "probe"]
          /\ keyFile' = (keyFile \/ (CreatesKey /\ ~unwritten))
  BY DEF ReadKeys
<1>2. LoadedKey(refused) \in {None, trustFile}
  BY DEF LoadedKey
<1>3. ASSUME NEW key \in {None, trustFile}
      PROVE  /\ Refreshed(exec, key) \in Execs
             /\ Remembers(Refreshed(exec, key), history.given, history.held)
  <2>1. CASE Refreshed(exec, key) = exec
    BY <2>1 DEF ExecIsSound, Sound
  <2>2. CASE Refreshed(exec, key) = [exec EXCEPT !.pinned = key, !.fetchDue = TRUE]
             /\ key # None
    BY <1>3, <2>2 DEF Execs, ExecIsSound, Sound, Remembers
  <2> QED  BY <2>1, <2>2 DEF Refreshed
<1>4. exec' \in Execs /\ Sound(exec', history.given, history.held)
  BY <1>1, <1>2, <1>3, GoesOn
<1>5. keyFile' \in BOOLEAN
  BY <1>1
<1> QED  BY <1>4, <1>5, ExecOnly DEF ReadKeys, pairingFiles

LEMMA ProbeSound ==
  ASSUME Typed, ExecIsSound, Probe
  PROVE  ExecTyped' /\ ExecIsSound' /\ Promised
<1> USE DEF Typed, ExecTyped
<1> DEFINE fetching == [exec EXCEPT !.at = "fetch", !.atHandBack = TRUE]
           retrying == [exec EXCEPT !.at = "retry", !.post = exec.owed.post]
<1>1. Remembers(exec, history.given, history.held)
  BY SoundRemembers DEF ExecIsSound
<1>2. fetching \in Execs /\ Sound(fetching, history.given, history.held)
  BY <1>1 DEF Execs, Stages, Sound, Remembers
<1>3. retrying \in Execs /\ (exec.owed.present => Sound(retrying, history.given, history.held))
  BY <1>1 DEF Execs, Stages, Owings, Sound, Remembers
<1>4. \/ exec' = fetching
      \/ exec' = retrying /\ exec.owed.present
      \/ exec' = KeepCurrent(exec)
      \/ exec' = Rest(exec)
  BY DEF Probe
<1>5. exec' \in Execs /\ Sound(exec', history.given, history.held)
  <2> HIDE DEF fetching, retrying
  <2> QED  BY <1>1, <1>2, <1>3, <1>4, KeepCurrentType, RestType
<1> QED  BY <1>5, ExecOnly DEF Probe, pairingFiles, execFiles

LEMMA RegisterSound ==
  ASSUME Typed, ExecIsSound, Register
  PROVE  ExecTyped' /\ ExecIsSound' /\ Promised
<1> USE DEF Typed, ExecTyped
<1>1. Asked \in Execs /\ Remembers(Asked, history.given, history.held)
  BY TokenType DEF Asked, Execs, ExecIsSound, Sound, Remembers
<1>2. ASSUME NEW registered \in BOOLEAN, NEW backoff \in BOOLEAN, NEW due \in BOOLEAN
      PROVE  /\ [Asked EXCEPT !.registered = registered, !.backoff = backoff,
                               !.fetchDue = due] \in Execs
             /\ Remembers([Asked EXCEPT !.registered = registered, !.backoff = backoff,
                                         !.fetchDue = due], history.given, history.held)
  BY <1>1 DEF Execs, Remembers
<1>3. \E registered, backoff, due \in BOOLEAN :
          exec' = AfterRegistration([Asked EXCEPT !.registered = registered,
                                        !.backoff = backoff, !.fetchDue = due])
  <2> DEFINE due == Asked.fetchDue \/ ~coordinator.registered
             first == [Asked EXCEPT !.registered = TRUE, !.backoff = TRUE, !.fetchDue = due]
  <2>1. due \in BOOLEAN /\ Asked.fetchDue \in BOOLEAN
    BY <1>1 DEF Execs
  <2>2. \A registered, backoff \in BOOLEAN :
            [Asked EXCEPT !.registered = registered, !.backoff = backoff]
            = [Asked EXCEPT !.registered = registered, !.backoff = backoff,
                            !.fetchDue = Asked.fetchDue]
    BY <1>1 DEF Execs
  <2>3. CASE exec' = AfterRegistration(first)
    <3> HIDE DEF due
    <3> QED  BY <2>1, <2>3
  <2>4. CASE exec' = AfterRegistration([Asked EXCEPT !.registered = FALSE, !.backoff = TRUE])
    BY <2>1, <2>2, <2>4
  <2>5. CASE \E backoff \in BOOLEAN :
               exec' = AfterRegistration([Asked EXCEPT !.registered = FALSE, !.backoff = backoff])
    BY <2>1, <2>2, <2>5
  <2> QED  BY <2>3, <2>4, <2>5 DEF Register
<1>4. exec' \in Execs /\ Sound(exec', history.given, history.held)
  <2>1. PICK registered \in BOOLEAN, backoff \in BOOLEAN, due \in BOOLEAN :
            exec' = AfterRegistration([Asked EXCEPT !.registered = registered,
                                          !.backoff = backoff, !.fetchDue = due])
    BY <1>3
  <2> DEFINE e == [Asked EXCEPT !.registered = registered, !.backoff = backoff,
                                !.fetchDue = due]
  <2>2. e \in Execs /\ Remembers(e, history.given, history.held)
    BY <1>2
  <2>3. exec' = AfterRegistration(e)
    BY <2>1
  <2> HIDE DEF e
  <2> QED  BY <2>2, <2>3, AfterRegistrationType
<1> QED  BY <1>4, ExecOnly DEF Register, pairingFiles, execFiles

(* A copy that verifies against the pinned key is the coordinator's, and   *)
(* one that is the same as the verified copy held is that copy.            *)
LEMMA VerifiedCopy ==
  ASSUME Typed, ExecIsSound, NEW copy \in Copy, Verdict(copy) = "verified", exec.pinned # None
  PROVE  /\ copy.ours /\ copy.signer = exec.pinned /\ copy.signer \in history.given
         /\ Unchanged(copy) => copy = held /\ copy \in history.held
<1>1. copy.ours /\ copy.signer = exec.pinned
  BY DEF Verdict
<1>2. copy.signer \in history.given
  BY <1>1 DEF ExecIsSound, Sound, Remembers
<1>3. ASSUME Unchanged(copy) PROVE copy = held /\ copy \in history.held
  <2>1. /\ held \in Copy /\ held.ours /\ held \in history.held
        /\ held.signer = copy.signer /\ held.serial = copy.serial
        /\ held.enrolls = copy.enrolls
    BY <1>1, <1>3 DEF Unchanged, Same, ExecIsSound, Typed, ExecTyped
  <2>2. held.ours = copy.ours
    BY <1>1, <2>1 DEF Copy
  <2>3. copy = held
    BY <2>1, <2>2 DEF Copy
  <2> QED  BY <2>1, <2>3
<1> QED  BY <1>1, <1>2, <1>3

LEMMA VerdictType ==
  ASSUME NEW copy
  PROVE  Verdict(copy) \in Verdicts /\ "verified" \in Verdicts /\ "signature-invalid" \in Verdicts
BY DEF Verdict, Verdicts

LEMMA FetchSound ==
  ASSUME Typed, ExecIsSound, Fetch
  PROVE  ExecTyped' /\ ExecIsSound' /\ Promised
<1> USE DEF Typed, PairingTyped, ExecTyped
<1> DEFINE copy == coordinator.published
           begun == [Asked EXCEPT !.fetchDue = FALSE, !.reached = TRUE]
           keyless == [exec EXCEPT !.fetchDue = FALSE, !.reached = TRUE]
           unreached == [begun EXCEPT !.reached = FALSE]
           saying == [begun.post EXCEPT !.copy = copy]
           installing == [begun EXCEPT !.at = "install", !.post = saying]
<1>1. Asked \in Execs /\ Remembers(Asked, history.given, history.held)
  BY TokenType DEF Asked, Execs, ExecIsSound, Sound, Remembers
<1>2. /\ begun \in Execs /\ Remembers(begun, history.given, history.held)
      /\ begun.pinned = exec.pinned
  BY <1>1 DEF Asked, Execs, Remembers
<1>3. keyless \in Execs /\ Remembers(keyless, history.given, history.held)
  BY DEF Execs, ExecIsSound, Sound, Remembers
<1>4. unreached \in Execs /\ Remembers(unreached, history.given, history.held)
  <2> HIDE DEF begun
  <2> QED  BY <1>2 DEF Execs, Remembers
<1>5. copy \in Copy \union {NoCopy}
  BY DEF Coordinators
<1>6. held \in Copy \union {NoCopy} /\ (held # NoCopy => held \in history.held)
  BY DEF ExecIsSound
<1>7. CASE exec' = Finish(keyless, held) \/ exec' = Finish(unreached, held)
  <2>1. exec' \in Execs /\ Sound(exec', history.given, history.held)
    <3> HIDE DEF keyless, unreached
    <3> QED  BY <1>3, <1>4, <1>7, FinishType
  <2> QED  BY <2>1, ExecOnly DEF Fetch, pairingFiles, execFiles
<1>8. CASE exec' = AfterPost(begun, held)
  <2>1. exec' \in Execs /\ Sound(exec', history.given, history.held)
    <3> HIDE DEF begun
    <3> QED  BY <1>2, <1>6, <1>8, AfterPostType
  <2> QED  BY <2>1, ExecOnly DEF Fetch, pairingFiles, execFiles
<1>9. ASSUME exec.pinned # None, copy # NoCopy, Verdict(copy) # "verified",
             exec' = AfterVerdict(begun, copy, Verdict(copy), FALSE, FALSE)
      PROVE  ExecTyped' /\ ExecIsSound' /\ Promised
  <2>1. exec' \in Execs /\ Sound(exec', history.given, history.held)
    <3>1. Verdict(copy) \in Verdicts
      BY VerdictType
    <3> HIDE DEF begun, copy
    <3> QED  BY <1>2, <1>5, <1>6, <1>9, <3>1, AfterVerdictType
  <2> QED  BY <2>1, ExecOnly DEF Fetch, pairingFiles, execFiles
<1>10. ASSUME exec.pinned # None, copy # NoCopy, Verdict(copy) = "verified", Unchanged(copy),
              exec' = AfterVerdict(begun, copy, "verified", FALSE, TRUE)
       PROVE  ExecTyped' /\ ExecIsSound' /\ Promised
  <2>1. exec' \in Execs /\ Sound(exec', history.given, history.held)
    <3>1. "verified" \in Verdicts
      BY VerdictType
    <3> HIDE DEF begun, copy
    <3>2. copy \in history.held
      BY <1>5, <1>10, VerifiedCopy
    <3> QED  BY <1>2, <1>5, <1>6, <1>10, <3>1, <3>2, AfterVerdictType
  <2> QED  BY <2>1, ExecOnly DEF Fetch, pairingFiles, execFiles
<1>11. ASSUME exec.pinned # None, copy # NoCopy, Verdict(copy) = "verified",
              exec' = [begun EXCEPT !.at = "install", !.post.copy = copy]
       PROVE  ExecTyped' /\ ExecIsSound' /\ Promised
  <2>1. copy \in Copy /\ copy.ours /\ copy.signer \in history.given
    <3> HIDE DEF copy
    <3> QED  BY <1>5, <1>11, VerifiedCopy
  <2>2. saying \in Posts /\ saying.copy = copy
    <3>1. begun.post \in Posts
      BY <1>2 DEF Execs
    <3> HIDE DEF copy, begun
    <3> QED  BY <2>1, <3>1 DEF Posts
  <2>3. exec' = installing
    BY <1>11
  <2>4. installing \in Execs /\ Sound(installing, history.given, history.held)
    <3> HIDE DEF begun, saying, copy
    <3> QED  BY <1>2, <2>1, <2>2 DEF Execs, Stages, Sound, Remembers
  <2>5. exec' \in Execs /\ Sound(exec', history.given, history.held)
    <3> HIDE DEF installing
    <3> QED  BY <2>3, <2>4
  <2> QED  BY <2>5, ExecOnly DEF Fetch, pairingFiles, execFiles
<1> QED
  <2>1. CASE exec.pinned = None
    BY <1>7, <2>1 DEF Fetch
  <2>2. CASE exec.pinned # None
    <3>1. \/ exec' = Finish(unreached, held)
          \/ exec' = AfterPost(begun, held)
          \/ /\ copy # NoCopy /\ Verdict(copy) # "verified"
             /\ exec' = AfterVerdict(begun, copy, Verdict(copy), FALSE, FALSE)
          \/ /\ copy # NoCopy /\ Verdict(copy) = "verified" /\ Unchanged(copy)
             /\ exec' = AfterVerdict(begun, copy, "verified", FALSE, TRUE)
          \/ /\ copy # NoCopy /\ Verdict(copy) = "verified"
             /\ exec' = [begun EXCEPT !.at = "install", !.post.copy = copy]
      BY <2>2 DEF Fetch
    <3> HIDE DEF begun, copy, unreached
    <3> QED  BY <1>7, <1>8, <1>9, <1>10, <1>11, <2>2, <3>1
  <2> QED  BY <2>1, <2>2

LEMMA InstallSound ==
  ASSUME Typed, ExecIsSound, Install
  PROVE  ExecTyped' /\ ExecIsSound' /\ Promised
<1> USE DEF Typed, PairingTyped, ExecTyped
<1> DEFINE copy == exec.post.copy
<1>1. /\ copy \in Copy /\ copy.ours /\ copy.signer \in history.given
      /\ Remembers(exec, history.given, history.held)
  BY DEF Install, At, ExecIsSound, Sound
<1>2. "verified" \in Verdicts /\ "signature-invalid" \in Verdicts
  BY VerdictType
<1>3. copy # NoCopy
  BY <1>1, EnrollmentAssumption
<1>4. ASSUME /\ held' = copy
             /\ exec' = AfterVerdict(exec, copy, "verified", TRUE, FALSE)
             /\ history' = [history EXCEPT !.held = @ \union {copy}]
             /\ UNCHANGED <<trustFile, keyFile, past>>
      PROVE  ExecTyped' /\ ExecIsSound' /\ Promised
  <2> DEFINE copies == history.held \union {copy}
  <2>1. /\ history'.held = copies /\ history'.given = history.given
        /\ history'.told = history.told /\ history' \in Histories
    <3>1. history.held \subseteq Copy /\ copies \subseteq Copy
      BY <1>1 DEF Histories
    <3>2. history' = [history EXCEPT !.held = copies]
      BY <1>4
    <3> HIDE DEF copies
    <3> QED  BY <3>1, <3>2 DEF Histories
  <2>2. Remembers(exec, history.given, copies)
    BY <1>1 DEF Remembers, Honest
  <2>3. copy \in copies /\ held \in Copy \union {NoCopy} /\ (held # NoCopy => held \in copies)
    BY DEF ExecIsSound
  <2>4. exec' \in Execs /\ Sound(exec', history.given, copies)
    <3> HIDE DEF copies, copy
    <3> QED  BY <1>1, <1>2, <1>4, <2>2, <2>3, AfterVerdictType
  <2>5. ExecTyped' /\ ExecIsSound'
    <3> HIDE DEF copy
    <3> QED  BY <1>1, <1>4, <2>1, <2>3, <2>4 DEF ExecIsSound
  <2>6. Promise!Install
    <3>1. \E key \in history.given : Genuine(held', key)
      BY <1>1, <1>4 DEF Genuine
    <3> QED  BY <1>3, <1>4, <2>1, <3>1 DEF Promise!Install
  <2> QED  BY <2>5, <2>6 DEF Promised, Promise!Next
<1>5. ASSUME /\ exec' = AfterVerdict(exec, copy, "signature-invalid", FALSE, FALSE)
             /\ UNCHANGED <<held, history, trustFile, keyFile, past>>
      PROVE  ExecTyped' /\ ExecIsSound' /\ Promised
  <2>1. held \in Copy \union {NoCopy} /\ (held # NoCopy => held \in history.held)
    BY DEF ExecIsSound
  <2>2. exec' \in Execs /\ Sound(exec', history.given, history.held)
    <3> HIDE DEF copy
    <3> QED  BY <1>1, <1>2, <1>5, <2>1, AfterVerdictType
  <2> QED  BY <1>5, <2>2, ExecOnly
<1> QED
  BY <1>4, <1>5 DEF Install, Replaces, pairingFiles

LEMMA AcknowledgeSound ==
  ASSUME Typed, ExecIsSound, Acknowledge
  PROVE  ExecTyped' /\ ExecIsSound' /\ Promised
<1> USE DEF Typed, PairingTyped, ExecTyped
<1> DEFINE H == history.held
           G == history.given
           Then(e) == CASE e.at = "retry" -> KeepCurrent(e)
                        [] e.at = "post" -> AfterPost(e, held)
                        [] e.at = "holdingPost" -> Finish(e, held)
           saying == [copy |-> exec.post.copy, verdict |-> exec.post.verdict]
           told == [history EXCEPT !.told = saying]
           remembered == IF exec.post.remember THEN exec.post ELSE Asked.acknowledged
           settled == [Asked EXCEPT !.owed = NothingOwed, !.acknowledged = remembered]
<1>0. exec.at \in {"retry", "post", "holdingPost"}
  BY DEF Acknowledge
<1>1. exec.post \in Posts /\ Honest(exec.post, H) /\ Remembers(exec, G, H)
  BY <1>0 DEF ExecIsSound, Sound, Execs
<1>2. /\ Asked \in Execs /\ Asked.at = exec.at /\ Asked.pinned = exec.pinned
      /\ Asked.post = exec.post /\ Asked.acknowledged = exec.acknowledged
  BY TokenType DEF Asked, Execs
<1>3. ASSUME NEW e \in Execs, e.at = exec.at, Remembers(e, G, H)
      PROVE  Then(e) \in Execs /\ Sound(Then(e), G, H)
  <2>1. held \in Copy \union {NoCopy} /\ (held # NoCopy => held \in H)
    BY DEF ExecIsSound
  <2>2. CASE exec.at = "retry"
    BY <1>3, <2>2, KeepCurrentType
  <2>3. CASE exec.at = "post"
    BY <1>3, <2>1, <2>3, AfterPostType
  <2>4. CASE exec.at = "holdingPost"
    BY <1>3, <2>1, <2>4, FinishType
  <2> QED  BY <1>0, <2>2, <2>3, <2>4
<1>4. settled \in Execs /\ settled.at = exec.at /\ Remembers(settled, G, H)
  <2>1. remembered \in Posts
    BY <1>1, <1>2 DEF Execs
  <2>2. NothingOwed \in Owings /\ NothingOwed.present = FALSE
    BY NoPostType DEF NothingOwed, Owings
  <2> HIDE DEF remembered, G, H
  <2> QED  BY <1>1, <1>2, <2>1, <2>2 DEF Execs, Remembers
<1>5. ASSUME NEW refused \in BOOLEAN
      PROVE  Owing(refused) \in Execs /\ Owing(refused).at = exec.at
             /\ Remembers(Owing(refused), G, H)
  <2> DEFINE owing == [present |-> TRUE, refused |-> refused, post |-> exec.post]
  <2>1. owing \in Owings /\ owing.post = exec.post
    BY <1>1 DEF Owings
  <2>2. Owing(refused) = [Asked EXCEPT !.owed = owing]
    BY DEF Owing
  <2> HIDE DEF owing, G, H
  <2> QED  BY <1>1, <1>2, <2>1, <2>2 DEF Execs, Remembers
<1>6. /\ told \in Histories /\ told.given = history.given /\ told.held = history.held
      /\ told.told = saying
  <2>1. saying \in Told
    BY <1>1 DEF Posts, Told
  <2> HIDE DEF saying
  <2> QED  BY <2>1 DEF Histories
<1>7. UNCHANGED <<held, trustFile, keyFile, past>>
  BY DEF Acknowledge, pairingFiles, execFiles
<1>8. /\ history' \in {history, told}
      /\ exec' \in {Then(settled), Then(Owing(Token # None)), Then(Owing(FALSE))}
  BY DEF Acknowledge
<1>9. exec' \in Execs /\ Sound(exec', G, H)
  <2>1. (Token # None) \in BOOLEAN /\ FALSE \in BOOLEAN
    OBVIOUS
  <2> HIDE DEF settled, G, H, Then
  <2> QED  BY <1>3, <1>4, <1>5, <1>8, <2>1
<1>10. CASE history' = history
  <2> QED  BY <1>7, <1>9, <1>10, ExecOnly
<1>11. CASE history' = told
  <2>1. ExecTyped' /\ ExecIsSound'
    <3>1. history'.given = G /\ history'.held = H /\ history' \in Histories
      BY <1>6, <1>11
    <3>2. ExecTyped'
      BY <1>7, <1>9, <3>1
    <3>3. ExecIsSound'
      BY <1>7, <1>9, <3>1 DEF ExecIsSound
    <3> QED  BY <3>2, <3>3
  <2>2. Promise!Tell
    <3>1. history'.told.verdict = "verified" => history'.told.copy \in history.held
      BY <1>1, <1>6, <1>11 DEF Honest
    <3> QED  BY <1>6, <1>7, <1>11, <3>1 DEF Promise!Tell
  <2> QED  BY <2>1, <2>2 DEF Promised, Promise!Next
<1> QED  BY <1>8, <1>10, <1>11
-----------------------------------------------------------------------------
(* The pairing thread gives keys, or none. *)
LEMMA KeysGiven ==
  ASSUME PairingTyped, PairingStep
  PROVE  trustFile' = trustFile \/ trustFile' \in Nat
<1>1. CASE StoreKey
  BY <1>1 DEF StoreKey, PairingTyped, Waits, Numbers
<1>2. CASE Begin \/ WriteCode \/ WriteStatus \/ Poll \/ Expire \/ Claim \/ SaveCredential
  BY <1>2 DEF Begin, WriteCode, WriteStatus, Poll, Expire, Claim, SaveCredential
<1> QED  BY <1>1, <1>2 DEF PairingStep

LEMMA PairingThreadSound ==
  ASSUME Typed, ExecIsSound, PairingThread
  PROVE  ExecTyped' /\ ExecIsSound' /\ Promised
<1> DEFINE keys == history.given \union ({trustFile'} \ {trustFile})
<1>1. /\ UNCHANGED <<keyFile, held, exec, past>>
      /\ history' = [history EXCEPT !.given = keys]
  BY DEF PairingThread, execFiles
<1>2. keys \in SUBSET Nat
  BY KeysGiven DEF PairingThread, Typed, ExecTyped, Histories
<1>3. /\ history' \in Histories /\ history'.given = keys /\ history'.held = history.held
      /\ history'.told = history.told
  <2> HIDE DEF keys
  <2> QED  BY <1>1, <1>2 DEF Typed, ExecTyped, Histories
<1>4. history.given \subseteq keys /\ (trustFile' # trustFile => trustFile' \in keys)
  OBVIOUS
<1>5. ExecTyped'
  BY <1>1, <1>3 DEF Typed, ExecTyped
<1>6. ExecIsSound'
  <2>1. Sound(exec, keys, history.held)
    BY <1>4, SoundGrows DEF ExecIsSound
  <2> HIDE DEF keys
  <2> QED  BY <1>1, <1>3, <1>4, <2>1 DEF ExecIsSound
<1>7. Promised
  <2>1. CASE trustFile' = trustFile
    <3>1. keys = history.given
      BY <2>1
    <3>2. /\ UNCHANGED held /\ history'.given = history.given /\ history'.held = history.held
          /\ history'.told = history.told
      <4> HIDE DEF keys
      <4> QED  BY <1>1, <1>3, <3>1
    <3> QED  BY <3>2 DEF Promised, Promise!vars
  <2>2. CASE trustFile' # trustFile
    <3>1. \E key \in history'.given : history'.given = history.given \union {key}
      BY <1>3, <2>2
    <3>2. UNCHANGED held /\ history'.held = history.held /\ history'.told = history.told
      <4> HIDE DEF keys
      <4> QED  BY <1>1, <1>3
    <3> QED  BY <3>1, <3>2 DEF Promised, Promise!Next, Promise!Pin
  <2> QED  BY <2>1, <2>2
<1> QED  BY <1>5, <1>6, <1>7

LEMMA RestartSound ==
  ASSUME Typed, ExecIsSound, ProcessRestarts
  PROVE  ExecTyped' /\ ExecIsSound' /\ Promised
<1>1. FreshExec \in Execs /\ FreshExec.at = "rest" /\ FreshExec.pinned = None
      /\ ~FreshExec.owed.present
  BY NoPostType DEF FreshExec, NothingOwed, Execs, Owings, Stages, Numbers
<1>2. exec' = FreshExec /\ UNCHANGED <<keyFile, held, past, history, trustFile>>
  BY DEF ProcessRestarts, Restart, execFiles
<1>3. exec' \in Execs /\ Sound(exec', history.given, history.held)
  BY <1>1, <1>2 DEF Sound, Remembers
<1> QED  BY <1>2, <1>3, ExecOnly DEF Typed, ExecTyped

LEMMA OthersSound ==
  ASSUME Typed, ExecIsSound, Others
  PROVE  ExecTyped' /\ ExecIsSound' /\ Promised
<1>1. CASE Executor
  BY <1>1, ReadCredentialSound, ReadKeysSound, ProbeSound, RegisterSound, FetchSound,
     InstallSound, AcknowledgeSound DEF Executor
<1>2. CASE Operator \/ Publish \/ CoordinatorForgets
  BY <1>2, ExecOnly
  DEF Operator, Request, Invite, files, Publish, CoordinatorForgets, pairingFiles, execFiles,
      Typed, ExecTyped, ExecIsSound
<1>3. CASE Expires
  <2>1. past' \subseteq Serials
    BY <1>3 DEF Expires, Typed, ExecTyped
  <2> QED
    BY <1>3, <2>1, ExecOnly DEF Expires, pairingVars, execFiles, Typed, ExecTyped, ExecIsSound
<1>4. CASE HandBack \/ RefetchTimer \/ BackoffTimer
  <2>1. exec' \in Execs /\ Sound(exec', history.given, history.held)
    BY <1>4 DEF HandBack, RefetchTimer, BackoffTimer, Typed, ExecTyped, Execs, ExecIsSound,
       Sound, Remembers
  <2> QED
    BY <1>4, <2>1, ExecOnly DEF HandBack, RefetchTimer, BackoffTimer, pairingFiles,
       pairingVars, execFiles, Typed, ExecTyped
<1> QED  BY <1>1, <1>2, <1>3, <1>4 DEF Others, Environment

LEMMA ExecNext ==
  Typed /\ ExecIsSound /\ [Next]_vars => ExecTyped' /\ ExecIsSound' /\ Promised
<1> SUFFICES ASSUME Typed, ExecIsSound, [Next]_vars
             PROVE  ExecTyped' /\ ExecIsSound' /\ Promised
  OBVIOUS
<1>1. CASE UNCHANGED vars
  BY <1>1, NothingPromised DEF vars, pairingVars, execFiles, Typed, ExecTyped, ExecIsSound
<1> QED
  BY <1>1, Steps, PairingThreadSound, RestartSound, OthersSound

LEMMA AlwaysSound == Spec => [](Typed /\ ExecIsSound)
<1>1. Init => ExecTyped /\ ExecIsSound
  BY ExecInitTyped
<1>2. PairingTyped /\ ExecTyped <=> Typed
  BY DEF Typed
<1> QED  BY <1>1, <1>2, AlwaysPairing, ExecNext, PTL DEF Spec

(* Every variable of pairing and of enrollment keeps its type, and no      *)
(* budget is overspent.                                                    *)
THEOREM TypeCorrect == Spec => []TypeOK
BY AlwaysSound, TypedIsTypeOK, PTL

(* Enrollment implements HeldCopy: what lies at installPath was signed for *)
(* this player by a coordinator key that a pairing delivered, and only     *)
(* copies that lay there are called "verified" (fallback_program_fetch.h,  *)
(* fallback_executor.h:1012-1120).                                         *)
THEOREM PromiseIsKept == Spec => KeepsThePromise
<1>1. Init => Promise!Init
  BY DEF Init, Promise!Init
<1>2. Typed /\ ExecIsSound /\ [Next]_vars => [Promise!Next]_(Promise!vars)
  BY ExecNext DEF Promised
<1> QED  BY <1>1, <1>2, AlwaysSound, PTL DEF Spec, KeepsThePromise, Promise!Spec
=============================================================================
