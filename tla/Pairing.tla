------------------------------- MODULE Pairing -------------------------------
(***************************************************************************)
(* How a player gets its credential (native/src/pairing.cpp, with the      *)
(* credential writer of coordinator_config.cpp and the key sink of         *)
(* adapters/shared/pairing_delivery.h).                                    *)
(*                                                                         *)
(* The n-th pairing has the secret n; its code and the token the           *)
(* coordinator mints for it are named by the same n.  A step is one file   *)
(* operation or one request of the pairing thread, so a process may die    *)
(* between any two of them.  A poll the coordinator does not know yet      *)
(* (404) does nothing; a refused or unreachable one and a poll without a   *)
(* coordinator address set lastError, which is not modelled, and write the *)
(* status file again.  The ten minutes are a choice: Expire may happen at  *)
(* any poll.  Stopping the plugin lets the running step end and is         *)
(* otherwise a crash, because nothing is saved for it.                     *)
(***************************************************************************)
EXTENDS Naturals

CONSTANTS
    None,              \* no secret, no code, no token, no key
    Budget,            \* bounds, by name
    Starts             \* what may be left of them at the start

(* Faults are lost or unusable answers, failed writes and refused reads. *)
Bounded == {"requests", "coordinators", "copies", "handBacks", "faults", "ends"}

ASSUME PairingAssumption ==
    /\ None \notin Nat
    /\ Budget \in [Bounded -> Nat]
    /\ Starts \subseteq [Bounded -> Nat]
    /\ \A start \in Starts, what \in Bounded : start[what] <= Budget[what]

VARIABLES
    request,           \* whether the file pairing-request is there
    codeFile,          \* whose code pairing-code holds
    statusFile,        \* pairing-status.json
    wait,              \* the pairing thread: status_, secretHex_, where it is
    credential,        \* the token in the credential file
    trustFile,         \* the pinned coordinator key file
    coordinator,       \* its key, the token it accepts, the code it was given
    left               \* what is left of Budget

files == <<request, codeFile, statusFile>>
pairingVars == <<files, wait, credential, trustFile, coordinator, left>>

States == {"idle", "waiting", "paired", "expired", "failed"}

Points == {"rest", "code", "status", "credential", "key"}

Numbers == Nat \union {None}

Idle == [state |-> "idle", principal |-> None]

Spend(what) ==
    /\ left[what] > 0
    /\ left' = [left EXCEPT ![what] = @ - 1]

(* The next secret: one request is left for each that was not yet made. *)
NextSecret == Budget["requests"] - left["requests"]

PairingInit ==
    /\ request = FALSE
    /\ codeFile = None
    /\ statusFile = Idle
    /\ wait = [at |-> "rest", status |-> Idle, secret |-> None, key |-> None]
    /\ credential = None
    /\ trustFile = None
    /\ left \in Starts

Waiting == wait.status.state = "waiting"

(* setState() and the assignments of status_: a pairing that is not paired *)
(* keeps the principal of the one before it, which startPairing() clears.  *)
Reach(state, point) == [wait EXCEPT !.at = point, !.status.state = state]

(* endPairing(true) without the file. *)
Forget(w) == [w EXCEPT !.secret = None, !.key = None]
-----------------------------------------------------------------------------
(* The operator asks for a pairing. *)
Request ==
    /\ ~request
    /\ Spend("requests")
    /\ request' = TRUE
    /\ UNCHANGED <<codeFile, statusFile, wait, credential, trustFile, coordinator>>

(* The operator types the code the player shows into the coordinator. *)
Invite ==
    /\ codeFile # None
    /\ coordinator.invited # codeFile
    /\ coordinator' = [coordinator EXCEPT !.invited = codeFile]
    /\ UNCHANGED <<files, wait, credential, trustFile, left>>

(* checkPairingRequest() and startPairing(): the request is gone, and      *)
(* whatever pairing was open has ended, before anything can fail.          *)
Begin ==
    /\ wait.at = "rest"
    /\ request
    /\ request' = FALSE
    /\ codeFile' = None
    /\ \/ /\ wait' = [at |-> "code", status |-> [state |-> "waiting", principal |-> None],
                      secret |-> NextSecret, key |-> None]
          /\ UNCHANGED left
       \/ /\ Spend("faults")
          /\ wait' = Forget(Reach("failed", "status"))
    /\ UNCHANGED <<statusFile, credential, trustFile, coordinator>>

(* writeFileAtomically() of pairing-code; a failure goes unnoticed. *)
WriteCode ==
    /\ wait.at = "code"
    /\ \/ codeFile' = wait.secret /\ UNCHANGED left
       \/ Spend("faults") /\ UNCHANGED codeFile
    /\ wait' = [wait EXCEPT !.at = "status"]
    /\ UNCHANGED <<request, statusFile, credential, trustFile, coordinator>>

(* writeStatusFile(); a failure goes unnoticed. *)
WriteStatus ==
    /\ wait.at = "status"
    /\ \/ statusFile' = wait.status /\ UNCHANGED left
       \/ Spend("faults") /\ UNCHANGED statusFile
    /\ wait' = [wait EXCEPT !.at = "rest"]
    /\ UNCHANGED <<request, codeFile, credential, trustFile, coordinator>>

(* The parts of tick() that wait for an invitation: a poll that fails ... *)
Poll ==
    /\ wait.at = "rest"
    /\ ~request
    /\ Waiting
    /\ statusFile # wait.status
    /\ wait' = [wait EXCEPT !.at = "status"]
    /\ UNCHANGED <<files, credential, trustFile, coordinator, left>>

(* Plausible bug: the window is looked at only while a code is shown. *)
ExpireTheShown ==
    /\ wait.at = "rest"
    /\ ~request
    /\ Waiting
    /\ codeFile = wait.secret
    /\ codeFile' = None
    /\ wait' = Forget(Reach("expired", "status"))
    /\ UNCHANGED <<request, statusFile, credential, trustFile, coordinator, left>>

(* ... and the end of the ten minutes. *)
Expire ==
    /\ wait.at = "rest"
    /\ ~request
    /\ Waiting
    /\ codeFile' = None
    /\ wait' = Forget(Reach("expired", "status"))
    /\ UNCHANGED <<request, statusFile, credential, trustFile, coordinator, left>>

(* attemptClaim() reaches a coordinator that was given the code: it mints  *)
(* the token and forgets the code, whether or not its answer arrives.  A   *)
(* coordinator may send no key, and an answer may make no sense.           *)
Claim ==
    /\ wait.at = "rest"
    /\ ~request
    /\ Waiting
    /\ coordinator.invited = wait.secret
    /\ coordinator' = [coordinator EXCEPT !.token = wait.secret, !.invited = None]
    /\ \/ /\ wait' = [wait EXCEPT !.at = "credential", !.key = coordinator.key]
          /\ UNCHANGED <<codeFile, left>>
       \/ /\ Spend("faults")
          /\ \/ /\ wait' = [wait EXCEPT !.at = "credential"]
                /\ UNCHANGED codeFile
             \/ /\ wait' = [wait EXCEPT !.at = "status"]
                /\ UNCHANGED codeFile
             \/ /\ wait' = Forget(Reach("failed", "status"))
                /\ codeFile' = None
    /\ UNCHANGED <<request, statusFile, credential, trustFile>>

(* Plausible bug: the result of writing the credential is not looked at. *)
SaveCredentialUnchecked ==
    /\ wait.at = "credential"
    /\ wait' = [wait EXCEPT !.at = "key"]
    /\ \/ credential' = wait.secret /\ UNCHANGED left
       \/ Spend("faults") /\ UNCHANGED credential
    /\ UNCHANGED <<files, trustFile, coordinator>>

(* writeCoordinatorCredentialAtomically() *)
SaveCredential ==
    /\ wait.at = "credential"
    /\ \/ /\ credential' = wait.secret
          /\ wait' = [wait EXCEPT !.at = "key"]
          /\ UNCHANGED <<codeFile, left>>
       \/ /\ Spend("faults")
          /\ codeFile' = None
          /\ wait' = Forget(Reach("failed", "status"))
          /\ UNCHANGED credential
    /\ UNCHANGED <<request, statusFile, trustFile, coordinator>>

(* keySink_: StoreCoordinatorPublicKey() cannot fail the pairing, which    *)
(* ends here.                                                              *)
StoreKey ==
    /\ wait.at = "key"
    /\ \/ /\ trustFile' = IF wait.key = None THEN trustFile ELSE wait.key
          /\ UNCHANGED left
       \/ Spend("faults") /\ UNCHANGED trustFile
    /\ codeFile' = None
    /\ wait' = Forget([wait EXCEPT !.at = "status",
                                   !.status = [state |-> "paired", principal |-> wait.secret]])
    /\ UNCHANGED <<request, statusFile, credential, coordinator>>

(* The process ends, by a crash or a stop of the plugin, and starts again: *)
(* reconcileStartupState().  A wait whose secret died with its process has *)
(* expired; any other state is taken over.                                 *)
Restart ==
    /\ Spend("ends")
    /\ LET waited == statusFile.state = "waiting"
       IN  /\ codeFile' = IF waited THEN None ELSE codeFile
           /\ wait' = [at |-> IF waited THEN "status" ELSE "rest",
                       status |-> IF waited THEN [state |-> "expired", principal |-> None]
                                            ELSE statusFile,
                       secret |-> None, key |-> None]
    /\ UNCHANGED <<request, statusFile, credential, trustFile, coordinator>>

(* What the pairing thread does by itself. *)
PairingStep ==
    \/ Begin \/ WriteCode \/ WriteStatus \/ Poll \/ Expire \/ Claim
    \/ SaveCredential \/ StoreKey
-----------------------------------------------------------------------------
(* A status file that says the player is paired names a principal whose    *)
(* credential was saved, and at most a later one has replaced it: the      *)
(* operator is never told of a pairing that a restart would find missing   *)
(* (attemptClaim(), pairing.cpp:363-392).                                  *)
PairedHasCredential ==
    statusFile.state = "paired" =>
        /\ credential # None
        /\ statusFile.principal <= credential

(* Every wait for the coordinator comes to an end, whatever is lost or     *)
(* fails, because the secret is spent once and the window closes           *)
(* (tick(), pairing.cpp:218-242).                                          *)
WaitEnds == Waiting ~> ~Waiting
=============================================================================
