-------------------------- MODULE FallbackEnrollment --------------------------
(***************************************************************************)
(* How a paired player comes to hold a signed program it may execute       *)
(* (native/adapters/shared): the executor's background thread in normal    *)
(* mode reads the credential and the pinned key the pairing thread writes, *)
(* creates and registers the executor key, fetches the program, verifies   *)
(* it, installs it and tells the coordinator what became of it.            *)
(*                                                                         *)
(* A step is one file operation or one request.  Ed25519 and JCS are taken *)
(* as what they promise: a document verifies under a key exactly when that *)
(* key signed it, so a copy carries its signer.  The timers are choices:   *)
(* the refetch interval and the registration backoff (doubled up to ten    *)
(* minutes) are over whenever the clock says so.  State reports, probes    *)
(* that confirm a loss and the modes are in FallbackExecutor; the hand-off *)
(* to nodes, the command target lists and the log are left out.            *)
(***************************************************************************)
EXTENDS Pairing

CONSTANTS
    NoCopy,
    Serials            \* the programs coordinators publish

VARIABLES
    keyFile,           \* whether fallback-executor-key exists
    held,              \* the copy at installPath
    exec,              \* the background thread and what it remembers
    past,              \* the programs whose expiry has passed
    history            \* read by properties alone: the keys pairings gave, the
                       \* copies held, the last verdict a coordinator recorded

pairingFiles == <<request, codeFile, statusFile, wait, credential, trustFile>>
execFiles == <<keyFile, held>>
vars == <<pairingVars, execFiles, exec, past, history>>

(* The same package, revision and expiry may be signed by two keys. *)
Copy == [serial : Serials, signer : Nat, ours : BOOLEAN, enrolls : BOOLEAN]

ASSUME EnrollmentAssumption == Serials \subseteq Nat /\ NoCopy \notin Copy

Same(one, other) ==
    /\ one # NoCopy
    /\ other # NoCopy
    /\ one.serial = other.serial
    /\ one.enrolls = other.enrolls

Genuine(copy, key) == copy.signer = key /\ copy.ours

Verdicts == {"verified", "signature-invalid", "mismatched-program"}

(* An acknowledgement, and whether lastAcknowledged_ will hold it. *)
NoPost == [copy |-> NoCopy, verdict |-> "verified", remember |-> FALSE]

SamePost(one, other) == Same(one.copy, other.copy) /\ one.verdict = other.verdict

NothingTold == [copy |-> NoCopy, verdict |-> "none"]

NothingOwed == [present |-> FALSE, refused |-> FALSE, post |-> NoPost]

(* A fresh FallbackExecutor.  Its executor key is the file keyFile. *)
FreshExec ==
    [at |-> "rest", hash |-> None, token |-> None, pinned |-> None,
     registered |-> FALSE, attemptDue |-> TRUE, backoff |-> FALSE,
     fetchDue |-> TRUE, handBackDue |-> FALSE, atHandBack |-> FALSE,
     heldOver |-> FALSE, published |-> FALSE, reached |-> FALSE,
     post |-> NoPost, acknowledged |-> NoPost, owed |-> NothingOwed]

Init ==
    /\ PairingInit
    /\ coordinator = [key |-> 1, token |-> None, invited |-> None,
                      registered |-> FALSE, published |-> NoCopy]
    /\ keyFile = FALSE
    /\ held = NoCopy
    /\ exec = FreshExec
    /\ past = {}
    /\ history = [given |-> {}, held |-> {}, told |-> NothingTold]

At(point) == exec.at = point

Goto(point) == exec' = [exec EXCEPT !.at = point]

IsOver(copy) == copy # NoCopy /\ copy.serial \in past
-----------------------------------------------------------------------------
(* The coordinator publishes a program, for this player or for another     *)
(* one.  It carries the executor key when one is registered.               *)
Publish ==
    /\ Spend("copies")
    /\ \E serial \in Serials, ours \in BOOLEAN :
           coordinator' = [coordinator EXCEPT !.published =
               [serial |-> serial, signer |-> coordinator.key, ours |-> ours,
                enrolls |-> coordinator.registered]]
    /\ UNCHANGED <<pairingFiles, execFiles, exec, past, history>>

(* Another coordinator, with a key of its own, takes the address over, or  *)
(* the same one loses the executor key.                                    *)
CoordinatorForgets ==
    /\ Spend("coordinators")
    /\ coordinator' \in
           {[key |-> coordinator.key + 1, token |-> None, invited |-> None,
             registered |-> FALSE, published |-> NoCopy],
            [coordinator EXCEPT !.registered = FALSE,
                 !.published = IF @ = NoCopy THEN @ ELSE [@ EXCEPT !.enrolls = FALSE]]}
    /\ UNCHANGED <<pairingFiles, execFiles, exec, past, history>>

(* The expiry of a program passes. *)
Expires ==
    /\ \E serial \in Serials \ past : past' = past \union {serial}
    /\ UNCHANGED <<pairingVars, execFiles, exec, history>>

(* handBack(), on either thread: hand-back step 3 is owed. *)
HandBack ==
    /\ Spend("handBacks")
    /\ exec' = [exec EXCEPT !.handBackDue = TRUE]
    /\ UNCHANGED <<pairingFiles, coordinator, execFiles, past, history>>

RefetchTimer ==
    /\ At("rest")
    /\ ~exec.fetchDue
    /\ exec' = [exec EXCEPT !.fetchDue = TRUE]
    /\ UNCHANGED <<pairingVars, execFiles, past, history>>

BackoffTimer ==
    /\ At("rest")
    /\ exec.backoff
    /\ exec' = [exec EXCEPT !.backoff = FALSE]
    /\ UNCHANGED <<pairingVars, execFiles, past, history>>
-----------------------------------------------------------------------------
(* A tick with a probe due begins with refreshCredentialAndKey(): another  *)
(* token is another pairing.                                               *)
ReadCredential ==
    /\ At("rest")
    /\ LET begun == [exec EXCEPT !.at = "keys", !.heldOver = IsOver(held)]
       IN  exec' = IF credential = exec.hash
                   THEN begun
                   ELSE [begun EXCEPT !.hash = credential, !.token = None,
                                      !.backoff = FALSE, !.registered = FALSE,
                                      !.attemptDue = TRUE, !.owed.refused = FALSE]
    /\ UNCHANGED <<pairingVars, execFiles, past, history>>

(* LoadPinnedCoordinatorPublicKey(): a file it cannot trust gives no key. *)
LoadedKey(refused) == IF refused THEN None ELSE trustFile

(* refreshPinnedKey(): a key that has loaded is replaced only by another   *)
(* one that loads, which is fetched against at once.                       *)
Refreshed(e, key) ==
    IF key \in {None, e.pinned} THEN e ELSE [e EXCEPT !.pinned = key, !.fetchDue = TRUE]

(* LoadOrCreateExecutorKey(): created once there is a token, and kept. *)
CreatesKey == ~keyFile /\ credential # None

ReadKeys ==
    /\ At("keys")
    /\ \E refused, unwritten \in BOOLEAN :
           /\ IF refused \/ unwritten THEN Spend("faults") ELSE UNCHANGED left
           /\ exec' = [Refreshed(exec, LoadedKey(refused)) EXCEPT !.at = "probe"]
           /\ keyFile' = (keyFile \/ (CreatesKey /\ ~unwritten))
    /\ UNCHANGED <<pairingFiles, coordinator, held, past, history>>
-----------------------------------------------------------------------------
(* FileCredentialSource::token(): read once, until it is invalidated. *)
Token == IF exec.token = None THEN credential ELSE exec.token

Authenticated == Token # None /\ Token = coordinator.token

(* The request that reads the token caches it. *)
Asked == [exec EXCEPT !.token = Token]

(* registerKey() is called by keepCurrent() before the fetch, and after it *)
(* when the program does not carry the key the coordinator should have.    *)
RegistrationWanted(e) ==
    keyFile /\ ~e.backoff /\ ~e.registered /\ (e.attemptDue \/ e.fetchDue)

(* Plausible bug: the flag in memory is trusted. *)
RegistrationNeverDoubted(e, copy) == FALSE

RegistrationDoubted(e, copy) ==
    /\ e.published /\ ~e.atHandBack
    /\ keyFile /\ ~e.backoff /\ e.registered
    /\ ~copy.enrolls

(* A tick that is over keeps nothing of what it found out. *)
Rest(e) == [e EXCEPT !.at = "rest", !.heldOver = FALSE, !.published = FALSE,
                     !.reached = FALSE, !.atHandBack = FALSE, !.post = NoPost]

AfterRegistration(e) ==
    IF e.at = "register" /\ e.fetchDue
    THEN [e EXCEPT !.attemptDue = FALSE, !.at = "fetch"]
    ELSE Rest([e EXCEPT !.attemptDue = @ /\ e.at # "register"])

KeepCurrent(e) ==
    LET due == [e EXCEPT !.at = "register", !.post = NoPost]
    IN  IF RegistrationWanted(e) THEN due ELSE AfterRegistration(due)

(* Plausible bug: an owed acknowledgement waits for the next fetch. *)
ProbeForgetsTheOwed ==
    /\ At("probe")
    /\ \/ /\ UNCHANGED left
          /\ exec' = IF exec.handBackDue
                     THEN [exec EXCEPT !.at = "fetch", !.atHandBack = TRUE]
                     ELSE KeepCurrent(exec)
       \/ Spend("faults") /\ exec' = Rest(exec)
    /\ UNCHANGED <<pairingFiles, coordinator, execFiles, past, history>>

(* The probe, and what tick() does first when the coordinator answered. *)
Probe ==
    /\ At("probe")
    /\ \/ /\ UNCHANGED left
          /\ exec' = IF exec.handBackDue
                     THEN [exec EXCEPT !.at = "fetch", !.atHandBack = TRUE]
                     ELSE IF exec.owed.present /\ ~exec.owed.refused
                     THEN [exec EXCEPT !.at = "retry", !.post = exec.owed.post]
                     ELSE KeepCurrent(exec)
       \/ Spend("faults") /\ exec' = Rest(exec)
    /\ UNCHANGED <<pairingFiles, coordinator, execFiles, past, history>>

(* RegisterExecutorKey() reaches a coordinator that takes the key: a first *)
(* one, or another one, changes the published program at once.             *)
StoresTheKey ==
    /\ Authenticated
    /\ coordinator' = [coordinator EXCEPT !.registered = TRUE,
           !.published = IF @ = NoCopy THEN @ ELSE [@ EXCEPT !.enrolls = TRUE]]

(* Every answer but a 409 starts the backoff. *)
Register ==
    /\ exec.at \in {"register", "again"}
    /\ \/ /\ StoresTheKey
          /\ exec' = AfterRegistration(
                 [Asked EXCEPT !.registered = TRUE, !.backoff = TRUE,
                               !.fetchDue = @ \/ ~coordinator.registered])
          /\ UNCHANGED left
       \/ /\ ~Authenticated
          /\ exec' = AfterRegistration([Asked EXCEPT !.registered = FALSE, !.backoff = TRUE])
          /\ UNCHANGED <<coordinator, left>>
       \/ /\ Spend("faults")
          /\ \E backoff \in BOOLEAN :
                 exec' = AfterRegistration([Asked EXCEPT !.registered = FALSE, !.backoff = backoff])
          /\ UNCHANGED coordinator
    /\ UNCHANGED <<pairingFiles, execFiles, past, history>>
-----------------------------------------------------------------------------
(* Plausible bug: a signature is all that is asked of a program. *)
VerdictOnTheSignature(copy) ==
    IF copy.signer # exec.pinned THEN "signature-invalid"
    ELSE IF IsOver(copy) THEN "mismatched-program"
    ELSE "verified"

(* FetchAndInstallFallbackProgram() up to the verdict on a published copy. *)
Verdict(copy) ==
    IF copy.signer # exec.pinned THEN "signature-invalid"
    ELSE IF ~copy.ours \/ IsOver(copy) THEN "mismatched-program"
    ELSE "verified"

(* The held copy counts as installed only while it verifies. *)
Unchanged(copy) ==
    held # NoCopy /\ held.signer = exec.pinned /\ Same(held, copy)

(* acknowledge() sends nothing the coordinator has refused for this copy. *)
Refused(e, post) == e.owed.present /\ e.owed.refused /\ SamePost(e.owed.post, post)

(* The end of fetchAndInstall() and of what called it.  At a hand-back     *)
(* that found nothing published, the copy still held is acknowledged       *)
(* unless it had expired when the tick began.                              *)
Finish(e, copy) ==
    IF e.atHandBack THEN Rest([e EXCEPT !.handBackDue = @ /\ ~e.reached])
    ELSE IF RegistrationDoubted(e, copy) THEN [e EXCEPT !.at = "again", !.post = NoPost]
    ELSE Rest(e)

AfterPost(e, copy) ==
    LET post == [copy |-> copy, verdict |-> "verified", remember |-> FALSE]
    IN  IF /\ e.atHandBack /\ e.reached /\ ~e.published
           /\ copy # NoCopy /\ ~e.heldOver
           /\ ~Refused(e, post)
        THEN [e EXCEPT !.at = "holdingPost", !.post = post]
        ELSE Finish(e, copy)

(* fetchAndInstall() after the fetch: one acknowledgement per verdict, and *)
(* at a hand-back for the copy held whether or not it changed.             *)
AfterVerdict(e, copy, verdict, installed, unchanged) ==
    LET post == [copy |-> copy, verdict |-> verdict, remember |-> TRUE]
        e1 == [e EXCEPT !.published = installed \/ unchanged,
                        !.owed.refused = @ /\ ~installed,
                        !.backoff = @ /\ ~installed,
                        !.post = post]
        wanted == IF unchanged THEN e.atHandBack
                  ELSE installed \/ ~SamePost(post, e.acknowledged)
    IN  IF wanted /\ ~Refused(e1, post)
        THEN [e1 EXCEPT !.at = "post"]
        ELSE AfterPost(e1, IF installed THEN copy ELSE held)

Fetch ==
    /\ At("fetch")
    /\ LET copy == coordinator.published
           begun == [Asked EXCEPT !.fetchDue = FALSE, !.reached = TRUE]
       IN  \/ /\ exec.pinned = None
              /\ exec' = Finish([exec EXCEPT !.fetchDue = FALSE, !.reached = TRUE], held)
              /\ UNCHANGED left
           \/ /\ exec.pinned # None
              /\ IF Token = None THEN UNCHANGED left ELSE Spend("faults")
              /\ exec' = Finish([begun EXCEPT !.reached = FALSE], held)
           \/ /\ exec.pinned # None
              /\ Token # None
              /\ exec' =
                    IF ~Authenticated \/ copy = NoCopy THEN AfterPost(begun, held)
                    ELSE IF Verdict(copy) # "verified"
                    THEN AfterVerdict(begun, copy, Verdict(copy), FALSE, FALSE)
                    ELSE IF Unchanged(copy)
                    THEN AfterVerdict(begun, copy, "verified", FALSE, TRUE)
                    ELSE [begun EXCEPT !.at = "install", !.post.copy = copy]
              /\ UNCHANGED left
    /\ UNCHANGED <<pairingFiles, coordinator, execFiles, past, history>>

(* InstallFallbackProgram() replaces the whole file ... *)
Replaces(copy) == held' = copy

(* ... or nothing of it, and that is reported as a refusal. *)
Install ==
    /\ At("install")
    /\ LET copy == exec.post.copy
       IN  \/ /\ Replaces(copy)
              /\ exec' = AfterVerdict(exec, copy, "verified", TRUE, FALSE)
              /\ history' = [history EXCEPT !.held = @ \union {copy}]
              /\ UNCHANGED left
           \/ /\ Spend("faults")
              /\ exec' = AfterVerdict(exec, copy, "signature-invalid", FALSE, FALSE)
              /\ UNCHANGED <<held, history>>
    /\ UNCHANGED <<pairingFiles, coordinator, keyFile, past>>

(* What got no success answer stays owed. *)
Owing(refused) ==
    [Asked EXCEPT !.owed = [present |-> TRUE, refused |-> refused, post |-> exec.post]]

(* AcknowledgeFallbackProgram(), and what was to be done after it. *)
Acknowledge ==
    /\ exec.at \in {"retry", "post", "holdingPost"}
    /\ LET told == [history EXCEPT !.told =
                       [copy |-> exec.post.copy, verdict |-> exec.post.verdict]]
           then(e) == CASE e.at = "retry" -> KeepCurrent(e)
                        [] e.at = "post" -> AfterPost(e, held)
                        [] e.at = "holdingPost" -> Finish(e, held)
       IN  \/ /\ Authenticated
              /\ exec' = then([Asked EXCEPT !.owed = NothingOwed,
                              !.acknowledged = IF exec.post.remember THEN exec.post ELSE @])
              /\ history' = told
              /\ UNCHANGED left
           \/ /\ ~Authenticated
              /\ exec' = then(Owing(Token # None))
              /\ UNCHANGED <<history, left>>
           \/ /\ Spend("faults")
              /\ exec' = then(Owing(FALSE))
              /\ history' \in {history, IF Authenticated THEN told ELSE history}
    /\ UNCHANGED <<pairingFiles, coordinator, execFiles, past>>
-----------------------------------------------------------------------------
(* Both threads begin anew. *)
ProcessRestarts ==
    /\ Restart
    /\ exec' = FreshExec
    /\ UNCHANGED <<execFiles, past, history>>

PairingThread ==
    /\ PairingStep
    /\ history' = [history EXCEPT !.given = @ \union ({trustFile'} \ {trustFile})]
    /\ UNCHANGED <<execFiles, exec, past>>

Operator ==
    /\ Request \/ Invite
    /\ UNCHANGED <<execFiles, exec, past, history>>

Executor ==
    \/ ReadCredential \/ ReadKeys \/ Probe \/ Register \/ Fetch \/ Install
    \/ Acknowledge

Environment == Publish \/ CoordinatorForgets \/ Expires \/ HandBack

Next ==
    \/ Operator \/ PairingThread \/ Executor \/ ProcessRestarts
    \/ RefetchTimer \/ BackoffTimer \/ Environment

Spec == Init /\ [][Next]_vars

(* Both threads loop until the plugin unloads and then begin anew, and a   *)
(* timer that is over again and again between ticks is seen by one.  What  *)
(* operators do and what fails is bounded and not fair.                    *)
Fairness ==
    /\ WF_vars(PairingThread)
    /\ WF_vars(Executor)
    /\ SF_vars(RefetchTimer)
    /\ SF_vars(BackoffTimer)

FairSpec == Spec /\ Fairness
-----------------------------------------------------------------------------
Stages == {"rest", "keys", "probe", "retry", "register", "fetch", "install",
           "post", "holdingPost", "again"}

Posts == [copy : Copy \union {NoCopy}, verdict : Verdicts, remember : BOOLEAN]

TypeOK ==
    /\ request \in BOOLEAN
    /\ {codeFile, credential, trustFile} \subseteq Numbers
    /\ {statusFile, wait.status} \subseteq [state : States, principal : Numbers]
    /\ wait.at \in Points
    /\ {wait.secret, wait.key} \subseteq Numbers
    /\ coordinator \in [key : Nat, token : Numbers, invited : Numbers,
                        registered : BOOLEAN, published : Copy \union {NoCopy}]
    /\ left \in [Bounded -> Nat]
    /\ keyFile \in BOOLEAN
    /\ held \in Copy \union {NoCopy}
    /\ exec \in [at : Stages, hash : Numbers, token : Numbers, pinned : Numbers,
                 registered : BOOLEAN, attemptDue : BOOLEAN,
                 backoff : BOOLEAN, fetchDue : BOOLEAN, handBackDue : BOOLEAN,
                 atHandBack : BOOLEAN, heldOver : BOOLEAN, published : BOOLEAN,
                 reached : BOOLEAN, post : Posts, acknowledged : Posts,
                 owed : [present : BOOLEAN, refused : BOOLEAN, post : Posts]]
    /\ past \subseteq Serials
    /\ history \in [given : SUBSET Nat, held : SUBSET Copy,
                    told : [copy : Copy \union {NoCopy}, verdict : Verdicts \union {"none"}]]

(* The player keeps the promise of HeldCopy: what lies at installPath is   *)
(* always a copy signed, for this player, by a coordinator key that a      *)
(* pairing delivered, and "verified" is only ever said of a copy that lay  *)
(* there (fallback_program_fetch.h, fallback_executor.h:1012-1120).        *)
Promise == INSTANCE HeldCopy WITH
    given <- history.given, everHeld <- history.held, told <- history.told

KeepsThePromise == Promise!Spec

(* A player whose pairing the coordinator honours ends up holding the copy *)
(* published for it, signed by that coordinator and carrying the player's  *)
(* own key, whatever was lost, failed, forgotten or restarted before       *)
(* (keepCurrent(), fallback_executor.h:914-940).                           *)
Honoured ==
    /\ credential # None
    /\ credential = coordinator.token
    /\ trustFile = coordinator.key
    /\ coordinator.published # NoCopy
    /\ coordinator.published.ours
    /\ ~IsOver(coordinator.published)

HoldsThePublished == held # NoCopy /\ held = coordinator.published /\ held.enrolls

EndsUpEnrolled == <>[]Honoured => <>[]HoldsThePublished

(* README.md:480-484: an acknowledgement that gets no answer stays owed    *)
(* and is tried again until the coordinator has recorded it or refuses it  *)
(* (retryOwedAcknowledgement(), fallback_executor.h:1122-1126).            *)
Unsettled == exec.owed.present /\ ~exec.owed.refused

OwedIsSettled == Unsettled ~> ~Unsettled
=============================================================================
