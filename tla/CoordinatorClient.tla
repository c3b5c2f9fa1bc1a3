--------------------------- MODULE CoordinatorClient ---------------------------
(***************************************************************************)
(* The plugin's HTTP client (native/src/coordinator_client.cpp): the posts *)
(* of definitions and observations with their retries, the hashes it       *)
(* remembers as held or refused, and the two notices it shows in FPP.      *)
(*                                                                         *)
(* A step is one attempt of a post, one hold of the client's lock, or the  *)
(* end of an observation, whose status write and notices are the worker's  *)
(* own.  A definition is its hash; the coordinator's store of a definition *)
(* is what an attempt reaches even when its answer is lost.  Counters, the *)
(* credential (a missing one ends a post like a refusal) and payload       *)
(* bounds are left out; a stop requested during a post is a restart.       *)
(***************************************************************************)
EXTENDS Naturals, FiniteSets

CONSTANTS
    NoUrl, Urls,       \* coordinators, by the address config.json gives
    Hashes,            \* what playlists may contain
    NoText, Texts,     \* what notices say
    MaxAttempts,       \* RetryPolicy::maxAttempts
    Budget             \* bounds, by name

Bounded == {"events", "requests", "failures", "changes", "ends"}

ASSUME ClientAssumption ==
    /\ NoUrl \notin Urls /\ NoText \notin Texts
    /\ MaxAttempts \in Nat \ {0}
    /\ Budget \in [Bounded -> Nat]

VARIABLES
    client,            \* baseUrl_, the two sets, the texts it last raised
    post,              \* the post under way
    centre,            \* FPP's notices
    statusFile,        \* the refusal in the status file
    store,             \* the definitions each coordinator has
    left               \* what is left of Budget

clientVars == <<client, post, centre, statusFile, store, left>>

Spend(what) ==
    /\ left[what] > 0
    /\ left' = [left EXCEPT ![what] = @ - 1]

NoPost == [kind |-> "none", hash |-> {}, attempts |-> 0, outcome |-> "none"]

Posting(kind, hashes) == [kind |-> kind, hash |-> hashes, attempts |-> 0, outcome |-> "none"]

Notice(kind, text) == IF text = NoText THEN {} ELSE {<<kind, text>>}

(* A fresh client reads the status file and raises the refusal it tells. *)
FreshClient(url) ==
    [url |-> url, held |-> {}, refused |-> {}, reason |-> statusFile,
     raised |-> statusFile, mismatch |-> NoText, aged |-> FALSE]

ClientInit(url) ==
    /\ statusFile = NoText
    /\ client = FreshClient(url)
    /\ post = NoPost
    /\ centre = {}
    /\ store = [u \in Urls |-> {}]
    /\ left = Budget

(* FPP's notices are those of the process that raised them. *)
ClientRestarts(url) ==
    /\ client' = FreshClient(url)
    /\ post' = NoPost
    /\ centre' = Notice("refused", statusFile)
    /\ UNCHANGED <<statusFile, store>>
-----------------------------------------------------------------------------
(* Plausible bug: a playlist is held, not a definition of it. *)
KnownByPlaylist(hash) == client.held # {} \/ hash \in client.refused

(* publishDefinition() before its post. *)
Known(hash) == hash \in client.held \union client.refused

InFlight == post.kind # "none" /\ post.outcome = "none"

Concludes(outcome) == post' = [post EXCEPT !.outcome = outcome]

(* Of the refusals only these raise a notice on an observation. *)
RefusesReports == {"conflict", "unreachable"}

Reaches == store' = [store EXCEPT ![client.url] = @ \union post.hash]

(* postWithRetry(): without an address nothing is sent. *)
NotConfigured ==
    /\ InFlight
    /\ client.url = NoUrl
    /\ Concludes("not-configured")
    /\ UNCHANGED <<client, centre, statusFile, store, left>>

Accepted ==
    /\ InFlight
    /\ client.url # NoUrl
    /\ IF post.kind = "definition" THEN Reaches ELSE UNCHANGED store
    /\ Concludes("accepted")
    /\ UNCHANGED <<client, centre, statusFile, left>>

(* The coordinator answers that it will not take these bytes. *)
Rejected ==
    /\ InFlight
    /\ client.url # NoUrl
    /\ Spend("failures")
    /\ \E outcome \in {"schema-refused", "conflict"} : Concludes(outcome)
    /\ UNCHANGED <<client, centre, statusFile, store>>

(* No answer, or one that promises nothing: attempted again, up to a bound.*)
(* The coordinator may have taken the post.                                *)
Unanswered ==
    /\ InFlight
    /\ client.url # NoUrl
    /\ Spend("failures")
    /\ IF post.kind = "definition" THEN Reaches \/ UNCHANGED store ELSE UNCHANGED store
    /\ post' = [post EXCEPT !.attempts = @ + 1,
                            !.outcome = IF post.attempts + 1 < MaxAttempts THEN @ ELSE "unreachable"]
    /\ UNCHANGED <<client, centre, statusFile>>

Attempt == NotConfigured \/ Accepted \/ Rejected \/ Unanswered

(* publishStatus(): a write that fails is not noticed. *)
PublishStatus(reason) ==
    \/ statusFile' = reason /\ UNCHANGED left
    \/ Spend("failures") /\ UNCHANGED statusFile

(* The second hold of the lock in publishDefinition(). *)
DefinitionEnds ==
    /\ post.kind = "definition"
    /\ ~InFlight
    /\ client' = [client EXCEPT
           !.held = IF post.outcome = "accepted" THEN @ \union post.hash ELSE @,
           !.refused = IF post.outcome = "schema-refused" THEN @ \union post.hash ELSE @]
    /\ post' = NoPost
    /\ PublishStatus(client.reason)
    /\ UNCHANGED <<centre, store>>

(* Plausible bug: a notice that is replaced is not taken down. *)
Added(notices, kind, old, new) == notices \union Notice(kind, new)

(* raiseMismatchNotice() and the like: FPP removes a notice by its text. *)
Replaced(notices, kind, old, new) == (notices \ Notice(kind, old)) \union Notice(kind, new)

(* applyMismatchVerdict(): the receipt says that FPP plays something else, *)
(* that it is resolved, or nothing.                                        *)
Verdicts == Texts \union {NoText, "unknown"}

AfterVerdict(verdict) == IF verdict = "unknown" THEN client.mismatch ELSE verdict

(* checkMismatchAgeOut() *)
AfterFailure == IF client.aged THEN NoText ELSE client.mismatch

(* sendObservation() after its post. *)
Told(reason, mismatch, aged) ==
    /\ client' = [client EXCEPT !.reason = reason, !.raised = reason,
                                !.mismatch = mismatch, !.aged = aged]
    /\ centre' = Replaced(Replaced(centre, "refused", client.raised, reason),
                          "mismatch", client.mismatch, mismatch)
    /\ PublishStatus(reason)

ObservationEnds ==
    /\ post.kind = "observation"
    /\ ~InFlight
    /\ IF post.outcome = "accepted"
       THEN \E verdict \in Verdicts : Told(NoText, AfterVerdict(verdict), FALSE)
       ELSE \E text \in IF post.outcome \in RefusesReports THEN Texts ELSE {client.reason} :
                Told(text, AfterFailure, client.aged /\ AfterFailure # NoText)
    /\ post' = NoPost
    /\ UNCHANGED store

(* The time after which a verdict is too old passes without one. *)
VerdictAges ==
    /\ client.mismatch # NoText
    /\ ~client.aged
    /\ Spend("failures")
    /\ client' = [client EXCEPT !.aged = TRUE]
    /\ UNCHANGED <<post, centre, statusFile, store>>

(* clearHeldDefinitions(): the refused set survives. *)
ClearsHeld == client' = [client EXCEPT !.held = {}]

(* Plausible bug: setUnconfigured() only says so in the status. *)
SetsUrlGiven(url) ==
    /\ client' = [client EXCEPT !.url = IF url = NoUrl THEN @ ELSE url]
    /\ statusFile' \in {statusFile, client.reason}

(* setBaseUrl() and setUnconfigured(): the status is written if it says    *)
(* something new, and it may.                                              *)
SetsUrl(url) ==
    /\ client' = [client EXCEPT !.url = url]
    /\ statusFile' \in {statusFile, client.reason}
-----------------------------------------------------------------------------
(* What FPP shows the operator is one notice of each kind at most, with    *)
(* the text the client believes it raised, and the refusal it shows is the *)
(* one its status reports, whatever was raised, replaced, aged out or      *)
(* restored by a restart (coordinator_client.cpp:243-268, 395-449).        *)
NoticesAreTrue ==
    /\ centre = Notice("refused", client.raised) \union Notice("mismatch", client.mismatch)
    /\ client.raised = client.reason
=============================================================================
