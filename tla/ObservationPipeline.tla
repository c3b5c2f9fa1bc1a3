------------------------- MODULE ObservationPipeline -------------------------
(***************************************************************************)
(* From FPP's playlist callback to the coordinator: the callback thread    *)
(* offers evidence to the handoff, the resident worker takes it, mints a   *)
(* sequence number, makes that number durable and posts the observation    *)
(* (native/src/runtime.cpp, drainOnce and the code around it).             *)
(*                                                                         *)
(* Actors: FPP's callback thread, the worker, the thread that calls stop() *)
(* and the host, which can end the process between any two steps.  The     *)
(* volatile half of the state is lost then; primary and backup survive.    *)
(*                                                                         *)
(* An entry stands for a playlist entry identity; NoEntry is a callback    *)
(* with an empty playlist name.  Whether an identity resolves (definition  *)
(* present, name not truncated) is the environment's choice at each drain. *)
(***************************************************************************)
EXTENDS CallbackHandoff, SequenceFileStore

CONSTANTS
    Entries,           \* playlist entry identities
    NoEntry,           \* an empty playlist name
    Callbacks,         \* the <<action, entry>> pairs FPP reports
    MaxOffers,         \* bound: callbacks in one process life
    MaxCrashes,        \* bound: crashes and stops together
    MaxFailures,       \* bound: writes of the sequence file that fail
    MaxCorruptions     \* bound: files that stop validating

Actions == {"start", "playing", "query_next", "stop"}

ASSUME CallbackAssumption ==
    /\ NoEntry \notin Entries
    /\ Callbacks \subseteq Actions \X (Entries \union {NoEntry})

ASSUME BoundAssumption ==
    /\ MaxOffers \in Nat
    /\ MaxCrashes \in Nat
    /\ MaxFailures \in Nat
    /\ MaxCorruptions \in Nat

VARIABLES
    pc,                \* where the worker is; "down" when there is no process
    stopRequested,     \* running_ is false
    sequence,          \* SequenceState: the last number minted
    unacknowledged,    \* unacknowledgedCoalesced_
    lastPlaying,       \* the entry of lastPlaying_, NoEntry when it is empty
    playlistEnded,     \* playlistEnded_
    observation        \* the observation the worker is delivering

workerVars == <<pc, stopRequested, sequence, unacknowledged, lastPlaying,
                playlistEnded, observation>>

(* History variables: what has happened, read by properties alone. *)
VARIABLES
    lastTaken,         \* n of the observation taken last in this process
    dropped,           \* observations dropped from the queue in this process
    acknowledged,      \* gap counts in observations acknowledged in this process
    endOwed,           \* a playlist was named and no end minted since
    posted,            \* the highest number ever put on the wire
    floor,             \* the number the last completed store() recorded
    crashes, failures, corruptions

lifeVars == <<lastTaken, dropped, acknowledged, endOwed>>
faultVars == <<crashes, failures, corruptions>>
vars == <<handoffVars, fileVars, workerVars, lifeVars, posted, floor, faultVars>>

NoObservation == [number |-> 0, action |-> "start", entry |-> NoEntry, gap |-> 0]

Up == pc # "down"
-----------------------------------------------------------------------------
(* Memory of a process that has just been constructed.                     *)
Resumed == Load

Init ==
    /\ HandoffInit
    /\ FilesInit
    /\ pc = "idle"
    /\ stopRequested = FALSE
    /\ sequence = 0
    /\ unacknowledged = 0
    /\ lastPlaying = NoEntry
    /\ playlistEnded = FALSE
    /\ observation = NoObservation
    /\ lastTaken = 0
    /\ dropped = 0
    /\ acknowledged = 0
    /\ endOwed = FALSE
    /\ posted = 0
    /\ floor = 0
    /\ crashes = 0
    /\ failures = 0
    /\ corruptions = 0

(* observeCallback() on FPP's thread. *)
ObserveCallback ==
    /\ Up
    /\ offered < MaxOffers
    /\ \E callback \in Callbacks :
          Offer([n |-> offered + 1, action |-> callback[1], entry |-> callback[2]])
    /\ dropped' = IF Full THEN dropped + 1 ELSE dropped
    /\ UNCHANGED <<fileVars, workerVars, lastTaken, acknowledged, endOwed, posted, floor, faultVars>>
-----------------------------------------------------------------------------
(* One drainOnce.  The worker is the only thread that takes, so what it    *)
(* reads at the head of the queue is what take() hands it.                 *)

Named(evidence) == evidence.entry # NoEntry

RunEnded(evidence) == ~Named(evidence) \/ evidence.action = "stop"

Announces(evidence) == Named(evidence) /\ evidence.action \in {"start", "playing"}

TakeNext ==
    /\ pc = "idle"
    /\ ~stopRequested
    /\ Take
    /\ lastTaken' = Head(slots).n
    /\ UNCHANGED <<fileVars, stopRequested, dropped, acknowledged, posted, floor, faultVars>>

(* Plausible bug: the count returned by take() replaces the one carried forward. *)
CarriedGapOverwritten == coalesced

CarriedGap == unacknowledged + coalesced

(* Plausible bug: any repeated end is dropped, whatever came before it. *)
EndAlreadyReportedTooEagerly(evidence) ==
    RunEnded(evidence) /\ lastPlaying = NoEntry

EndAlreadyReported(evidence) ==
    RunEnded(evidence) /\ playlistEnded /\ lastPlaying = NoEntry

(* A repeated end of a run that was reported is not reported again. *)
DropRepeatedEnd ==
    /\ TakeNext
    /\ EndAlreadyReported(Head(slots))
    /\ unacknowledged' = CarriedGap
    /\ UNCHANGED <<pc, sequence, lastPlaying, playlistEnded, observation, endOwed>>

(* Every other observation is numbered first and made durable next. *)
Mint(action, entry) ==
    /\ sequence' = sequence + 1
    /\ unacknowledged' = CarriedGap
    /\ observation' = [number |-> sequence + 1, action |-> action, entry |-> entry,
                       gap |-> CarriedGap]
    /\ pc' = "rotate"

(* The end of a run, reported as a stop on the entry that was playing. *)
DrainRunEnd ==
    /\ TakeNext
    /\ RunEnded(Head(slots))
    /\ lastPlaying # NoEntry
    /\ Mint("stop", lastPlaying)
    /\ lastPlaying' = NoEntry
    /\ playlistEnded' = TRUE
    /\ endOwed' = FALSE

Reopen(evidence) == playlistEnded /\ ~Named(evidence)

(* Any other evidence: identified (resolved) or reported as unavailable,   *)
(* which the observation shows as NoEntry.                                 *)
DrainEvidence(identified) ==
    LET evidence == Head(slots) IN
    /\ TakeNext
    /\ ~EndAlreadyReported(evidence)
    /\ ~(RunEnded(evidence) /\ lastPlaying # NoEntry)
    /\ identified => Named(evidence)
    /\ Mint(evidence.action, IF identified THEN evidence.entry ELSE NoEntry)
    /\ playlistEnded' = Reopen(evidence)
    /\ lastPlaying' = IF identified /\ Announces(evidence) THEN evidence.entry ELSE lastPlaying
    /\ endOwed' = IF RunEnded(evidence) THEN FALSE ELSE TRUE
-----------------------------------------------------------------------------
(* sequenceStore_->store(number): refused below the stored height, else a  *)
(* rotation and a write.  A false result is counted and the observation is *)
(* posted anyway.  MemoryNotBehindDisk says that the refusal never happens *)
(* here, so it is not an action of its own.                                *)

AfterStore == IF pc = "flush_write" THEN "down" ELSE "post"

RotateFiles ==
    /\ pc \in {"rotate", "flush_rotate"}
    /\ sequence >= Load
    /\ pc' = IF pc = "rotate" THEN "write" ELSE "flush_write"
    /\ \/ /\ Rotate
          /\ UNCHANGED failures
       \/ /\ RotationFails
          /\ failures < MaxFailures
          /\ failures' = failures + 1
    /\ UNCHANGED <<handoffVars, stopRequested, sequence, unacknowledged, lastPlaying,
                   playlistEnded, observation, lifeVars, posted, floor, crashes, corruptions>>

WriteCompletes ==
    /\ pc \in {"write", "flush_write"}
    /\ WritePrimary(sequence)
    /\ floor' = sequence
    /\ pc' = AfterStore
    /\ UNCHANGED <<handoffVars, stopRequested, sequence, unacknowledged, lastPlaying,
                   playlistEnded, observation, lifeVars, posted, faultVars>>

(* The temporary file cannot be created, written, synced or renamed. *)
WriteFails ==
    /\ pc \in {"write", "flush_write"}
    /\ failures < MaxFailures
    /\ failures' = failures + 1
    /\ pc' = AfterStore
    /\ UNCHANGED <<handoffVars, fileVars, stopRequested, sequence, unacknowledged, lastPlaying,
                   playlistEnded, observation, lifeVars, posted, floor, crashes, corruptions>>
-----------------------------------------------------------------------------
(* The post.  publish() and publishUnavailable() differ in the body alone. *)

PostEnds ==
    /\ pc = "post"
    /\ pc' = "idle"
    /\ observation' = NoObservation
    /\ UNCHANGED <<handoffVars, fileVars, stopRequested, sequence, lastPlaying, playlistEnded,
                   lastTaken, dropped, endOwed, floor, faultVars>>

OnTheWire == posted' = IF observation.number > posted THEN observation.number ELSE posted

PostAccepted ==
    /\ PostEnds
    /\ OnTheWire
    /\ unacknowledged' = 0
    /\ acknowledged' = acknowledged + observation.gap

GapAfterRefusal == unacknowledged

(* Plausible bug: a post that was not accepted is made again, without bound. *)
PostRepeatedForever ==
    /\ pc = "post"
    /\ pc' = "rotate"
    /\ OnTheWire
    /\ UNCHANGED <<handoffVars, fileVars, stopRequested, sequence, unacknowledged, lastPlaying,
                   playlistEnded, observation, lifeVars, floor, faultVars>>

(* Refused, unanswered, or accepted by a coordinator whose answer was lost *)
(* after the last retry: the client reports all three as not accepted.     *)
PostNotAccepted ==
    /\ PostEnds
    /\ OnTheWire
    /\ unacknowledged' = GapAfterRefusal
    /\ UNCHANGED acknowledged

(* The fallback executor holds posts back, or stop() came before the first attempt. *)
PostSkipped ==
    /\ PostEnds
    /\ unacknowledged' = GapAfterRefusal
    /\ UNCHANGED <<acknowledged, posted>>
-----------------------------------------------------------------------------
(* Plausible bug: teardown ends with the join. *)
WorkerJoinedWithoutFlush ==
    /\ pc = "idle"
    /\ stopRequested
    /\ pc' = "down"
    /\ UNCHANGED <<handoffVars, fileVars, stopRequested, sequence, unacknowledged, lastPlaying,
                   playlistEnded, observation, lifeVars, posted, floor, faultVars>>

(* stop() clears running_, joins the worker once it has finished the drain *)
(* it is in, and the adapter then calls flushSequenceState().              *)
StopRequested ==
    /\ Up
    /\ ~stopRequested
    /\ crashes < MaxCrashes
    /\ stopRequested' = TRUE
    /\ crashes' = crashes + 1
    /\ UNCHANGED <<handoffVars, fileVars, pc, sequence, unacknowledged, lastPlaying,
                   playlistEnded, observation, lifeVars, posted, floor, failures, corruptions>>

WorkerJoined ==
    /\ pc = "idle"
    /\ stopRequested
    /\ pc' = "flush_rotate"
    /\ UNCHANGED <<handoffVars, fileVars, stopRequested, sequence, unacknowledged, lastPlaying,
                   playlistEnded, observation, lifeVars, posted, floor, faultVars>>

Crash ==
    /\ Up
    /\ crashes < MaxCrashes
    /\ pc' = "down"
    /\ stopRequested' = FALSE
    /\ crashes' = crashes + 1
    /\ UNCHANGED <<handoffVars, fileVars, sequence, unacknowledged, lastPlaying,
                   playlistEnded, observation, lifeVars, posted, floor, failures, corruptions>>

(* The constructor of the next process. *)
Restart ==
    /\ pc = "down"
    /\ HandoffReset
    /\ pc' = "idle"
    /\ stopRequested' = FALSE
    /\ sequence' = Resumed
    /\ unacknowledged' = 0
    /\ lastPlaying' = NoEntry
    /\ playlistEnded' = FALSE
    /\ observation' = NoObservation
    /\ lastTaken' = 0
    /\ dropped' = 0
    /\ acknowledged' = 0
    /\ endOwed' = FALSE
    /\ UNCHANGED <<fileVars, posted, floor, faultVars>>

Corrupt ==
    /\ corruptions < MaxCorruptions
    /\ CorruptPrimary \/ CorruptBackup
    /\ corruptions' = corruptions + 1
    /\ UNCHANGED <<handoffVars, workerVars, lifeVars, posted, floor, crashes, failures>>
-----------------------------------------------------------------------------
Worker ==
    \/ DropRepeatedEnd
    \/ DrainRunEnd
    \/ \E identified \in BOOLEAN : DrainEvidence(identified)
    \/ RotateFiles
    \/ WriteCompletes
    \/ WriteFails
    \/ PostAccepted
    \/ PostNotAccepted
    \/ PostSkipped
    \/ WorkerJoined

Next ==
    \/ ObserveCallback
    \/ Worker
    \/ StopRequested
    \/ Crash
    \/ Restart
    \/ Corrupt

Spec == Init /\ [][Next]_vars

(* The worker thread is scheduled, each file operation returns and a post  *)
(* ends within its retry budget of five attempts with bounded timeouts.    *)
FairSpec == Spec /\ WF_vars(Worker)
-----------------------------------------------------------------------------
WorkerStates == {"down", "idle", "rotate", "write", "post", "flush_rotate", "flush_write"}

Evidence == [n : Nat \ {0}, action : Actions, entry : Entries \union {NoEntry}]

(* Every variable holds a value of its kind, and the queue fits its ring. *)
TypeOK ==
    /\ slots \in Seq(Evidence)
    /\ Len(slots) <= Capacity
    /\ coalesced \in Nat
    /\ offered \in Nat
    /\ primary \in File
    /\ backup \in File
    /\ pc \in WorkerStates
    /\ stopRequested \in BOOLEAN
    /\ sequence \in Nat
    /\ unacknowledged \in Nat
    /\ lastPlaying \in Entries \union {NoEntry}
    /\ playlistEnded \in BOOLEAN
    /\ observation \in [number : Nat, action : Actions, entry : Entries \union {NoEntry},
                        gap : Nat]
    /\ lastTaken \in Nat
    /\ dropped \in Nat
    /\ acknowledged \in Nat
    /\ endOwed \in BOOLEAN
    /\ posted \in Nat
    /\ floor \in Nat
    /\ crashes \in Nat
    /\ failures \in Nat
    /\ corruptions \in Nat

(* When the queue overflows it is the oldest evidence that goes: what is   *)
(* pending is always the unbroken run of the newest callbacks              *)
(* (callback_handoff.h:90-98, "so the newest complete state survives").    *)
PendingIsTheNewestRun ==
    \A i \in DOMAIN slots : slots[i].n = offered - Len(slots) + i

(* The count take() returns is exactly the number of callbacks missing     *)
(* immediately before the observation it hands over: a gap is never        *)
(* attributed to another place in the history.                             *)
GapIsBeforeTheHead ==
    slots # <<>> => Head(slots).n = lastTaken + coalesced + 1

(* No dropped callback ever falls out of the accounts of a process: it is  *)
(* counted in the queue, carried by the worker, or was acknowledged by the *)
(* coordinator (callback_handoff.h:119-123).                               *)
GapEvidenceConserved ==
    dropped = coalesced + unacknowledged + acknowledged

(* A restarted plugin never resumes below what a completed store() wrote,  *)
(* wherever in a later store the crash came and whichever writes failed,   *)
(* as long as no file was corrupted (sequence_store.h:29-32).              *)
CompletedStoreSurvives ==
    corruptions = 0 => floor <= Load

(* store() never refuses the runtime's own number, so no observation is    *)
(* numbered behind the file (sequence_store.cpp:113).                      *)
MemoryNotBehindDisk ==
    Up => Load <= sequence

(* One corrupted file cannot rewind a plugin that was stopped cleanly: the *)
(* teardown flush leaves the last number in both files                     *)
(* (README, "one extra, cheap guarantee beyond the per-observation write").*)
CleanStopSurvivesOneCorruption ==
    (pc = "down" /\ stopRequested /\ failures = 0 /\ corruptions <= 1) => floor <= Load

(* While every store() succeeded and the files stayed readable, a number   *)
(* being delivered is above every number that ever left for the            *)
(* coordinator, in this process or an earlier one: the coordinator refuses *)
(* a repeated number for good (README, "Sequence persistence").            *)
NumberBeingDeliveredIsFresh ==
    (failures = 0 /\ corruptions = 0 /\ pc \in {"rotate", "write", "post"})
        => observation.number > posted

(* A callback that ends a run is swallowed only when the end of that run   *)
(* was already reported (runtime.cpp:330-334).                             *)
NoRunEndSwallowed == [][DropRepeatedEnd => ~endOwed]_vars

(* Every callback that reached the queue leaves it, taken or dropped and   *)
(* counted, unless the plugin is being stopped.                            *)
EveryCallbackLeavesTheQueue ==
    \A k \in 1..MaxOffers :
        (\E i \in DOMAIN slots : slots[i].n = k) ~>
            (stopRequested \/ ~Up \/ \A i \in DOMAIN slots : slots[i].n # k)

(* stop() returns: the worker always comes to its join and the flush. *)
StopCompletes == stopRequested ~> pc = "down" \/ ~stopRequested
=============================================================================
