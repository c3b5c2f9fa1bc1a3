--------------------------- MODULE FallbackExecutor ---------------------------
(***************************************************************************)
(* Who starts the cues while the coordinator is lost                       *)
(* (native/adapters/shared/fallback_executor.h): the state that moves      *)
(* between normal, fallback and resting, the file that carries it over a   *)
(* restart, and the two threads that share it.                             *)
(*                                                                         *)
(* Threads: "tick" is the executor's background thread, "worker" the       *)
(* resident worker that calls observeEntryEvent() for each callback it     *)
(* drained.  A step is what one of them does under one hold of mutex_,     *)
(* saveMutex_ or reportMutex_, or one request, so every place where the    *)
(* code lets go of a lock is a place where the other thread may move.      *)
(*                                                                         *)
(* A copy stands for an installed program together with this player's key  *)
(* and the four rules: NoCopy is every kind of unusable program but the    *)
(* expired one.  One node stands for the nodes of an entry, which the code *)
(* serves in parallel and independently.  A pairing token and a            *)
(* coordinator address are taken as present, and playlistLoop, which tells *)
(* apart the passes of a one-entry playlist, is left out: in the model     *)
(* query_next alone does that.                                             *)
(***************************************************************************)
EXTENDS Naturals

CONSTANTS
    Playlists, NoPlaylist,
    Entries, NoEntry,      \* entry keys; NoEntry: the identity did not resolve
    Callbacks,             \* the <<action, playlist, entry>> FPP reports
    Copies, NoCopy,        \* program copies the coordinator publishes, in order
    Preinstalled,          \* the copies that may be installed at the first start
    Expiry,                \* expiresAt of each copy
    Mapped,                \* the entries each copy maps to targets
    NoState,               \* a thread is not saving or reporting
    Confirm,               \* failed probes in a row that confirm a loss
    MaxAttempts,           \* bound: requests to a node for one entry
    MaxClock,              \* bound: the last instant of wall clock time
    Budget                 \* bounds: events, failed probes, failed saves,
                           \* unanswered fetches, crashes and stops

ASSUME CopyAssumption ==
    /\ Copies \subseteq Nat
    /\ NoCopy \notin Copies
    /\ Preinstalled \subseteq Copies \union {NoCopy}
    /\ Expiry \in [Copies -> Nat]
    /\ Mapped \in [Copies -> SUBSET Entries]

ASSUME CallbackAssumption ==
    /\ NoEntry \notin Entries
    /\ NoPlaylist \notin Playlists
    /\ Callbacks \subseteq {"playing", "query_next", "stop"}
           \X (Playlists \union {NoPlaylist}) \X (Entries \union {NoEntry})
    /\ \A callback \in Callbacks : callback[1] # "stop" => callback[2] # NoPlaylist

Bounded == {"events", "probes", "saves", "fetches", "ends"}

ASSUME BoundAssumption ==
    /\ Confirm \in Nat \ {0}
    /\ MaxAttempts \in Nat
    /\ MaxClock \in Nat
    /\ Budget \in [Bounded -> Nat]

VARIABLES
    clock,             \* the wall clock
    installed,         \* the copy at installPath
    disk,              \* fallback-state.json; a normal state has no file
    state,             \* state_
    detector,          \* failed probes in a row, and lastProbeSucceeded_
    owed,              \* what the executor still has to do or to find out
    at,                \* where each thread is; "down" when there is no process
    stopping,          \* stopRequested_
    saving,            \* the state each thread is writing, under saveMutex_
    reporting,         \* the state each thread is sending, under reportMutex_
    tick,              \* the tick's locals
    worker,            \* the worker's locals
    left,              \* what is left of Budget
    history            \* read by properties alone

world == <<clock, installed>>
locks == <<saving, reporting>>
vars == <<world, disk, state, detector, owed, at, stopping, locks, tick, worker, left, history>>

Threads == {"tick", "worker"}

Goto(thread, point) == at' = [at EXCEPT ![thread] = point]

Spend(what) ==
    /\ left[what] > 0
    /\ left' = [left EXCEPT ![what] = @ - 1]

Up == at["tick"] # "down"

Normal == state.mode = "normal"

Lost == detector.failures >= Confirm

(* postsSuspendedLocked() *)
PostsSuspended == ~Normal \/ Lost \/ owed.reportBeforePosts

Over(copy, time) == Expiry[copy] <= time
-----------------------------------------------------------------------------
NoOccurrence == [present |-> FALSE, entry |-> NoEntry, delivered |-> FALSE]

NormalState == [mode |-> "normal", playlist |-> NoPlaylist, copy |-> NoCopy,
                occurrence |-> NoOccurrence]

FreshDetector == [failures |-> 0, reachable |-> FALSE]

(* reportDue_, reportOwedBeforePosts_, handBackFetchDue_,                  *)
(* handBackFetchAtOnce_, forgetBoundary_ and undecided_.                   *)
NothingOwed == [report |-> FALSE, reportBeforePosts |-> FALSE, fetch |-> FALSE,
                fetchAtOnce |-> FALSE, forgetBoundary |-> FALSE, decision |-> FALSE]

Nobody == [thread \in Threads |-> NoState]

IdleTick == [now |-> 0, probed |-> FALSE, fetch |-> "none"]

NoEvent == [action |-> "stop", playlist |-> NoPlaylist, entry |-> NoEntry, at |-> 0]

(* lastBoundary_ and occurrenceFinished_ outlive a callback. *)
NoBoundary == [met |-> FALSE, entry |-> NoEntry, finished |-> FALSE]

IdleWorker(boundary) ==
    [event |-> NoEvent, decision |-> "neither", boundary |-> boundary,
     mode |-> "normal", lost |-> FALSE, match |-> NoCopy, attempts |-> 0]

Init ==
    /\ clock = 0
    /\ installed \in Preinstalled
    /\ disk = NormalState
    /\ state = NormalState
    /\ detector = FreshDetector
    /\ owed = NothingOwed
    /\ at = [thread \in Threads |-> "idle"]
    /\ stopping = FALSE
    /\ saving = Nobody
    /\ reporting = Nobody
    /\ tick = IdleTick
    /\ worker = IdleWorker(NoBoundary)
    /\ left = Budget
    /\ history = [cued |-> NoEntry, unreported |-> FALSE, told |-> "normal"]

(* Time passes, in steps as long as a plan's life. *)
ClockAdvances ==
    /\ clock < MaxClock
    /\ clock' = clock + 1
    /\ UNCHANGED <<installed, disk, state, detector, owed, at, stopping, locks, tick,
                   worker, left, history>>
-----------------------------------------------------------------------------
(* saveCurrentState() and sendStateReport(), by whichever thread comes to  *)
(* them: the lock, the state as it is then, and the write or the request.  *)

SavePoints == {"rest_save", "hand_save", "hand_save_report", "resume_save", "prepare_save",
               "finish_save"}

ReportPoints == {"report", "hand_report"}

After(thread) ==
    CASE at[thread] = "rest_save" -> IF thread = "tick" THEN "settle" ELSE "decide"
      [] at[thread] = "hand_save_report" -> "hand_report"
      [] at[thread] \in {"hand_save", "hand_report"} ->
             IF thread = "tick" THEN "gather" ELSE "forget"
      [] at[thread] = "resume_save" -> "act"
      [] at[thread] = "prepare_save" -> "deliver"
      [] at[thread] = "finish_save" -> "verdict"
      [] at[thread] = "report" -> "clear"

(* Plausible bug: the lock is not taken. *)
NotLocked(holders) == TRUE

Free(holders) == holders = Nobody

SaveBegins(thread) ==
    /\ at[thread] \in SavePoints
    /\ saving[thread] = NoState
    /\ Free(saving)
    /\ saving' = [saving EXCEPT ![thread] = state]
    /\ UNCHANGED <<world, disk, state, detector, owed, at, stopping, reporting, tick, worker,
                   left, history>>

SaveEnds(thread) ==
    /\ at[thread] \in SavePoints
    /\ saving[thread] # NoState
    /\ saving' = [saving EXCEPT ![thread] = NoState]
    /\ Goto(thread, After(thread))
    /\ UNCHANGED <<world, state, detector, owed, stopping, reporting, tick, worker, history>>

(* The rename shows the whole record; for a normal state the file is removed. *)
SaveWrites(thread) ==
    /\ SaveEnds(thread)
    /\ disk' = saving[thread]
    /\ UNCHANGED left

(* Only logged.  A removal is not checked for failure. *)
SaveFails(thread) ==
    /\ SaveEnds(thread)
    /\ saving[thread].mode # "normal"
    /\ Spend("saves")
    /\ UNCHANGED disk

ReportBegins(thread) ==
    /\ at[thread] \in ReportPoints
    /\ reporting[thread] = NoState
    /\ Free(reporting)
    /\ reporting' = [reporting EXCEPT ![thread] = state]
    /\ owed' = [owed EXCEPT !.report = FALSE]
    /\ UNCHANGED <<world, disk, state, detector, at, stopping, saving, tick, worker, left,
                   history>>

(* No answer changes anything. *)
ReportSent(thread) ==
    /\ at[thread] \in ReportPoints
    /\ reporting[thread] # NoState
    /\ reporting' = [reporting EXCEPT ![thread] = NoState]
    /\ history' = [history EXCEPT !.told = reporting[thread].mode, !.unreported = FALSE]
    /\ Goto(thread, After(thread))
    /\ UNCHANGED <<world, disk, state, detector, owed, stopping, saving, tick, worker, left>>
-----------------------------------------------------------------------------
(* The cutoff and the hand-back, which either thread may carry out. *)

TimeOf(thread) == IF thread = "tick" THEN tick.now ELSE worker.event.at

ReachesCutoff(thread) == state.mode = "fallback" /\ Over(state.copy, TimeOf(thread))

(* The time is used here alone, so the tick does not keep it. *)
TimeUsed(thread) == tick' = IF thread = "tick" THEN [tick EXCEPT !.now = 0] ELSE tick

EnterRestingAtCutoff(thread) ==
    /\ at[thread] = "cutoff"
    /\ ReachesCutoff(thread)
    /\ TimeUsed(thread)
    /\ state' = [state EXCEPT !.mode = "resting"]
    /\ owed' = [owed EXCEPT !.report = TRUE]
    /\ Goto(thread, "rest_save")
    /\ UNCHANGED <<world, disk, detector, stopping, locks, worker, left, history>>

Passes(thread, from, to) ==
    /\ at[thread] = from
    /\ Goto(thread, to)
    /\ UNCHANGED <<world, disk, state, detector, owed, stopping, locks, tick, worker, left,
                   history>>

CutoffNotReached(thread) ==
    /\ at[thread] = "cutoff"
    /\ ~ReachesCutoff(thread)
    /\ TimeUsed(thread)
    /\ Goto(thread, IF thread = "tick" THEN "settle" ELSE "decide")
    /\ UNCHANGED <<world, disk, state, detector, owed, stopping, locks, worker, left, history>>

(* Plausible bug: the report is left to the next change. *)
OwedWithoutReport == [report |-> FALSE, reportBeforePosts |-> FALSE, fetch |-> TRUE,
                      fetchAtOnce |-> TRUE, forgetBoundary |-> TRUE, decision |-> FALSE]

OwedAtHandBack ==
    [report |-> ~detector.reachable, reportBeforePosts |-> ~detector.reachable, fetch |-> TRUE,
     fetchAtOnce |-> TRUE, forgetBoundary |-> TRUE, decision |-> FALSE]

(* handBack(): decided and done under one hold of the lock. *)
HandBack(thread) ==
    /\ ~Normal
    /\ state' = NormalState
    /\ owed' = OwedAtHandBack
    /\ Goto(thread, IF detector.reachable THEN "hand_save_report" ELSE "hand_save")
    /\ history' = [history EXCEPT !.cued = NoEntry, !.unreported = TRUE]
    /\ UNCHANGED <<world, disk, detector, stopping, locks, tick, worker, left>>
-----------------------------------------------------------------------------
(* tick() *)

(* A probe is due once its interval has passed, which the model leaves open. *)
TickBegins(probe) ==
    /\ at["tick"] = "idle"
    /\ ~stopping
    /\ tick' = [now |-> clock, probed |-> probe, fetch |-> "none"]
    /\ Goto("tick", IF probe THEN "probe" ELSE "cutoff")
    /\ UNCHANGED <<world, disk, state, detector, owed, stopping, locks, worker, left, history>>

(* Plausible bug: an answer does not end the run of failures. *)
AnsweredWithoutReset == [detector EXCEPT !.reachable = TRUE]

Answered == [failures |-> 0, reachable |-> TRUE]

ProbeAnswered ==
    /\ at["tick"] = "probe"
    /\ detector' = Answered
    /\ owed' = [owed EXCEPT !.report = @ \/ ~detector.reachable]
    /\ Goto("tick", "cutoff")
    /\ UNCHANGED <<world, disk, state, stopping, locks, tick, worker, left, history>>

(* The span a loss must also cover passes with the probes.  The count      *)
(* stops at Confirm: nothing tells a longer run of failures from it.       *)
ProbeFailed ==
    /\ at["tick"] = "probe"
    /\ Spend("probes")
    /\ detector' = [failures |-> IF Lost THEN Confirm ELSE detector.failures + 1,
                    reachable |-> FALSE]
    /\ owed' = [owed EXCEPT !.reportBeforePosts = @ \/ detector'.failures = Confirm]
    /\ history' = [history EXCEPT !.unreported = @ \/ detector'.failures = Confirm]
    /\ Goto("tick", "cutoff")
    /\ UNCHANGED <<world, disk, state, stopping, locks, tick, worker>>

(* The settle window is over and FPP has named no playlist: it is idle. *)
SettleHandsBack ==
    /\ at["tick"] = "settle"
    /\ owed.decision
    /\ HandBack("tick")

(* Decided already, or the window is still open. *)
SettlePasses == Passes("tick", "settle", "gather")

FetchOwed == owed.fetch /\ Normal

(* What is due, read under the lock.  A report is due every ten seconds too. *)
GatherReport ==
    /\ Passes("tick", "gather", "report")
    /\ detector.reachable
    /\ ~stopping

GatherNoReport ==
    /\ Passes("tick", "gather", "clear")
    /\ detector.reachable
    /\ ~stopping
    /\ ~owed.report
    /\ tick.probed \/ FetchOwed

TickEnds ==
    /\ Goto("tick", "idle")
    /\ tick' = IdleTick

GatherNothing ==
    /\ at["tick"] = "gather"
    /\ TickEnds
    /\ UNCHANGED <<world, disk, state, detector, owed, stopping, locks, worker, left, history>>
    /\ ~detector.reachable \/ stopping \/ (~tick.probed /\ ~owed.report /\ ~FetchOwed)

AtOnce == owed.fetch /\ owed.fetchAtOnce

(* Plausible bug: a hand-back fetch goes at once or not at all. *)
FetchAllowedOnce == IF owed.fetch THEN AtOnce ELSE tick.probed

FetchAllowed == tick.probed \/ AtOnce

(* The report is behind: posts may go, and the fetch is decided on.  One   *)
(* that no hand-back owes also waits for the refetch interval.             *)
ClearOwedReport ==
    /\ at["tick"] = "clear"
    /\ owed' = [owed EXCEPT !.reportBeforePosts = FALSE, !.fetchAtOnce = @ /\ ~owed.fetch]
    /\ LET fetches == Normal /\ ~stopping /\ FetchAllowed IN
       \/ /\ fetches
          /\ tick' = [tick EXCEPT !.fetch = IF owed.fetch THEN "handback" ELSE "refresh"]
          /\ Goto("tick", "fetch")
       \/ /\ ~fetches \/ ~owed.fetch
          /\ TickEnds
    /\ UNCHANGED <<world, disk, state, detector, stopping, locks, worker, left, history>>

FetchEnds ==
    /\ at["tick"] = "fetch"
    /\ TickEnds
    /\ UNCHANGED <<clock, disk, state, detector, stopping, locks, worker, history>>

(* The published copy, which is never an older one, is installed; the same *)
(* copy again and an answer that there is none change nothing.             *)
FetchAnswered ==
    /\ FetchEnds
    /\ \/ \E copy \in Copies :
             /\ installed # NoCopy => copy >= installed
             /\ installed' = copy
       \/ UNCHANGED installed
    /\ owed' = [owed EXCEPT !.fetch = @ /\ tick.fetch # "handback"]
    /\ UNCHANGED left

FetchUnanswered ==
    /\ FetchEnds
    /\ Spend("fetches")
    /\ UNCHANGED <<installed, owed>>
-----------------------------------------------------------------------------
(* observeEntryEvent() on the worker *)

(* A drained callback, stamped with the time FPP made it. *)
EventDrained ==
    /\ at["worker"] = "idle"
    /\ ~stopping
    /\ Spend("events")
    /\ \E callback \in Callbacks :
          /\ worker' = [worker EXCEPT !.event = [action |-> callback[1],
                             playlist |-> callback[2], entry |-> callback[3], at |-> clock]]
          /\ history' = [history EXCEPT !.cued =
                             IF callback[1] = "playing" /\ callback[3] = @ THEN @ ELSE NoEntry]
    /\ Goto("worker", "cutoff")
    /\ UNCHANGED <<world, disk, state, detector, owed, stopping, locks, tick>>

event == worker.event

EndsFallback ==
    /\ ~Normal
    /\ \/ event.action = "stop"
       \/ event.playlist # NoPlaylist /\ event.playlist # state.playlist

ResumesSavedState == owed.decision /\ ~EndsFallback /\ event.playlist # NoPlaylist

(* The boundary test and, for a plugin that started undecided, the decision. *)
Decide ==
    /\ at["worker"] = "decide"
    /\ worker' = [worker EXCEPT !.decision = IF EndsFallback THEN "ended"
                                             ELSE IF ResumesSavedState THEN "resumed" ELSE @]
    /\ owed' = [owed EXCEPT !.decision = @ /\ ~ResumesSavedState]
    /\ Goto("worker", IF EndsFallback THEN "hand" ELSE "forget")
    /\ UNCHANGED <<world, disk, state, detector, stopping, locks, tick, left, history>>

WorkerHandsBack ==
    /\ at["worker"] = "hand"
    /\ HandBack("worker")

(* The settle tick was first. *)
AlreadyHandedBack ==
    /\ Passes("worker", "hand", "forget")
    /\ Normal

(* Plausible bug: the entry of the saved occurrence is treated as any other. *)
NeverRecorded == FALSE

IsRecorded == worker.decision = "resumed" /\ state.occurrence.present
                 /\ event.entry = state.occurrence.entry

ClosesInterrupted == worker.decision = "resumed" /\ state.occurrence.present
                        /\ ~state.occurrence.delivered /\ state.mode = "fallback"

(* forgetBoundary_ and resumeSavedState(): an interrupted entry is closed, *)
(* and the recorded entry counts as a boundary already met.                *)
Resume ==
    /\ at["worker"] = "forget"
    /\ owed' = [owed EXCEPT !.forgetBoundary = FALSE]
    /\ worker' = [worker EXCEPT !.boundary =
                      IF IsRecorded
                      THEN [met |-> TRUE, entry |-> event.entry, finished |-> FALSE]
                      ELSE IF owed.forgetBoundary THEN NoBoundary ELSE @]
    /\ state' = IF ClosesInterrupted THEN [state EXCEPT !.occurrence.delivered = TRUE] ELSE state
    /\ Goto("worker", IF ClosesInterrupted THEN "resume_save" ELSE "act")
    /\ UNCHANGED <<world, disk, detector, stopping, locks, tick, left, history>>

IsNewOccurrence ==
    /\ event.action = "playing"
    /\ worker.boundary # [met |-> TRUE, entry |-> event.entry, finished |-> FALSE]

Act ==
    /\ at["worker"] = "act"
    /\ worker' = [worker EXCEPT !.boundary =
           CASE event.action = "stop" -> [NoBoundary EXCEPT !.finished = worker.boundary.finished]
             [] event.action = "query_next" -> [worker.boundary EXCEPT !.finished = TRUE]
             [] event.action = "playing" ->
                    [met |-> TRUE, entry |-> event.entry, finished |-> FALSE]]
    /\ Goto("worker", IF IsNewOccurrence THEN "boundary" ELSE "verdict")
    /\ UNCHANGED <<world, disk, state, detector, owed, stopping, locks, tick, left, history>>

(* onEntryBoundary() reads the mode and the loss under the lock, and lets go. *)
ReadBoundary ==
    /\ at["worker"] = "boundary"
    /\ worker' = [worker EXCEPT !.mode = state.mode, !.lost = Lost]
    /\ Goto("worker", "resolve")
    /\ UNCHANGED <<world, disk, state, detector, owed, stopping, locks, tick, left, history>>

(* The installed program: usable when FPP made the callback, and mapping the entry. *)
Startable ==
    /\ installed # NoCopy
    /\ ~Over(installed, event.at)
    /\ event.entry \in Mapped[installed]

Executes ==
    /\ worker.mode # "resting"
    /\ worker.mode = "normal" => worker.lost
    /\ Startable

(* Plausible bug: fallback is entered anew at every entry it can start. *)
EntersAnew == TRUE

EntersFallback == worker.mode = "normal"

Resolve ==
    /\ at["worker"] = "resolve"
    /\ worker' = [worker EXCEPT !.match = IF Executes THEN installed ELSE NoCopy]
    /\ Goto("worker", IF ~Executes THEN "verdict"
                      ELSE IF EntersFallback THEN "enter" ELSE "prepare")
    /\ UNCHANGED <<world, disk, state, detector, owed, stopping, locks, tick, left, history>>

Enter ==
    /\ at["worker"] = "enter"
    /\ state' = [mode |-> "fallback", playlist |-> event.playlist, copy |-> worker.match,
                 occurrence |-> NoOccurrence]
    /\ owed' = [owed EXCEPT !.report = TRUE]
    /\ Goto("worker", "prepare")
    /\ UNCHANGED <<world, disk, detector, stopping, locks, tick, worker, left, history>>

(* persistOccurrence(): recorded and saved in fallback alone. *)
PersistOccurrence(delivered, save, next) ==
    /\ state' = IF state.mode # "fallback" THEN state
                ELSE [state EXCEPT !.occurrence = [present |-> TRUE, entry |-> event.entry,
                                                   delivered |-> delivered]]
    /\ Goto("worker", IF state.mode = "fallback" THEN save ELSE next)
    /\ UNCHANGED <<world, disk, detector, owed, stopping, locks, tick, worker, left, history>>

(* Plausible bug: the occurrence is written once the nodes have answered. *)
PrepareUnsaved ==
    /\ at["worker"] = "prepare"
    /\ PersistOccurrence(FALSE, "deliver", "deliver")

(* On disk before the first activation leaves. *)
Prepare ==
    /\ at["worker"] = "prepare"
    /\ PersistOccurrence(FALSE, "prepare_save", "deliver")

AttemptsLeft == worker.attempts < MaxAttempts

(* An activation, its retry or the program a node asked for.  The cutoff   *)
(* of the copy in hand is checked before each.                             *)
SendRequest ==
    /\ at["worker"] = "deliver"
    /\ AttemptsLeft
    /\ ~Over(worker.match, clock)
    /\ worker' = [worker EXCEPT !.attempts = @ + 1]
    /\ history' = [history EXCEPT !.cued = event.entry]
    /\ UNCHANGED <<world, disk, state, detector, owed, at, stopping, locks, tick, left>>

(* Answered for good, cut off, given up, nothing to send, or cut short by a stop. *)
DeliveryEnds(stopped) ==
    /\ at["worker"] = "deliver"
    /\ stopped => stopping /\ worker.attempts > 0
    /\ PersistOccurrence(~stopped, "finish_save", "verdict")

EventEnds ==
    /\ at["worker"] = "verdict"
    /\ Goto("worker", "idle")
    /\ worker' = IdleWorker(worker.boundary)
    /\ UNCHANGED <<world, disk, state, detector, owed, stopping, locks, tick, left, history>>

(* The stop that ends fallback belongs to an entry this player started. *)
Suspends == (worker.decision = "ended" /\ event.action = "stop") \/ PostsSuspended

PostsSkipped == EventEnds /\ Suspends

PostsSent == EventEnds /\ ~Suspends
-----------------------------------------------------------------------------
(* The end of the process, and the constructor of the next one. *)

StopRequested ==
    /\ Up
    /\ ~stopping
    /\ Spend("ends")
    /\ stopping' = TRUE
    /\ UNCHANGED <<world, disk, state, detector, owed, at, locks, tick, worker, history>>

MemoryLost ==
    /\ at' = [thread \in Threads |-> "down"]
    /\ stopping' = FALSE
    /\ state' = NormalState
    /\ detector' = FreshDetector
    /\ owed' = NothingOwed
    /\ saving' = Nobody
    /\ reporting' = Nobody
    /\ tick' = IdleTick
    /\ worker' = IdleWorker(NoBoundary)
    /\ history' = [history EXCEPT !.unreported = FALSE]
    /\ UNCHANGED <<world, disk>>

(* Both threads were joined. *)
Exit ==
    /\ stopping
    /\ \A thread \in Threads : at[thread] = "idle"
    /\ MemoryLost
    /\ UNCHANGED left

Crash ==
    /\ Up
    /\ Spend("ends")
    /\ MemoryLost

Restarts ==
    /\ ~Up
    /\ at' = [thread \in Threads |-> "idle"]
    /\ UNCHANGED <<world, detector, stopping, locks, tick, worker, left>>

RestartNormal ==
    /\ Restarts
    /\ disk.mode = "normal"
    /\ UNCHANGED <<disk, state, owed, history>>

(* The saved plan ran out: the plugin starts in normal, with the hand-back owed. *)
RestartOver ==
    /\ Restarts
    /\ disk.mode # "normal"
    /\ Over(disk.copy, clock)
    /\ disk' = NormalState
    /\ owed' = [owed EXCEPT !.fetch = TRUE, !.reportBeforePosts = TRUE]
    /\ history' = [history EXCEPT !.cued = NoEntry]
    /\ UNCHANGED state

RestartUndecided ==
    /\ Restarts
    /\ disk.mode # "normal"
    /\ ~Over(disk.copy, clock)
    /\ state' = disk
    /\ owed' = [owed EXCEPT !.decision = TRUE]
    /\ UNCHANGED <<disk, history>>
-----------------------------------------------------------------------------
Shared(thread) ==
    \/ SaveBegins(thread)
    \/ SaveWrites(thread)
    \/ SaveFails(thread)
    \/ ReportBegins(thread)
    \/ ReportSent(thread)
    \/ EnterRestingAtCutoff(thread)
    \/ CutoffNotReached(thread)

Tick ==
    \/ Shared("tick")
    \/ \E probe \in BOOLEAN : TickBegins(probe)
    \/ ProbeAnswered
    \/ ProbeFailed
    \/ SettleHandsBack
    \/ SettlePasses
    \/ GatherReport
    \/ GatherNoReport
    \/ GatherNothing
    \/ ClearOwedReport
    \/ FetchAnswered
    \/ FetchUnanswered

HandlesEvent ==
    \/ Shared("worker")
    \/ Decide
    \/ WorkerHandsBack
    \/ AlreadyHandedBack
    \/ Resume
    \/ Act
    \/ ReadBoundary
    \/ Resolve
    \/ Enter
    \/ Prepare
    \/ SendRequest
    \/ \E stopped \in BOOLEAN : DeliveryEnds(stopped)
    \/ PostsSkipped
    \/ PostsSent

Next ==
    \/ ClockAdvances
    \/ Tick
    \/ EventDrained
    \/ HandlesEvent
    \/ StopRequested
    \/ Exit
    \/ Crash
    \/ RestartNormal
    \/ RestartOver
    \/ RestartUndecided

Spec == Init /\ [][Next]_vars

(* Both threads are scheduled, no request or file operation blocks for     *)
(* ever, and a probe comes due again and again on the tick thread.         *)
FairSpec ==
    /\ Spec
    /\ WF_vars(Tick)
    /\ WF_vars(HandlesEvent)
    /\ SF_vars(TickBegins(TRUE))
-----------------------------------------------------------------------------
Modes == {"normal", "fallback", "resting"}

States ==
    [mode : Modes, playlist : Playlists \union {NoPlaylist}, copy : Copies \union {NoCopy},
     occurrence : [present : BOOLEAN, entry : Entries \union {NoEntry}, delivered : BOOLEAN]]

WorkerPoints ==
    SavePoints \union {"idle", "cutoff", "decide", "hand", "hand_report", "forget", "act",
        "boundary", "resolve", "enter", "prepare", "deliver", "verdict", "down"}

TickPoints ==
    {"idle", "probe", "cutoff", "rest_save", "settle", "hand_save", "hand_save_report",
     "hand_report", "gather", "report", "clear", "fetch", "down"}

(* Every variable holds a value of its kind, and no node gets more         *)
(* requests for an entry than the retry table allows.                      *)
TypeOK ==
    /\ clock \in Nat
    /\ installed \in Copies \union {NoCopy}
    /\ disk \in States
    /\ state \in States
    /\ detector \in [failures : 0..Confirm, reachable : BOOLEAN]
    /\ owed \in [report : BOOLEAN, reportBeforePosts : BOOLEAN, fetch : BOOLEAN,
                 fetchAtOnce : BOOLEAN, forgetBoundary : BOOLEAN, decision : BOOLEAN]
    /\ at \in [Threads -> WorkerPoints \union TickPoints]
    /\ stopping \in BOOLEAN
    /\ saving \in [Threads -> States \union {NoState}]
    /\ reporting \in [Threads -> States \union {NoState}]
    /\ tick \in [now : Nat, probed : BOOLEAN, fetch : {"none", "refresh", "handback"}]
    /\ worker \in [event : [action : {"playing", "query_next", "stop"},
                            playlist : Playlists \union {NoPlaylist},
                            entry : Entries \union {NoEntry}, at : Nat],
                   decision : {"neither", "resumed", "ended"},
                   boundary : [met : BOOLEAN, entry : Entries \union {NoEntry},
                               finished : BOOLEAN],
                   mode : Modes, lost : BOOLEAN, match : Copies \union {NoCopy},
                   attempts : 0..MaxAttempts]
    /\ left \in [Bounded -> Nat]
    /\ history \in [cued : Entries \union {NoEntry}, unreported : BOOLEAN, told : Modes]

NoSaveFailed == left["saves"] = Budget["saves"]

(* The file catches up with the state: of two saves that race, the one     *)
(* written last holds the newest state, so a restart resumes what the      *)
(* process knew (fallback_executor.h:669-670).  Only between entering      *)
(* fallback and recording its first occurrence is no save under way.       *)
FileCatchesUp ==
    \/ ~Up
    \/ \E thread \in Threads : at[thread] \in SavePoints
    \/ at["worker"] = "prepare"
    \/ ~NoSaveFailed
    \/ disk = state

(* The occurrence is on disk before a request for it leaves                *)
(* (fallback_executor.h:1315-1316), so a restart knows what was sent.      *)
RecordedBeforeItLeaves ==
    [][(SendRequest /\ state.mode = "fallback" /\ NoSaveFailed)
          => disk.mode = "fallback" /\ disk.occurrence.entry = event.entry]_vars

(* No entry is cued twice while FPP stays on it: not by a repeated         *)
(* callback, and not after a crash or a stop at any point (README, "A      *)
(* plugin restart is not a hand-back").                                    *)
NoEntryCuedTwice ==
    [][(SendRequest /\ worker.attempts = 0 /\ NoSaveFailed) => history.cued # event.entry]_vars

(* The cutoff is never extended: as long as this player is the executor it *)
(* is held to the copy fallback was entered with, whatever is installed in *)
(* the meantime (README, "The cutoff").                                    *)
CutoffNeverExtended ==
    [][(~Normal /\ ~Normal') => state'.copy = state.copy]_vars

(* Once the coordinator answers, no change of mode is left untold: it was  *)
(* reported, a report is due, or a thread is on its way to send it, and of *)
(* two reports that race the newer state is told last (README, "The state  *)
(* report").                                                               *)
EveryChangeIsReported ==
    (Up /\ detector.reachable) =>
        \/ owed.report
        \/ history.told = state.mode
        \/ \E thread \in Threads : at[thread] \in ReportPoints \union {"hand_save_report"}

(* The tick handed back after the settle window; its report is to come. *)
TickOwesItsReport == at["tick"] \in {"hand_save_report", "hand_report"}

(* After a confirmed loss or a hand-back no observation is posted before   *)
(* the state report, whichever thread sends it (fallback_executor.h:457).  *)
(* The hand-back of the settle window is the exception: handBack() lets    *)
(* posts go while the coordinator answers, and the tick's report may still *)
(* be ahead of what the worker posts then.                                 *)
NoPostBeforeTheReport ==
    [][PostsSent => ~history.unreported \/ TickOwesItsReport]_vars

(* The fetch a hand-back owes is made, however often it goes unanswered,   *)
(* unless this player becomes the executor again or its process ends.      *)
HandBackFetchCompletes ==
    owed.fetch ~> (~owed.fetch \/ ~Normal \/ stopping \/ ~Up)

(* In normal posts are held back for a while only: an answer ends a loss,  *)
(* and the report that is owed goes.                                       *)
PostsResume ==
    PostsSuspended ~> (~PostsSuspended \/ ~Normal \/ stopping \/ ~Up)
-----------------------------------------------------------------------------
(* What README.md:459-461 says: fallback is entered "only when all three   *)
(* hold: loss is confirmed; ...".                                          *)
EntersOnlyWhileLost == [][Enter => Lost]_vars
=============================================================================
