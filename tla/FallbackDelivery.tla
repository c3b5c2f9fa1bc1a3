--------------------------- MODULE FallbackDelivery ---------------------------
(***************************************************************************)
(* An entry that FPP starts while the coordinator is lost, from the        *)
(* installed program to what the nodes do and what the operator is told    *)
(* (native/adapters/shared/fallback_executor.h): onEntryBoundary(),        *)
(* deliverMatch() with one thread per node, and the notice and status file *)
(* that both threads of the executor keep.                                 *)
(*                                                                         *)
(* FallbackExecutor models when fallback is entered and left, its file and *)
(* its reports; here "worker" and "tick" take those steps as far as the    *)
(* nodes and the notice depend on them.                                    *)
(***************************************************************************)
EXTENDS NodeDelivery, FallbackNotice

CONSTANTS
    MaxClock,          \* bound: the last instant of wall clock time
    MaxEntries,        \* bound: the entries of any start
    Starts             \* how things may be when the plugin starts: the program
                       \* installed, the nodes that hold it, whether a fallback
                       \* was saved, and the bounds of what follows

(* Ticks, entries, other callbacks, stops of the plugin; programs          *)
(* installed, writes that fail; requests handled late, requests with no    *)
(* proper answer, node restarts.                                           *)
Bounded ==
    {"ticks", "entries", "callbacks", "stops", "installs", "writes", "late", "others", "restarts"}

ASSUME DeliveryAssumption ==
    /\ MaxClock \in Nat
    /\ MaxEntries \in Nat
    /\ Starts \subseteq [program : Programs \union {NoProgram}, holders : SUBSET Nodes,
                          saved : BOOLEAN, budget : [Bounded -> Nat]]
    /\ \A start \in Starts : start.budget["entries"] <= MaxEntries

VARIABLES
    clock,             \* the wall clock
    program,           \* what is at installPath
    facts,             \* state_, undecided_, the detector and the counters
    at,                \* where each thread is
    stopping,          \* stopRequested_
    occurrence,        \* how many occurrences were delivered so far
    worker,            \* the worker's locals
    tick,              \* the tick's locals
    left,              \* what is left of the bounds
    told               \* read by properties alone: the time that the notice is
                       \* of, and whether the status was written with it

played == <<program, facts>>
locals == <<at, worker, tick>>
bounds == <<clock, stopping, left>>
vars == <<played, locals, bounds, occurrence, told, deliveryVars, noticeVars>>

At(thread, point) == at[thread] = point

Goto(thread, point) == at' = [at EXCEPT ![thread] = point]

Spend(what) ==
    /\ left[what] > 0
    /\ left' = [left EXCEPT ![what] = @ - 1]

NeverNoticed == MaxClock + 1

NormalFacts == [mode |-> "normal", cutoff |-> 0, boundary |-> "none", problem |-> "none",
                waiting |-> FALSE, lost |-> FALSE, reachable |-> FALSE,
                authorized |-> 0, notDelivered |-> 0]

NoEntry == [key |-> NoKey, now |-> 0, mode |-> "normal", lost |-> FALSE,
            problem |-> "none", match |-> NoProgram]

IdleTick == [now |-> 0, acted |-> FALSE]

(* The plugin starts in normal, or with a saved fallback that FPP has not  *)
(* confirmed yet.                                                          *)
SavedFacts == [NormalFacts EXCEPT !.mode = "fallback", !.cutoff = MaxClock, !.waiting = TRUE]

NodesAt(start) ==
    [node \in Nodes |->
        [program |-> node \in start.holders, processed |-> {}, started |-> {}, refused |-> {},
         cued |-> [o \in 1..MaxEntries |-> 0]]]

Init ==
    /\ clock = 0
    /\ at = [thread \in Threads |-> "idle"]
    /\ stopping = FALSE
    /\ occurrence = 0
    /\ worker = NoEntry
    /\ tick = IdleTick
    /\ told = [at |-> NeverNoticed, written |-> FALSE]
    /\ deliveries = [node \in Nodes |-> NoDelivery]
    /\ sent = [node \in Nodes |-> {}]
    /\ NoticeInit
    /\ \E start \in Starts :
          /\ program = start.program
          /\ facts = IF start.saved THEN SavedFacts ELSE NormalFacts
          /\ nodes = NodesAt(start)
          /\ left = start.budget
-----------------------------------------------------------------------------
(* Steps of either thread. *)

(* enterRestingAtCutoff() *)
Rested(now) ==
    IF facts.mode = "fallback" /\ facts.cutoff <= now THEN [facts EXCEPT !.mode = "resting"]
    ELSE facts

(* FallbackExecutionState::handBack(), and handBack() of the executor. *)
HandedBack ==
    [facts EXCEPT !.mode = "normal", !.cutoff = 0, !.boundary = "none", !.problem = "none",
                  !.waiting = FALSE]

Now(thread) == IF thread = "tick" THEN tick.now ELSE worker.now

RefreshNotice(thread) ==
    /\ UNCHANGED <<played, worker, tick, bounds, occurrence, deliveryVars>>
    /\ \/ /\ At(thread, "notice")
          /\ RefreshBegins(thread, facts)
          /\ Goto(thread, "raise")
          /\ UNCHANGED told
       \/ /\ At(thread, "raise")
          /\ RefreshEnds(thread, program, Now(thread))
          /\ Goto(thread, "publish")
          /\ told' = [told EXCEPT !.at = Now(thread)]

PublishStatus(thread) ==
    /\ UNCHANGED <<played, worker, tick, clock, stopping, occurrence, deliveryVars>>
    /\ \/ /\ At(thread, "publish")
          /\ PublishBegins(thread, facts)
          /\ Goto(thread, "write")
          /\ UNCHANGED <<left, told>>
       \/ /\ At(thread, "write")
          /\ \/ PublishEnds(thread, TRUE) /\ UNCHANGED left
             \/ PublishEnds(thread, FALSE) /\ Spend("writes")
          /\ told' = [told EXCEPT !.written = left' = left]
          /\ Goto(thread, "idle")
-----------------------------------------------------------------------------
(* The tick thread. *)
TickKeeps == UNCHANGED <<worker, clock, stopping, occurrence, told, deliveryVars, noticeVars>>

(* probe(): one that fails may confirm a loss, and keeps one. *)
Probed(reached, lost) ==
    [facts EXCEPT !.reachable = reached, !.lost = ~reached /\ (lost \/ facts.lost)]

TickProbes ==
    /\ At("tick", "idle")
    /\ ~stopping
    /\ Spend("ticks")
    /\ \E reached, lost \in BOOLEAN : facts' = Probed(reached, lost)
    /\ tick' = [now |-> clock, acted |-> TRUE]
    /\ Goto("tick", "cutoff")
    /\ UNCHANGED program
    /\ TickKeeps

TickBetweenProbes ==
    /\ At("tick", "idle")
    /\ ~stopping
    /\ Spend("ticks")
    /\ tick' = [now |-> clock, acted |-> FALSE]
    /\ Goto("tick", "cutoff")
    /\ UNCHANGED played
    /\ TickKeeps

TickRests ==
    /\ At("tick", "cutoff")
    /\ facts' = Rested(tick.now)
    /\ tick' = [tick EXCEPT !.acted = @ \/ Rested(tick.now) # facts]
    /\ Goto("tick", "settle")
    /\ UNCHANGED program
    /\ UNCHANGED left
    /\ TickKeeps

(* FPP named no playlist for the whole settle window. *)
TickHandsBack ==
    /\ At("tick", "settle")
    /\ facts.mode # "normal" /\ facts.waiting
    /\ facts' = HandedBack
    /\ tick' = [tick EXCEPT !.acted = TRUE]
    /\ Goto("tick", "fetch")
    /\ UNCHANGED program
    /\ UNCHANGED left
    /\ TickKeeps

TickSettles ==
    /\ At("tick", "settle")
    /\ Goto("tick", "fetch")
    /\ UNCHANGED <<played, tick>>
    /\ UNCHANGED left
    /\ TickKeeps

(* In normal with the coordinator answering, on the probe cadence or at a  *)
(* hand-back; the answer takes its time.                                   *)
FetchBegins ==
    /\ At("tick", "fetch")
    /\ facts.mode = "normal" /\ facts.reachable /\ ~stopping
    /\ tick' = [tick EXCEPT !.acted = TRUE]
    /\ Goto("tick", "install")
    /\ UNCHANGED played
    /\ UNCHANGED left
    /\ TickKeeps

Installs ==
    /\ At("tick", "install")
    /\ Spend("installs")
    /\ program' \in Programs
    /\ Goto("tick", "notice")
    /\ UNCHANGED <<facts, tick>>
    /\ TickKeeps

(* Nothing to fetch, or nothing new; a tick that did nothing tells nothing. *)
TickEnds ==
    /\ at["tick"] \in {"fetch", "install"}
    /\ Goto("tick", IF tick.acted THEN "notice" ELSE "idle")
    /\ UNCHANGED <<played, tick>>
    /\ UNCHANGED left
    /\ TickKeeps
-----------------------------------------------------------------------------
(* The worker: observeEntryEvent() for one drained callback, the last of   *)
(* which may already have been drained when the plugin is told to stop.    *)
WorkerKeeps == UNCHANGED <<program, tick, clock, stopping, told, noticeVars>>

CallbackDrained(next) ==
    /\ At("worker", "idle")
    /\ Goto("worker", next)
    /\ WorkerKeeps
    /\ UNCHANGED <<occurrence, deliveryVars>>

(* FPP named the playlist: a saved fallback stands, and an entry that the  *)
(* restart interrupted is recorded as not started.                         *)
Observed ==
    {[Rested(clock) EXCEPT !.waiting = FALSE, !.notDelivered = @ + interrupted] :
        interrupted \in IF facts.waiting THEN 0..1 ELSE {0}}

(* A new occurrence of an entry, of the playlist that plays or of another; *)
(* NoKey when its identity did not resolve.                                *)
EntryBegins ==
    /\ CallbackDrained("boundary")
    /\ Spend("entries")
    /\ \/ facts' \in Observed
       \/ facts.mode # "normal" /\ facts' = HandedBack
    /\ \E key \in Keys \union {NoKey} : worker' = [NoEntry EXCEPT !.key = key, !.now = clock]

(* A callback that starts nothing: a repeated one, or the recorded entry. *)
EntryGoesOn ==
    /\ CallbackDrained("notice")
    /\ facts' \in Observed
    /\ worker' = [NoEntry EXCEPT !.now = clock]
    /\ Spend("callbacks")

PlaylistStops ==
    /\ CallbackDrained("notice")
    /\ facts' = IF facts.mode = "normal" THEN facts ELSE HandedBack
    /\ worker' = [NoEntry EXCEPT !.now = clock]
    /\ Spend("callbacks")

ServingKeeps == WorkerKeeps /\ UNCHANGED left

(* onEntryBoundary() reads the mode under the lock, and lets go ... *)
ReadMode ==
    /\ At("worker", "boundary")
    /\ worker' = [worker EXCEPT !.mode = facts.mode, !.lost = facts.lost]
    /\ Goto("worker", "usable")
    /\ UNCHANGED <<facts, occurrence, deliveryVars>>
    /\ ServingKeeps

(* ... reads the program to see whether it may be used ... *)
CheckUsable ==
    /\ At("worker", "usable")
    /\ worker' = [worker EXCEPT !.problem = UnusableBecause(program, worker.now)]
    /\ Goto("worker", "resolve")
    /\ UNCHANGED <<facts, occurrence, deliveryVars>>
    /\ ServingKeeps

ProblemOfEntry ==
    IF worker.mode = "resting" THEN "resting"
    ELSE IF worker.problem # "none" THEN worker.problem
    ELSE IF worker.key = NoKey THEN "entry-not-identified"
    ELSE Refusal(program, worker.key, worker.now)

(* ... and reads it again for the entry. *)
ResolveEntry ==
    /\ At("worker", "resolve")
    /\ worker' = [worker EXCEPT !.problem = ProblemOfEntry, !.match = program]
    /\ Goto("worker", "verdict")
    /\ UNCHANGED <<facts, occurrence, deliveryVars>>
    /\ ServingKeeps

(* The locals of onEntryBoundary() end with it. *)
Returns ==
    /\ worker' = [NoEntry EXCEPT !.now = worker.now]
    /\ Goto("worker", "notice")

Concerns == worker.mode # "normal" \/ worker.lost

LeftToCoordinator ==
    /\ At("worker", "verdict")
    /\ ~Concerns
    /\ Returns
    /\ UNCHANGED <<facts, occurrence, deliveryVars>>
    /\ ServingKeeps

StartsNothing ==
    /\ At("worker", "verdict")
    /\ Concerns /\ worker.problem # "none"
    /\ facts' = [facts EXCEPT !.notDelivered = @ + 1,
           !.boundary = IF worker.problem = "unknown-entry" THEN "nothing-to-start" ELSE "not-started",
           !.problem = IF worker.problem = "unknown-entry" THEN "none" ELSE worker.problem]
    /\ Returns
    /\ UNCHANGED <<occurrence, deliveryVars>>
    /\ ServingKeeps

EntersFallback ==
    [facts EXCEPT !.mode = "fallback", !.cutoff = worker.match.expires, !.boundary = "none",
                  !.problem = "none"]

Entry == EntryFor(worker.match, worker.key)

Asked == Askable(worker.match, Entry)

DeliveryTo(node) ==
    IF node \in Asked THEN Delivery(occurrence')
    ELSE IF node \in Entry.targets THEN NotAsked(occurrence', TargetProblem(Entry, node))
    ELSE NoDelivery

(* Fallback is entered if it was not; each target gets a request of its    *)
(* own, or the reason why this player does not ask it.                     *)
DeliverMatch ==
    /\ At("worker", "verdict")
    /\ Concerns /\ worker.problem = "none"
    /\ occurrence' = occurrence + 1
    /\ deliveries' = [node \in Nodes |-> DeliveryTo(node)]
    /\ facts' = [(IF worker.mode = "normal" THEN EntersFallback ELSE facts) EXCEPT
                    !.notDelivered = @ + Cardinality(Entry.targets \ Asked)]
    /\ Goto("worker", "deliver")
    /\ UNCHANGED <<worker, sent, nodes>>
    /\ ServingKeeps

Authorized == {node \in Nodes : deliveries[node].outcome = "authorized"}

(* Every target ends with an outcome, those that were not asked included.  *)
Targets == {node \in Nodes : deliveries[node].at = "done"}

NotAskedFor ==
    {node \in Targets : deliveries[node].outcome \in TargetProblems}

BoundaryOf(started) ==
    IF started = Targets THEN "started"
    ELSE IF started # {} THEN "started-on-some"
    ELSE "not-started"

DeliveriesEnd ==
    /\ At("worker", "deliver")
    /\ \A node \in Nodes : deliveries[node].at \in {"none", "done"}
    /\ \E problem \in {deliveries[node].outcome : node \in Targets} :
          facts' = [facts EXCEPT
              !.authorized = @ + Cardinality(Authorized),
              !.notDelivered = @ + Cardinality(Targets \ (Authorized \union NotAskedFor)),
              !.boundary = BoundaryOf(Authorized),
              !.problem = IF Targets = NotAskedFor THEN problem ELSE "none"]
    /\ Returns
    /\ UNCHANGED <<occurrence, deliveryVars>>
    /\ ServingKeeps
-----------------------------------------------------------------------------
(* The delivery threads, and the nodes. *)
BeforeTheCutoff == clock < worker.match.expires

NetworkKeeps == UNCHANGED <<played, locals, clock, stopping, occurrence, told, noticeVars>>

DeliveryStep(node) ==
    /\ NetworkKeeps
    /\ UNCHANGED left
    /\ \/ Ask(node) /\ BeforeTheCutoff
       \/ HandProgram(node) /\ BeforeTheCutoff
       \/ CutOff(node) /\ ~BeforeTheCutoff
       \/ ~stopping /\ PauseEnds(node)
       \/ stopping /\ StopsInPause(node)
       \/ \E word \in Outcomes : Answered(node, word)
       \/ Replayed(node)

OtherAnswer(node) ==
    /\ NetworkKeeps
    /\ Spend("others")
    /\ \E word \in Outcomes : AnsweredOtherwise(node, word)

LateRequest(node) ==
    /\ NetworkKeeps
    /\ Spend("late")
    /\ HandlesUnheard(node)

NodeRestart(node) ==
    /\ NetworkKeeps
    /\ Spend("restarts")
    /\ NodeRestarts(node)
-----------------------------------------------------------------------------
ClockAdvances ==
    /\ clock < MaxClock
    /\ clock' = clock + 1
    /\ UNCHANGED <<played, locals, stopping, left, occurrence, told, deliveryVars, noticeVars>>

StopRequested ==
    /\ ~stopping
    /\ Spend("stops")
    /\ stopping' = TRUE
    /\ UNCHANGED <<played, locals, clock, occurrence, told, deliveryVars, noticeVars>>

Tells(thread) == RefreshNotice(thread) \/ PublishStatus(thread)

Tick ==
    \/ TickProbes
    \/ TickBetweenProbes
    \/ TickRests
    \/ TickHandsBack
    \/ TickSettles
    \/ FetchBegins
    \/ Installs
    \/ TickEnds
    \/ Tells("tick")

Serves ==
    \/ ReadMode
    \/ CheckUsable
    \/ ResolveEntry
    \/ LeftToCoordinator
    \/ StartsNothing
    \/ DeliverMatch
    \/ DeliveriesEnd
    \/ Tells("worker")

Drains ==
    \/ EntryBegins
    \/ EntryGoesOn
    \/ PlaylistStops

Network ==
    \E node \in Nodes :
        \/ DeliveryStep(node)
        \/ OtherAnswer(node)
        \/ LateRequest(node)
        \/ NodeRestart(node)

Next ==
    \/ ClockAdvances
    \/ StopRequested
    \/ Tick
    \/ Drains
    \/ Serves
    \/ Network

Spec == Init /\ [][Next]_vars

(* Both threads and the delivery threads are scheduled, a request ends in  *)
(* an answer or a timeout, and a pause ends.                               *)
FairSpec ==
    /\ Spec
    /\ WF_vars(Tick)
    /\ WF_vars(Serves)
    /\ \A node \in Nodes : WF_vars(DeliveryStep(node) \/ OtherAnswer(node))
-----------------------------------------------------------------------------
(* A node starts an occurrence's cue once at most, however many requests   *)
(* for it are repeated, delayed or answered in vain (README.md, "A retry   *)
(* reuses the execution id and the identical body").                       *)
StartedOnce ==
    \A node \in Nodes, o \in 1..MaxEntries : nodes[node].cued[o] <= 1

(* What is recorded as started was started, for this very occurrence: by   *)
(* each node whose delivery is authorized, a replay's first answer         *)
(* included, and by all of them, or some, if the boundary says so.         *)
AccountIsTrue ==
    /\ \A node \in Authorized : nodes[node].cued[deliveries[node].occurrence] = 1
    /\ ~At("worker", "deliver") =>
          /\ facts.boundary = "started" => Targets # {} /\ Targets \subseteq Authorized
          /\ facts.boundary = "started-on-some" => Authorized # {}

(* Between their steps the two threads leave the operator with what is so: *)
(* the notice is that of the present state and program, as of the time of  *)
(* the thread that raised it last, and unless its last write failed the status    *)
(* file holds that state and that notice (fallback_executor.h:1365).       *)
ToldAsItIs ==
    told.at # NeverNoticed /\ (\A thread \in Threads : At(thread, "idle")) =>
        /\ raised = NoticeOf(facts, Problem(facts, program, told.at))
        /\ told.written => status = [facts |-> facts, message |-> raised]

(* An entry that is being served keeps the worker for a while only: each   *)
(* delivery comes to an end by an answer, its limits, the cutoff or a stop.*)
ServingEnds == At("worker", "deliver") ~> At("worker", "idle")
=============================================================================
