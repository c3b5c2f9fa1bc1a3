------------------------ MODULE FallbackDelivery_proofs ------------------------
(***************************************************************************)
(* Proofs about an entry's delivery and what the operator is told, for any *)
(* programs, nodes, numbers of entries and whatever the network does.      *)
(***************************************************************************)
EXTENDS FallbackDelivery, FiniteSetTheorems, TLAPS

Installed == Programs \union {NoProgram}

Modes == {"normal", "fallback", "resting"}

Boundaries == {"none", "started", "started-on-some", "not-started", "nothing-to-start"}

Problems == PlayerWords \union {"none"}

TickPoints == {"cutoff", "settle", "fetch", "install"}

ServingPoints == {"boundary", "usable", "resolve", "verdict"}

TellingPoints == {"notice", "raise", "publish", "write"}

Points == TickPoints \union ServingPoints \union TellingPoints \union {"idle", "deliver"}

Workers ==
    [key : Keys \union {NoKey}, now : Nat, mode : Modes, lost : BOOLEAN,
     problem : Problems, match : Installed]

Ticks == [now : Nat, acted : BOOLEAN]

Read == [Threads -> FactsType \union {NoFacts}]

(* What the two threads hold, by type.                                     *)
Typed ==
    /\ clock \in Nat
    /\ program \in Installed
    /\ facts \in FactsType
    /\ at \in [Threads -> Points]
    /\ worker \in Workers
    /\ tick \in Ticks
    /\ left \in [Bounded -> Nat]
    /\ told \in [at : Nat, written : BOOLEAN]
    /\ noticing \in Read /\ publishing \in Read

(* A match that is about to be delivered has a target to ask.              *)
MatchHasTargets ==
    At("worker", "verdict") /\ worker.problem = "none" =>
        worker.match \in Programs /\ Entry \in EntryType /\ Entry.targets # {}

ThreadsTyped == Typed /\ MatchHasTargets
-----------------------------------------------------------------------------
(* What the resolver answers. *)
LEMMA RefusalWords ==
  ASSUME NEW p \in Installed, NEW key, NEW now
  PROVE  Refusal(p, key, now) \in Refusals \union {"none"}
BY DEF Refusal, RefusalOfDocument, RefusalOfEntry, Refusals

LEMMA UnusableWords ==
  ASSUME NEW p \in Installed, NEW now
  PROVE  UnusableBecause(p, now) \in Problems
<1>1. Refusal(p, NoKey, now) \in Refusals \union {"none"}
  BY RefusalWords
<1> QED  BY <1>1 DEF UnusableBecause, Problems, PlayerWords, Refusals

(* A match is an entry of a program that was there, with a live target.    *)
LEMMA MatchIsActivatable ==
  ASSUME NEW p \in Installed, NEW key, NEW now, Refusal(p, key, now) = "none"
  PROVE  p \in Programs /\ EntryFor(p, key) \in EntryType /\ EntryFor(p, key).targets # {}
<1>1. p \in Programs /\ Claims(p, key) # {} /\ Activatable(EntryFor(p, key))
  BY DEF Refusal, RefusalOfDocument, RefusalOfEntry, Installed
<1>2. p.entries \in Seq(EntryType)
  BY <1>1, ProgramAssumption DEF ProgramType
<1>3. PICK i \in DOMAIN p.entries : EntryFor(p, key) = p.entries[i]
  BY <1>1 DEF EntryFor, Claims
<1>4. p.entries[i] \in EntryType
  BY <1>2, <1>3
<1> QED  BY <1>1, <1>3, <1>4 DEF Activatable

LEMMA ProblemOfEntryWords ==
  ASSUME Typed
  PROVE  /\ ProblemOfEntry \in Problems
         /\ ProblemOfEntry = "none" =>
                /\ program \in Programs
                /\ EntryFor(program, worker.key) \in EntryType
                /\ EntryFor(program, worker.key).targets # {}
<1>1. Refusal(program, worker.key, worker.now) \in Refusals \union {"none"}
  BY RefusalWords DEF Typed
<1>2. worker.problem \in Problems
  BY DEF Typed, Workers
<1>3. ProblemOfEntry \in Problems
  BY <1>1, <1>2 DEF ProblemOfEntry, Problems, PlayerWords
<1>4. ProblemOfEntry = "none" => Refusal(program, worker.key, worker.now) = "none"
  BY DEF ProblemOfEntry
<1> QED  BY <1>3, <1>4, MatchIsActivatable DEF Typed

LEMMA NoProblem == "none" \notin PlayerWords
BY DEF PlayerWords, Refusals, TargetProblems
-----------------------------------------------------------------------------
(* The facts, field by field. *)
LEMMA FactsFields ==
  ASSUME NEW f \in FactsType
  PROVE  /\ f.mode \in Modes /\ f.cutoff \in Nat /\ f.boundary \in Boundaries
         /\ f.problem \in Problems /\ f.waiting \in BOOLEAN /\ f.lost \in BOOLEAN
         /\ f.reachable \in BOOLEAN /\ f.authorized \in Nat /\ f.notDelivered \in Nat
BY DEF FactsType, Modes, Boundaries, Problems

LEMMA SaysOfBoundary ==
  ASSUME NEW f \in FactsType, NEW a \in Nat, NEW n \in Nat, NEW b \in Boundaries, NEW p \in Problems
  PROVE  /\ [f EXCEPT !.authorized = a, !.notDelivered = n, !.boundary = b, !.problem = p] \in FactsType
         /\ [f EXCEPT !.notDelivered = n, !.boundary = b, !.problem = p] \in FactsType
         /\ [f EXCEPT !.notDelivered = n] \in FactsType
BY DEF FactsType, Boundaries, Problems

LEMMA RestedType ==
  ASSUME facts \in FactsType, NEW now
  PROVE  Rested(now) \in FactsType
BY DEF Rested, FactsType

LEMMA HandedBackType ==
  ASSUME facts \in FactsType
  PROVE  HandedBack \in FactsType
<1> DEFINE no == FALSE
<1>1. no \in BOOLEAN
  OBVIOUS
<1> HIDE DEF no
<1>2. [facts EXCEPT !.mode = "normal", !.cutoff = 0, !.boundary = "none", !.problem = "none",
                    !.waiting = no] \in FactsType
  BY <1>1 DEF FactsType
<1> QED  BY <1>2 DEF HandedBack, no

LEMMA ObservedType ==
  ASSUME facts \in FactsType, NEW f \in Observed
  PROVE  f \in FactsType
<1> DEFINE no == FALSE
           rested == Rested(clock)
           counts == IF facts.waiting THEN 0..1 ELSE {0}
<1>1. no \in BOOLEAN /\ rested \in FactsType /\ counts \subseteq Nat
  BY RestedType
<1>2. f \in {[rested EXCEPT !.waiting = no, !.notDelivered = @ + n] : n \in counts}
  BY Zenon DEF Observed
<1> HIDE DEF no, rested, counts
<1>3. PICK n \in Nat : f = [rested EXCEPT !.waiting = no, !.notDelivered = @ + n]
  BY <1>1, <1>2
<1>4. rested.notDelivered + n \in Nat
  BY <1>1 DEF FactsType
<1> QED  BY <1>1, <1>3, <1>4 DEF FactsType

LEMMA ProbedType ==
  ASSUME facts \in FactsType, NEW reached \in BOOLEAN, NEW lost \in BOOLEAN
  PROVE  Probed(reached, lost) \in FactsType
<1> DEFINE l == ~reached /\ (lost \/ facts.lost)
<1>1. l \in BOOLEAN
  OBVIOUS
<1> HIDE DEF l
<1>2. [facts EXCEPT !.reachable = reached, !.lost = l] \in FactsType
  BY <1>1 DEF FactsType
<1> QED  BY <1>2 DEF Probed, l

LEMMA ExpiresIsNat ==
  ASSUME NEW p \in Programs
  PROVE  p.expires \in Nat
BY ProgramAssumption DEF ProgramType

LEMMA EntersType ==
  ASSUME facts \in FactsType, worker.match \in Programs
  PROVE  EntersFallback \in FactsType
<1>1. worker.match.expires \in Nat
  BY ExpiresIsNat
<1> QED  BY <1>1 DEF EntersFallback, FactsType

LEMMA FirstFacts == NormalFacts \in FactsType /\ SavedFacts \in FactsType
<1> DEFINE no == FALSE
           yes == TRUE
           none == 0
<1>1. no \in BOOLEAN /\ yes \in BOOLEAN /\ none \in Nat
  OBVIOUS
<1>2. MaxClock \in Nat
  BY DeliveryAssumption
<1> HIDE DEF no, yes, none
<1> DEFINE normal ==
             [mode |-> "normal", cutoff |-> none, boundary |-> "none", problem |-> "none",
              waiting |-> no, lost |-> no, reachable |-> no,
              authorized |-> none, notDelivered |-> none]
<1>3. normal \in FactsType
  BY <1>1 DEF FactsType
<1>4. normal = NormalFacts
  BY DEF no, none, NormalFacts
<1> HIDE DEF normal
<1>5. [normal EXCEPT !.mode = "fallback", !.cutoff = MaxClock, !.waiting = yes] \in FactsType
  BY <1>1, <1>2, <1>3 DEF FactsType
<1> QED  BY <1>3, <1>4, <1>5 DEF SavedFacts, yes
-----------------------------------------------------------------------------
(* Cardinalities, of sets of nodes. *)
LEMMA NodesCounted ==
  ASSUME NEW S \in SUBSET Nodes
  PROVE  Cardinality(S) \in Nat
<1>1. IsFiniteSet(S)
  BY ProgramAssumption, FS_Subset
<1> QED  BY <1>1, FS_CardinalityType

LEMMA SpendType ==
  ASSUME left \in [Bounded -> Nat], NEW what \in Bounded, Spend(what)
  PROVE  /\ left' \in [Bounded -> Nat]
         /\ left[what] > 0 /\ left'[what] = left[what] - 1 /\ left' # left
         /\ \A other \in Bounded \ {what} : left'[other] = left[other]
<1>1. left' = [left EXCEPT ![what] = @ - 1] /\ left[what] \in Nat /\ left[what] > 0
  BY DEF Spend
<1>2. left' \in [Bounded -> Nat]
  BY <1>1
<1> QED  BY <1>1, <1>2

LEMMA GotoType ==
  ASSUME at \in [Threads -> Points], NEW thread \in Threads, NEW point \in Points,
         Goto(thread, point)
  PROVE  /\ at' \in [Threads -> Points] /\ at'[thread] = point
         /\ \A other \in Threads \ {thread} : at'[other] = at[other]
BY DEF Goto
-----------------------------------------------------------------------------
(* Each thread's steps keep the types. *)
LEMMA ThreadsInit == Init => ThreadsTyped
<1> SUFFICES ASSUME Init
             PROVE  ThreadsTyped
  OBVIOUS
<1> DEFINE no == FALSE
           none == 0
<1>1. no \in BOOLEAN /\ none \in Nat /\ NeverNoticed \in Nat
  BY DeliveryAssumption DEF NeverNoticed
<1>2. facts \in FactsType /\ program \in Installed /\ left \in [Bounded -> Nat] /\ clock \in Nat
  BY FirstFacts, DeliveryAssumption DEF Init, Installed
<1>3. at \in [Threads -> Points] /\ ~At("worker", "verdict")
  BY DEF Init, Points, At, Threads
<1>4. noticing \in Read /\ publishing \in Read
  BY DEF Init, NoticeInit, NothingRead, Read
<1> HIDE DEF no, none
<1>5. [key |-> NoKey, now |-> none, mode |-> "normal", lost |-> no, problem |-> "none",
       match |-> NoProgram] \in Workers
  BY <1>1 DEF Workers, Modes, Problems, Installed
<1>6. [now |-> none, acted |-> no] \in Ticks
  BY <1>1 DEF Ticks
<1>7. [at |-> NeverNoticed, written |-> no] \in [at : Nat, written : BOOLEAN]
  BY <1>1
<1> QED  BY <1>2, <1>3, <1>4, <1>5, <1>6, <1>7 DEF Init, ThreadsTyped, Typed, MatchHasTargets,
              NoEntry, IdleTick, no, none

(* A step that leaves the worker alone, or moves it to where nothing is    *)
(* said of a match.                                                        *)
LEMMA MatchKept ==
  ASSUME MatchHasTargets,
         (worker' = worker /\ at'["worker"] = at["worker"]) \/ at'["worker"] # "verdict"
  PROVE  MatchHasTargets'
BY DEF MatchHasTargets, At, Entry

LEMMA ThreadNames == "tick" \in Threads /\ "worker" \in Threads /\ "tick" # "worker"
BY DEF Threads

LEMMA ReadType ==
  ASSUME NEW r \in Read, NEW thread \in Threads, NEW f \in FactsType \union {NoFacts}
  PROVE  [r EXCEPT ![thread] = f] \in Read
BY DEF Read

LEMMA RefreshTyped ==
  ASSUME ThreadsTyped, NEW thread \in Threads, RefreshNotice(thread)
  PROVE  ThreadsTyped'
<1> USE DEF ThreadsTyped
<1>1. \E point \in Points \ {"verdict"} : Goto(thread, point) /\ point \in TellingPoints
  BY DEF RefreshNotice, Points, TellingPoints, TickPoints, ServingPoints
<1>2. at'["worker"] # "verdict" \/ at'["worker"] = at["worker"]
  BY <1>1, GotoType, ThreadNames DEF Typed, At
<1>3. at' \in [Threads -> Points]
  BY <1>1, GotoType DEF Typed
<1>4. MatchHasTargets'
  BY <1>2, MatchKept DEF RefreshNotice, At
<1>5. noticing' \in Read /\ publishing' \in Read
  BY ReadType DEF RefreshNotice, RefreshBegins, RefreshEnds, Typed
<1>6. Now(thread) \in Nat
  BY DEF Now, Typed, Workers, Ticks
<1>7. told' \in [at : Nat, written : BOOLEAN]
  BY <1>6 DEF RefreshNotice, Typed
<1> QED  BY <1>3, <1>4, <1>5, <1>7 DEF RefreshNotice, Typed, played, bounds

LEMMA PublishTyped ==
  ASSUME ThreadsTyped, NEW thread \in Threads, PublishStatus(thread)
  PROVE  ThreadsTyped'
<1> USE DEF ThreadsTyped
<1>1. \E point \in Points \ {"verdict"} : Goto(thread, point)
  BY DEF PublishStatus, Points, TellingPoints, TickPoints, ServingPoints
<1>2. at' \in [Threads -> Points] /\ (at'["worker"] # "verdict" \/ at'["worker"] = at["worker"])
  BY <1>1, GotoType, ThreadNames DEF Typed
<1>3. MatchHasTargets'
  BY <1>2, MatchKept DEF PublishStatus
<1>4. noticing' \in Read /\ publishing' \in Read
  BY ReadType DEF PublishStatus, PublishBegins, PublishEnds, Typed
<1>5. left' \in [Bounded -> Nat]
  BY SpendType DEF PublishStatus, Typed, Bounded
<1> DEFINE same == left' = left
<1>6. told' = told \/ told' = [told EXCEPT !.written = same]
  BY Zenon DEF PublishStatus
<1>7. same \in BOOLEAN
  OBVIOUS
<1> HIDE DEF same
<1>8. told' \in [at : Nat, written : BOOLEAN]
  BY <1>6, <1>7 DEF Typed
<1> QED  BY <1>2, <1>3, <1>4, <1>5, <1>8 DEF PublishStatus, Typed, played
-----------------------------------------------------------------------------
(* The tick's steps. *)
LEMMA TickKeepsTyped ==
  ASSUME ThreadsTyped, TickKeeps, NEW point \in Points, Goto("tick", point),
         program' \in Installed, facts' \in FactsType, tick' \in Ticks, left' \in [Bounded -> Nat]
  PROVE  ThreadsTyped'
<1> USE ThreadNames DEF ThreadsTyped
<1>1. at' \in [Threads -> Points] /\ at'["worker"] = at["worker"]
  BY GotoType DEF Typed
<1>2. MatchHasTargets'
  BY <1>1, MatchKept DEF TickKeeps
<1> QED  BY <1>1, <1>2 DEF TickKeeps, Typed, noticeVars

(* A tick that has acted, or not. *)
LEMMA TickActs ==
  ASSUME NEW t \in Ticks, NEW acted \in BOOLEAN
  PROVE  /\ [t EXCEPT !.acted = acted] \in Ticks
         /\ [t EXCEPT !.acted = acted].acted = acted
BY DEF Ticks

LEMMA TickBegins ==
  ASSUME NEW now \in Nat, NEW acted \in BOOLEAN
  PROVE  /\ [now |-> now, acted |-> acted] \in Ticks
         /\ [now |-> now, acted |-> acted].acted = acted
BY DEF Ticks

LEMMA TickTyped ==
  ASSUME ThreadsTyped,
         TickProbes \/ TickBetweenProbes \/ TickRests \/ TickHandsBack \/ TickSettles
           \/ FetchBegins \/ Installs \/ TickEnds
  PROVE  ThreadsTyped'
<1> USE DEF ThreadsTyped
<1> DEFINE yes == TRUE
           no == FALSE
           rested == tick.acted \/ Rested(tick.now) # facts
<1>0. /\ yes \in BOOLEAN /\ no \in BOOLEAN /\ rested \in BOOLEAN /\ clock \in Nat
      /\ {"ticks", "installs"} \subseteq Bounded
      /\ TickPoints \union {"notice", "idle"} \subseteq Points
  BY DEF Typed, Bounded, Points, TellingPoints, Ticks
<1>1. CASE TickProbes
  <2>1. Goto("tick", "cutoff") /\ TickKeeps /\ program' = program
    BY <1>1 DEF TickProbes
  <2>2. tick' = [now |-> clock, acted |-> yes]
    BY <1>1, Zenon DEF TickProbes
  <2> HIDE DEF yes, no, rested
  <2>3. tick' \in Ticks
    BY <1>0, <2>2, TickBegins
  <2>4. facts' \in FactsType
    BY <1>1, ProbedType DEF TickProbes, Typed
  <2>5. left' \in [Bounded -> Nat]
    BY <1>0, <1>1, SpendType DEF TickProbes, Typed
  <2> QED  BY <1>0, <2>1, <2>3, <2>4, <2>5, TickKeepsTyped DEF Typed, TickPoints
<1>2. CASE TickBetweenProbes
  <2>1. Goto("tick", "cutoff") /\ TickKeeps /\ program' = program /\ facts' = facts
    BY <1>2 DEF TickBetweenProbes, played
  <2>2. tick' = [now |-> clock, acted |-> no]
    BY <1>2, Zenon DEF TickBetweenProbes
  <2> HIDE DEF yes, no, rested
  <2>3. tick' \in Ticks
    BY <1>0, <2>2, TickBegins
  <2>5. left' \in [Bounded -> Nat]
    BY <1>0, <1>2, SpendType DEF TickBetweenProbes, Typed
  <2> QED  BY <1>0, <2>1, <2>3, <2>5, TickKeepsTyped DEF Typed, TickPoints
<1>3. CASE TickRests
  <2>1. Goto("tick", "settle") /\ TickKeeps /\ program' = program /\ left' = left
    BY <1>3 DEF TickRests
  <2>2. tick' = [tick EXCEPT !.acted = rested]
    BY <1>3, Zenon DEF TickRests
  <2>3. facts' \in FactsType
    BY <1>3, RestedType DEF TickRests, Typed
  <2> HIDE DEF yes, no, rested
  <2>4. tick' \in Ticks
    BY <1>0, <2>2, TickActs DEF Typed
  <2> QED  BY <1>0, <2>1, <2>3, <2>4, TickKeepsTyped DEF Typed, TickPoints
<1>4. CASE TickHandsBack
  <2>1. Goto("tick", "fetch") /\ TickKeeps /\ program' = program /\ left' = left
    BY <1>4 DEF TickHandsBack
  <2>2. tick' = [tick EXCEPT !.acted = yes]
    BY <1>4, Zenon DEF TickHandsBack
  <2>3. facts' \in FactsType
    BY <1>4, HandedBackType DEF TickHandsBack, Typed
  <2> HIDE DEF yes, no, rested
  <2>4. tick' \in Ticks
    BY <1>0, <2>2, TickActs DEF Typed
  <2> QED  BY <1>0, <2>1, <2>3, <2>4, TickKeepsTyped DEF Typed, TickPoints
<1>5. CASE TickSettles
  BY <1>0, <1>5, TickKeepsTyped DEF TickSettles, played, Typed, TickPoints
<1>6. CASE FetchBegins
  <2>1. Goto("tick", "install") /\ TickKeeps /\ program' = program /\ facts' = facts /\ left' = left
    BY <1>6 DEF FetchBegins, played
  <2>2. tick' = [tick EXCEPT !.acted = yes]
    BY <1>6, Zenon DEF FetchBegins
  <2> HIDE DEF yes, no, rested
  <2>3. tick' \in Ticks
    BY <1>0, <2>2, TickActs DEF Typed
  <2> QED  BY <1>0, <2>1, <2>3, TickKeepsTyped DEF Typed, TickPoints
<1>7. CASE Installs
  <2>1. left' \in [Bounded -> Nat]
    BY <1>0, <1>7, SpendType DEF Installs, Typed
  <2> QED  BY <1>0, <1>7, <2>1, TickKeepsTyped DEF Installs, Typed, Installed
<1>8. CASE TickEnds
  <2>1. \E point \in {"notice", "idle"} : Goto("tick", point)
    BY <1>8 DEF TickEnds
  <2> QED  BY <1>0, <1>8, <2>1, TickKeepsTyped DEF TickEnds, played, Typed
<1> QED  BY <1>1, <1>2, <1>3, <1>4, <1>5, <1>6, <1>7, <1>8
-----------------------------------------------------------------------------
(* The worker's steps. *)
LEMMA WorkerKeepsTyped ==
  ASSUME ThreadsTyped, WorkerKeeps, NEW point \in Points, Goto("worker", point),
         facts' \in FactsType, worker' \in Workers, left' \in [Bounded -> Nat],
         point = "verdict" =>
             (worker'.problem = "none" =>
                 /\ worker'.match \in Programs
                 /\ EntryFor(worker'.match, worker'.key) \in EntryType
                 /\ EntryFor(worker'.match, worker'.key).targets # {})
  PROVE  ThreadsTyped'
<1> USE ThreadNames DEF ThreadsTyped
<1>1. at' \in [Threads -> Points] /\ at'["worker"] = point
  BY GotoType DEF Typed
<1>2. MatchHasTargets'
  BY <1>1 DEF MatchHasTargets, At, Entry
<1> QED  BY <1>1, <1>2 DEF WorkerKeeps, Typed, noticeVars

LEMMA NewEntry ==
  ASSUME NEW key \in Keys \union {NoKey}, NEW now \in Nat
  PROVE  /\ [NoEntry EXCEPT !.key = key, !.now = now] \in Workers
         /\ [NoEntry EXCEPT !.now = now] \in Workers
<1> DEFINE no == FALSE
<1>1. no \in BOOLEAN
  OBVIOUS
<1> HIDE DEF no
<1> DEFINE entry == [key |-> NoKey, now |-> 0, mode |-> "normal", lost |-> no, problem |-> "none",
                     match |-> NoProgram]
<1>2. entry \in Workers
  BY <1>1 DEF Workers, Modes, Problems, Installed
<1>3. entry = NoEntry
  BY DEF NoEntry, no
<1> HIDE DEF entry
<1>4. [entry EXCEPT !.key = key, !.now = now] \in Workers /\ [entry EXCEPT !.now = now] \in Workers
  BY <1>2 DEF Workers
<1> QED  BY <1>3, <1>4

LEMMA NothingServed ==
  ASSUME NEW now \in Nat
  PROVE  [NoEntry EXCEPT !.now = now] \in Workers
BY NewEntry

LEMMA DrainTyped ==
  ASSUME ThreadsTyped, Drains
  PROVE  ThreadsTyped'
<1> USE DEF ThreadsTyped
<1>1. clock \in Nat /\ facts \in FactsType /\ HandedBack \in FactsType
  BY HandedBackType DEF Typed
<1>2. /\ {"entries", "callbacks"} \subseteq Bounded /\ {"boundary", "notice"} \subseteq Points
  BY DEF Bounded, Points, ServingPoints, TellingPoints
<1>3. CASE EntryBegins
  <2>1. WorkerKeeps /\ Goto("worker", "boundary") /\ Spend("entries")
    BY <1>3 DEF EntryBegins, CallbackDrained
  <2>2. facts' \in FactsType
    BY <1>1, <1>3, ObservedType DEF EntryBegins
  <2>3. worker' \in Workers
    BY <1>1, <1>3, NewEntry DEF EntryBegins
  <2> QED  BY <1>2, <2>1, <2>2, <2>3, SpendType, WorkerKeepsTyped DEF Typed
<1>4. CASE EntryGoesOn
  <2>1. WorkerKeeps /\ Goto("worker", "notice") /\ Spend("callbacks")
    BY <1>4 DEF EntryGoesOn, CallbackDrained
  <2>2. facts' \in FactsType
    BY <1>1, <1>4, ObservedType DEF EntryGoesOn
  <2>3. worker' \in Workers
    BY <1>1, <1>4, NothingServed DEF EntryGoesOn
  <2> QED  BY <1>2, <2>1, <2>2, <2>3, SpendType, WorkerKeepsTyped DEF Typed
<1>5. CASE PlaylistStops
  <2>1. WorkerKeeps /\ Goto("worker", "notice") /\ Spend("callbacks")
    BY <1>5 DEF PlaylistStops, CallbackDrained
  <2>2. facts' \in FactsType
    BY <1>1, <1>5 DEF PlaylistStops
  <2>3. worker' \in Workers
    BY <1>1, <1>5, NothingServed DEF PlaylistStops
  <2> QED  BY <1>2, <2>1, <2>2, <2>3, SpendType, WorkerKeepsTyped DEF Typed
<1> QED  BY <1>3, <1>4, <1>5 DEF Drains

LEMMA ReadModeTyped ==
  ASSUME ThreadsTyped, ReadMode
  PROVE  ThreadsTyped'
<1> USE DEF ThreadsTyped
<1> DEFINE lost == facts.lost
<1>1. worker' = [worker EXCEPT !.mode = facts.mode, !.lost = lost]
  BY DEF ReadMode
<1>2. lost \in BOOLEAN /\ facts.mode \in Modes
  BY FactsFields DEF Typed
<1> HIDE DEF lost
<1>3. worker' \in Workers
  BY <1>1, <1>2 DEF Typed, Workers
<1>4. "usable" \in Points
  BY DEF Points, ServingPoints
<1> QED  BY <1>3, <1>4, WorkerKeepsTyped DEF ReadMode, ServingKeeps, Typed

LEMMA CheckUsableTyped ==
  ASSUME ThreadsTyped, CheckUsable
  PROVE  ThreadsTyped'
<1> USE DEF ThreadsTyped
<1>1. worker' \in Workers
  BY UnusableWords DEF CheckUsable, Typed, Workers
<1>2. "resolve" \in Points
  BY DEF Points, ServingPoints
<1> QED  BY <1>1, <1>2, WorkerKeepsTyped DEF CheckUsable, ServingKeeps, Typed

LEMMA ResolveEntryTyped ==
  ASSUME ThreadsTyped, ResolveEntry
  PROVE  ThreadsTyped'
<1> USE DEF ThreadsTyped
<1>1. worker' = [worker EXCEPT !.problem = ProblemOfEntry, !.match = program]
  BY DEF ResolveEntry
<1>2. worker' \in Workers /\ worker'.problem = ProblemOfEntry /\ worker'.match = program
      /\ worker'.key = worker.key
  BY <1>1, ProblemOfEntryWords DEF Typed, Workers
<1>3. "verdict" \in Points
  BY DEF Points, ServingPoints
<1> QED  BY <1>2, <1>3, ProblemOfEntryWords, WorkerKeepsTyped DEF ResolveEntry, ServingKeeps, Typed

LEMMA WorkerReturns ==
  ASSUME ThreadsTyped, ServingKeeps, Returns, facts' \in FactsType
  PROVE  ThreadsTyped'
<1> USE DEF ThreadsTyped
<1>1. worker' \in Workers
  BY NothingServed DEF Returns, Typed, Workers
<1>2. "notice" \in Points
  BY DEF Points, TellingPoints
<1> QED  BY <1>1, <1>2, WorkerKeepsTyped DEF Returns, ServingKeeps, Typed

LEMMA StartsNothingTyped ==
  ASSUME ThreadsTyped, StartsNothing
  PROVE  ThreadsTyped'
<1> USE DEF ThreadsTyped
<1> DEFINE boundary == IF worker.problem = "unknown-entry" THEN "nothing-to-start" ELSE "not-started"
           problem == IF worker.problem = "unknown-entry" THEN "none" ELSE worker.problem
           count == facts.notDelivered + 1
<1>1. facts' = [facts EXCEPT !.notDelivered = count, !.boundary = boundary, !.problem = problem]
  BY DEF StartsNothing
<1>2. boundary \in Boundaries /\ problem \in Problems /\ count \in Nat /\ facts \in FactsType
  BY FactsFields DEF Typed, Workers, Boundaries, Problems
<1> HIDE DEF boundary, problem, count
<1>3. facts' \in FactsType
  BY <1>1, <1>2, SaysOfBoundary
<1> QED  BY <1>3, WorkerReturns DEF StartsNothing

LEMMA DeliverMatchTyped ==
  ASSUME ThreadsTyped, DeliverMatch
  PROVE  ThreadsTyped'
<1> USE DEF ThreadsTyped
<1> DEFINE entered == IF worker.mode = "normal" THEN EntersFallback ELSE facts
           unasked == Cardinality(Entry.targets \ Asked)
<1>1. worker.match \in Programs /\ worker.key \in Keys \union {NoKey}
  BY DEF MatchHasTargets, DeliverMatch, Typed, Workers
<1>2. entered \in FactsType
  BY <1>1, EntersType DEF Typed
<1>3. facts' = [entered EXCEPT !.notDelivered = @ + unasked]
  BY DEF DeliverMatch
<1> HIDE DEF entered
<1>4. Entry \in EntryType
  BY DEF MatchHasTargets, DeliverMatch
<1>5. unasked \in Nat
  BY <1>4, NodesCounted DEF EntryType
<1> HIDE DEF entered, unasked
<1>6. facts' \in FactsType
  <2>1. entered.notDelivered + unasked \in Nat
    BY <1>2, <1>5, FactsFields
  <2>2. [entered EXCEPT !.notDelivered = entered.notDelivered + unasked] \in FactsType
    BY <1>2, <2>1 DEF FactsType
  <2> QED  BY <1>3, <2>2
<1>7. "deliver" \in Points
  BY DEF Points
<1> QED  BY <1>6, <1>7, WorkerKeepsTyped DEF DeliverMatch, ServingKeeps, Typed

LEMMA DeliveriesEndTyped ==
  ASSUME ThreadsTyped, DeliveriesEnd
  PROVE  ThreadsTyped'
<1> USE DEF ThreadsTyped
<1> DEFINE missed == Cardinality(Targets \ (Authorized \union NotAskedFor))
           started == Cardinality(Authorized)
<1>1. PICK problem \in {deliveries[node].outcome : node \in Targets} :
          facts' = [facts EXCEPT !.authorized = @ + started, !.notDelivered = @ + missed,
                       !.boundary = BoundaryOf(Authorized),
                       !.problem = IF Targets = NotAskedFor THEN problem ELSE "none"]
  BY DEF DeliveriesEnd
<1>2. Targets = NotAskedFor => problem \in TargetProblems
  BY <1>1 DEF NotAskedFor
<1> DEFINE told_of == IF Targets = NotAskedFor THEN problem ELSE "none"
<1>3. told_of \in Problems
  BY <1>2 DEF Problems, PlayerWords
<1>4. started \in Nat /\ missed \in Nat
  BY NodesCounted DEF Authorized, Targets
<1>5. BoundaryOf(Authorized) \in Boundaries
  BY DEF BoundaryOf, Boundaries
<1>6. facts \in FactsType
  BY DEF Typed
<1>7. facts.authorized + started \in Nat /\ facts.notDelivered + missed \in Nat
  BY <1>4, <1>6, FactsFields
<1> DEFINE boundary == BoundaryOf(Authorized)
<1>8. facts' = [facts EXCEPT !.authorized = @ + started, !.notDelivered = @ + missed,
                       !.boundary = boundary, !.problem = told_of]
  BY <1>1
<1> HIDE DEF started, missed, told_of, boundary
<1>9. facts' \in FactsType
  BY <1>3, <1>5, <1>6, <1>7, <1>8, SaysOfBoundary DEF boundary
<1> QED  BY <1>9, WorkerReturns DEF DeliveriesEnd

LEMMA LeftToCoordinatorTyped ==
  ASSUME ThreadsTyped, LeftToCoordinator
  PROVE  ThreadsTyped'
BY WorkerReturns DEF LeftToCoordinator, ThreadsTyped, Typed
-----------------------------------------------------------------------------
(* Everything else leaves both threads alone. *)
NothingThreaded == UNCHANGED <<played, locals, told, noticeVars>>

LEMMA OutsideTyped ==
  ASSUME ThreadsTyped, NothingThreaded, clock' \in Nat, left' \in [Bounded -> Nat]
  PROVE  ThreadsTyped'
BY DEF ThreadsTyped, Typed, MatchHasTargets, Entry, At, NothingThreaded, played, locals, noticeVars

LEMMA NetworkIsOutside ==
  ASSUME Typed, Network
  PROVE  NothingThreaded /\ clock' = clock /\ left' \in [Bounded -> Nat] /\ occurrence' = occurrence
         /\ left'["entries"] = left["entries"]
<1> PICK node \in Nodes :
        DeliveryStep(node) \/ OtherAnswer(node) \/ LateRequest(node) \/ NodeRestart(node)
  BY DEF Network
<1>1. NetworkKeeps
  BY DEF DeliveryStep, OtherAnswer, LateRequest, NodeRestart
<1>2. left' = left \/ \E what \in {"others", "late", "restarts"} : Spend(what)
  BY DEF DeliveryStep, OtherAnswer, LateRequest, NodeRestart
<1>3. {"others", "late", "restarts"} \subseteq Bounded \ {"entries"} /\ "entries" \in Bounded
  BY DEF Bounded
<1> QED  BY <1>1, <1>2, <1>3, SpendType DEF NetworkKeeps, NothingThreaded, Typed

LEMMA ClockIsOutside ==
  ASSUME Typed, ClockAdvances \/ StopRequested
  PROVE  /\ NothingThreaded /\ clock' \in Nat /\ left' \in [Bounded -> Nat] /\ occurrence' = occurrence
         /\ left'["entries"] = left["entries"] /\ UNCHANGED deliveryVars
<1>1. {"stops"} \subseteq Bounded \ {"entries"} /\ "entries" \in Bounded
  BY DEF Bounded
<1> QED  BY <1>1, SpendType DEF ClockAdvances, StopRequested, NothingThreaded, Typed

LEMMA ThreadsNext ==
  ASSUME ThreadsTyped, [Next]_vars
  PROVE  ThreadsTyped'
<1>1. CASE ClockAdvances \/ StopRequested
  BY <1>1, ClockIsOutside, OutsideTyped DEF ThreadsTyped
<1>2. CASE Tick
  BY <1>2, ThreadNames, TickTyped, RefreshTyped, PublishTyped DEF Tick, Tells
<1>3. CASE Drains
  BY <1>3, DrainTyped
<1>4. CASE Serves
  BY <1>4, ThreadNames, ReadModeTyped, CheckUsableTyped, ResolveEntryTyped, LeftToCoordinatorTyped,
     StartsNothingTyped, DeliverMatchTyped, DeliveriesEndTyped, RefreshTyped, PublishTyped
     DEF Serves, Tells
<1>5. CASE Network
  BY <1>5, NetworkIsOutside, OutsideTyped DEF ThreadsTyped, Typed
<1>6. CASE UNCHANGED vars
  BY <1>6, OutsideTyped DEF vars, bounds, NothingThreaded, ThreadsTyped, Typed
<1> QED  BY <1>1, <1>2, <1>3, <1>4, <1>5, <1>6 DEF Next

(* Both threads of the executor keep their types, and the worker delivers  *)
(* no match that has nobody to ask (onEntryBoundary()).                    *)
THEOREM DeliveryThreadsTyped == Spec => []ThreadsTyped
<1>1. ThreadsTyped /\ [Next]_vars => ThreadsTyped'
  BY ThreadsNext
<1> QED  BY ThreadsInit, <1>1, PTL DEF Spec
-----------------------------------------------------------------------------
(* The deliveries and the nodes.  What is said of a node is said of its    *)
(* delivery d, of the requests s that may still reach it, and of what it   *)
(* knows, n.                                                               *)
Occurrences == 1..MaxEntries

DeliveryPoints == {"none", "ask", "wait", "pause", "hand", "done"}

Deliveries ==
    [at : DeliveryPoints, occurrence : Nat, attempts : 0..TransientAttemptLimit,
     limitedOnce : BOOLEAN, resent : BOOLEAN, outcome : Outcomes]

Requests ==
    {r \in [execution : Occurrences, occurrence : Occurrences] : r.execution = r.occurrence}

Records ==
    [program : BOOLEAN, processed : SUBSET Occurrences, started : SUBSET Occurrences,
     refused : SUBSET Occurrences, cued : [Occurrences -> Nat]]

(* A delivery has an occurrence, and an outcome when it is done.           *)
DeliverySound(d) ==
    /\ d \in Deliveries
    /\ d.at # "none" => d.occurrence \in Occurrences
    /\ d.at # "done" => d.outcome = "none"

(* A cue started is known as processed, for good.                          *)
RecordSound(n) ==
    /\ n \in Records
    /\ \A o \in Occurrences :
          /\ n.cued[o] <= 1
          /\ n.cued[o] = 1 => o \in n.processed
          /\ o \in n.started => n.cued[o] = 1

TrueOf(d, n) == d.outcome = "authorized" => n.cued[d.occurrence] = 1

NodeSound(d, s, n) == DeliverySound(d) /\ s \subseteq Requests /\ RecordSound(n) /\ TrueOf(d, n)

NodesSound ==
    /\ deliveries \in [Nodes -> Deliveries]
    /\ sent \in [Nodes -> SUBSET Requests]
    /\ nodes \in [Nodes -> Records]
    /\ \A node \in Nodes : NodeSound(deliveries[node], sent[node], nodes[node])

(* There is an occurrence left for each entry that may still begin, or is  *)
(* on its way to its delivery.                                             *)
OccurrencesLast ==
    /\ occurrence \in Nat
    /\ occurrence + left["entries"] + (IF at["worker"] \in ServingPoints THEN 1 ELSE 0) <= MaxEntries
-----------------------------------------------------------------------------
LEMMA OneNode ==
  ASSUME NodesSound, NEW node \in Nodes, NEW d, NEW s, NEW n, NodeSound(d, s, n),
         deliveries' = [deliveries EXCEPT ![node] = d],
         sent' = [sent EXCEPT ![node] = s],
         nodes' = [nodes EXCEPT ![node] = n]
  PROVE  NodesSound'
<1>1. d \in Deliveries /\ s \subseteq Requests /\ n \in Records
  BY DEF NodeSound, DeliverySound, RecordSound
<1>2. /\ deliveries' \in [Nodes -> Deliveries] /\ sent' \in [Nodes -> SUBSET Requests]
      /\ nodes' \in [Nodes -> Records]
  BY <1>1 DEF NodesSound
<1>3. ASSUME NEW other \in Nodes
      PROVE  NodeSound(deliveries'[other], sent'[other], nodes'[other])
  <2>1. CASE other = node
    BY <2>1 DEF NodesSound
  <2>2. CASE other # node
    BY <2>2 DEF NodesSound
  <2> QED  BY <2>1, <2>2
<1> QED  BY <1>2, <1>3 DEF NodesSound

LEMMA Same ==
  ASSUME NodesSound, NEW node \in Nodes
  PROVE  /\ deliveries = [deliveries EXCEPT ![node] = deliveries[node]]
         /\ sent = [sent EXCEPT ![node] = sent[node]]
         /\ nodes = [nodes EXCEPT ![node] = nodes[node]]
BY DEF NodesSound

LEMMA OneDelivery ==
  ASSUME NodesSound, NEW node \in Nodes, NEW d, NodeSound(d, sent[node], nodes[node]),
         deliveries' = [deliveries EXCEPT ![node] = d], UNCHANGED <<sent, nodes>>
  PROVE  NodesSound'
<1> DEFINE s == sent[node]
           n == nodes[node]
<1>1. sent' = [sent EXCEPT ![node] = s]
  BY Same
<1>2. nodes' = [nodes EXCEPT ![node] = n]
  BY Same
<1>3. NodeSound(d, s, n)
  OBVIOUS
<1> HIDE DEF s, n
<1> QED  BY <1>1, <1>2, <1>3, OneNode

(* What becomes of a delivery that gets an answer.                         *)
Follows(d, r, word) ==
    /\ DeliverySound(r)
    /\ r.occurrence = d.occurrence
    /\ r.at # "none"
    /\ r.outcome \in {"none", word}

Waits(d) == DeliverySound(d) /\ d.at = "wait"

LEMMA EndsFollows ==
  ASSUME NEW d, Waits(d), NEW word \in Outcomes
  PROVE  Follows(d, Ends(d, word), word)
BY DEF Waits, Ends, Follows, DeliverySound, Deliveries, DeliveryPoints

LEMMA TransientFollows ==
  ASSUME NEW d, Waits(d), NEW word \in Outcomes
  PROVE  Follows(d, AfterTransient(d, word), word)
<1>1. Follows(d, [d EXCEPT !.at = "pause"], word)
  BY DEF Waits, Follows, DeliverySound, Deliveries, DeliveryPoints
<1> QED  BY <1>1, EndsFollows DEF AfterTransient

LEMMA RateLimitFollows ==
  ASSUME NEW d, Waits(d), NEW word \in Outcomes
  PROVE  Follows(d, AfterRateLimit(d, word), word)
<1> DEFINE yes == TRUE
<1>1. yes \in BOOLEAN
  OBVIOUS
<1> HIDE DEF yes
<1>2. Follows(d, [d EXCEPT !.at = "pause", !.limitedOnce = yes], word)
  BY <1>1 DEF Waits, Follows, DeliverySound, Deliveries, DeliveryPoints
<1> QED  BY <1>2, EndsFollows DEF AfterRateLimit, yes

LEMMA ProgramMissingFollows ==
  ASSUME NEW d, Waits(d), NEW word \in Outcomes
  PROVE  Follows(d, AfterProgramMissing(d, word), word)
<1>1. Follows(d, [d EXCEPT !.at = "hand"], word)
  BY DEF Waits, Follows, DeliverySound, Deliveries, DeliveryPoints
<1> QED  BY <1>1, EndsFollows DEF AfterProgramMissing

LEMMA WordFollows ==
  ASSUME NEW d, Waits(d), NEW word \in Outcomes
  PROVE  Follows(d, AfterWord(d, word), word)
BY EndsFollows, TransientFollows, RateLimitFollows, ProgramMissingFollows DEF AfterWord
-----------------------------------------------------------------------------
(* The node. *)
LEMMA CueStarts ==
  ASSUME NEW known, RecordSound(known), NEW r \in Requests, r.execution \notin known.processed
  PROVE  /\ RecordSound(Started(known, r))
         /\ Started(known, r).cued[r.occurrence] = 1
         /\ \A o \in Occurrences : known.cued[o] = 1 => Started(known, r).cued[o] = 1
<1> DEFINE execution == r.execution
           cued == [known.cued EXCEPT ![r.occurrence] = @ + 1]
           later == Started(known, r)
<1>1. known \in Records /\ execution = r.occurrence /\ r.occurrence \in Occurrences
  BY DEF Requests, RecordSound
<1>2. known.cued[r.occurrence] = 0 /\ cued \in [Occurrences -> Nat]
  BY <1>1 DEF RecordSound, Records
<1>3. later = [known EXCEPT !.processed = @ \union {execution}, !.started = @ \union {execution},
                            !.cued = cued]
  BY DEF Started
<1> HIDE DEF cued, execution, later
<1>4. /\ later \in Records
      /\ later.processed = known.processed \union {r.occurrence}
      /\ later.started = known.started \union {r.occurrence}
      /\ later.cued = cued
  BY <1>1, <1>2, <1>3 DEF Records
<1>5. \A o \in Occurrences : later.cued[o] = IF o = r.occurrence THEN 1 ELSE known.cued[o]
  BY <1>1, <1>2, <1>4 DEF Records, cued
<1>6. RecordSound(later)
  BY <1>4, <1>5 DEF RecordSound
<1>7. later.cued[r.occurrence] = 1 /\ \A o \in Occurrences : known.cued[o] = 1 => later.cued[o] = 1
  BY <1>1, <1>5
<1> QED  BY <1>6, <1>7 DEF later

LEMMA CueRefused ==
  ASSUME NEW known, RecordSound(known), NEW r \in Requests
  PROVE  RecordSound(Refused(known, r)) /\ Refused(known, r).cued = known.cued
<1>1. known \in Records /\ r.execution \in Occurrences
  BY DEF Requests, RecordSound
<1>2. /\ Refused(known, r) \in Records
      /\ Refused(known, r).processed = known.processed \union {r.execution}
      /\ Refused(known, r).started = known.started
      /\ Refused(known, r).cued = known.cued
  BY <1>1 DEF Records, Refused
<1> QED  BY <1>2 DEF RecordSound

LEMMA NodeForgets ==
  ASSUME NEW known, RecordSound(known)
  PROVE  RecordSound(Forgetful(known)) /\ Forgetful(known).cued = known.cued
<1>1. /\ Forgetful(known) \in Records
      /\ Forgetful(known).processed = known.processed
      /\ Forgetful(known).started = {}
      /\ Forgetful(known).cued = known.cued
  BY DEF Records, Forgetful, RecordSound
<1> QED  BY <1>1 DEF RecordSound

(* However a node handles a request, what was true of a delivery is; and   *)
(* one that authorizes it has started its cue.                             *)
LEMMA HandlesSound ==
  ASSUME NodesSound, NEW node \in Nodes, NEW r \in Requests, NEW word, Handles(node, r, word)
  PROVE  \E known : /\ nodes' = [nodes EXCEPT ![node] = known]
                    /\ RecordSound(known)
                    /\ \A o \in Occurrences : nodes[node].cued[o] = 1 => known.cued[o] = 1
                    /\ word = "authorized" => known.cued[r.occurrence] = 1
<1> DEFINE known == nodes[node]
<1>1. RecordSound(known) /\ r.execution \notin known.processed
  BY DEF NodesSound, NodeSound, Handles, Processed
<1>2. CASE Becomes(node, Started(known, r))
  BY <1>1, <1>2, CueStarts DEF Becomes
<1>3. CASE word = "refused" /\ Becomes(node, Refused(known, r))
  BY <1>1, <1>3, CueRefused DEF Becomes
<1>4. CASE word \in Unprocessed(node) /\ UNCHANGED nodes
  <2>1. nodes' = [nodes EXCEPT ![node] = known] /\ word # "authorized"
    BY <1>4, Same DEF Unprocessed
  <2> QED  BY <1>1, <2>1
<1> QED  BY <1>2, <1>3, <1>4 DEF Handles

LEMMA RequestIsOne ==
  ASSUME NEW d, DeliverySound(d), d.at # "none"
  PROVE  RequestOf(d) \in Requests /\ RequestOf(d).occurrence = d.occurrence
BY DEF DeliverySound, RequestOf, ExecutionId, Requests

LEMMA AskingSound ==
  ASSUME NEW d, DeliverySound(d), d.at = "ask"
  PROVE  DeliverySound(Asking(d)) /\ Asking(d).at = "wait" /\ Asking(d).outcome = "none"
<1>1. Counted(d.attempts) \in 0..TransientAttemptLimit
  BY LimitAssumption DEF Counted, DeliverySound, Deliveries
<1> DEFINE attempts == Counted(d.attempts)
<1> HIDE DEF attempts
<1>2. DeliverySound([d EXCEPT !.at = "wait", !.attempts = attempts])
      /\ [d EXCEPT !.at = "wait", !.attempts = attempts].at = "wait"
      /\ [d EXCEPT !.at = "wait", !.attempts = attempts].outcome = "none"
  BY <1>1 DEF DeliverySound, Deliveries, DeliveryPoints, attempts
<1>3. Asking(d) = [d EXCEPT !.at = "wait", !.attempts = attempts]
  BY DEF Asking, attempts
<1> QED  BY <1>2, <1>3

(* A delivery that ends without an answer, or goes on to ask.              *)
LEMMA UnansweredSound ==
  ASSUME NEW d, DeliverySound(d), d.at \in {"ask", "pause", "hand"}
  PROVE  /\ DeliverySound(Ends(d, "cutoff-passed")) /\ Ends(d, "cutoff-passed").outcome # "authorized"
         /\ DeliverySound(Ends(d, "plugin-stopping")) /\ Ends(d, "plugin-stopping").outcome # "authorized"
         /\ DeliverySound([d EXCEPT !.at = "ask"]) /\ [d EXCEPT !.at = "ask"].outcome = "none"
         /\ Ends(d, "cutoff-passed").at # "none" /\ Ends(d, "plugin-stopping").at # "none"
         /\ [d EXCEPT !.at = "ask"].at # "none"
BY DEF DeliverySound, Deliveries, DeliveryPoints, Ends, Outcomes

LEMMA HandedSound ==
  ASSUME NEW d, DeliverySound(d), d.at = "hand"
  PROVE  /\ DeliverySound([d EXCEPT !.at = "ask", !.resent = TRUE])
         /\ [d EXCEPT !.at = "ask", !.resent = TRUE].outcome = "none"
         /\ [d EXCEPT !.at = "ask", !.resent = TRUE].at = "ask"
<1> DEFINE yes == TRUE
<1>1. yes \in BOOLEAN
  OBVIOUS
<1> HIDE DEF yes
<1>2. /\ DeliverySound([d EXCEPT !.at = "ask", !.resent = yes])
      /\ [d EXCEPT !.at = "ask", !.resent = yes].outcome = "none"
      /\ [d EXCEPT !.at = "ask", !.resent = yes].at = "ask"
  BY <1>1 DEF DeliverySound, Deliveries, DeliveryPoints
<1> QED  BY <1>2 DEF yes

LEMMA ProgramTaken ==
  ASSUME NEW known, RecordSound(known), NEW held \in BOOLEAN
  PROVE  RecordSound([known EXCEPT !.program = held]) /\ [known EXCEPT !.program = held].cued = known.cued
<1>1. /\ [known EXCEPT !.program = held] \in Records
      /\ [known EXCEPT !.program = held].processed = known.processed
      /\ [known EXCEPT !.program = held].started = known.started
      /\ [known EXCEPT !.program = held].cued = known.cued
  BY DEF Records, RecordSound
<1> QED  BY <1>1 DEF RecordSound
-----------------------------------------------------------------------------
(* The steps of the network, for each node. *)
LEMMA AskSound ==
  ASSUME NodesSound, NEW node \in Nodes, Ask(node)
  PROVE  NodesSound'
<1> DEFINE d == deliveries[node]
           r == RequestOf(Asking(d))
<1>1. NodeSound(d, sent[node], nodes[node]) /\ d.at = "ask"
  BY DEF NodesSound, Ask, DeliveryAt
<1>2. DeliverySound(Asking(d)) /\ Asking(d).at = "wait" /\ Asking(d).outcome = "none"
  BY <1>1, AskingSound DEF NodeSound
<1>3. r \in Requests
  BY <1>2, RequestIsOne
<1>4. NodeSound(Asking(d), sent[node] \union {r}, nodes[node])
  BY <1>1, <1>2, <1>3 DEF NodeSound, TrueOf
<1> QED  BY <1>4, OneNode, Same DEF Ask, Delivers

LEMMA UnansweredStep ==
  ASSUME NodesSound, NEW node \in Nodes, CutOff(node) \/ PauseEnds(node) \/ StopsInPause(node)
  PROVE  NodesSound'
<1> DEFINE d == deliveries[node]
<1>1. NodeSound(d, sent[node], nodes[node]) /\ d.at \in {"ask", "pause", "hand"}
  BY DEF NodesSound, CutOff, PauseEnds, StopsInPause, DeliveryAt
<1>2. PICK e : /\ deliveries' = [deliveries EXCEPT ![node] = e] /\ UNCHANGED <<sent, nodes>>
               /\ e \in {Ends(d, "cutoff-passed"), Ends(d, "plugin-stopping"), [d EXCEPT !.at = "ask"]}
  BY DEF CutOff, PauseEnds, StopsInPause, Delivers
<1>3. NodeSound(e, sent[node], nodes[node])
  BY <1>1, <1>2, UnansweredSound DEF NodeSound, TrueOf
<1> QED  BY <1>2, <1>3, OneDelivery

LEMMA HandProgramSound ==
  ASSUME NodesSound, NEW node \in Nodes, HandProgram(node)
  PROVE  NodesSound'
<1> DEFINE d == deliveries[node]
           e == [d EXCEPT !.at = "ask", !.resent = TRUE]
<1>1. NodeSound(d, sent[node], nodes[node]) /\ d.at = "hand"
  BY DEF NodesSound, HandProgram, DeliveryAt
<1>2. PICK taken \in BOOLEAN : nodes' = [nodes EXCEPT ![node].program = @ \/ taken]
  BY DEF HandProgram
<1> DEFINE known == nodes[node]
           held == known.program \/ taken
<1>3. nodes' = [nodes EXCEPT ![node] = [known EXCEPT !.program = held]] /\ held \in BOOLEAN
  BY <1>2, Zenon
<1>4. deliveries' = [deliveries EXCEPT ![node] = e]
  BY Zenon DEF HandProgram, Delivers
<1>5. DeliverySound(e) /\ e.outcome = "none"
  BY <1>1, HandedSound DEF NodeSound
<1> HIDE DEF d, e, known, held
<1>6. RecordSound([known EXCEPT !.program = held])
  BY <1>1, <1>3, ProgramTaken DEF NodeSound, known
<1>7. NodeSound(e, sent[node], [known EXCEPT !.program = held])
  BY <1>1, <1>5, <1>6 DEF NodeSound, TrueOf
<1> QED  BY <1>3, <1>4, <1>7, OneNode, Same DEF HandProgram

LEMMA AnsweredSound ==
  ASSUME NodesSound, NEW node \in Nodes, NEW word \in Outcomes, Answered(node, word)
  PROVE  NodesSound'
<1> DEFINE d == deliveries[node]
           r == RequestOf(d)
           e == AfterWord(d, word)
<1>1. NodeSound(d, sent[node], nodes[node]) /\ Waits(d)
  BY DEF NodesSound, NodeSound, Answered, DeliveryAt, Waits
<1>2. r \in Requests /\ r.occurrence = d.occurrence
  BY <1>1, RequestIsOne DEF Waits
<1>3. PICK known : /\ nodes' = [nodes EXCEPT ![node] = known]
                   /\ RecordSound(known)
                   /\ word = "authorized" => known.cued[r.occurrence] = 1
  BY <1>2, HandlesSound DEF Answered
<1>4. Follows(d, e, word)
  BY <1>1, WordFollows
<1>5. NodeSound(e, sent[node], known)
  BY <1>1, <1>2, <1>3, <1>4 DEF NodeSound, TrueOf, Follows
<1> QED  BY <1>3, <1>5, OneNode, Same DEF Answered, Delivers

LEMMA ReplayedSound ==
  ASSUME NodesSound, NEW node \in Nodes, Replayed(node)
  PROVE  NodesSound'
<1> DEFINE d == deliveries[node]
           r == RequestOf(d)
           first == FirstOutcome(node, r)
           e == AfterReplay(d, first)
<1>1. NodeSound(d, sent[node], nodes[node]) /\ Waits(d)
  BY DEF NodesSound, NodeSound, Replayed, DeliveryAt, Waits
<1>2. r \in Requests /\ r.occurrence = d.occurrence
  BY <1>1, RequestIsOne DEF Waits
<1>3. first \in Outcomes
  BY DEF FirstOutcome, Outcomes
<1>4. first = "authorized" => nodes[node].cued[r.occurrence] = 1
  BY <1>1, <1>2 DEF FirstOutcome, NodeSound, RecordSound, Requests
<1>5. Follows(d, e, first)
  BY <1>1, <1>3, EndsFollows DEF AfterReplay
<1>6. NodeSound(e, sent[node], nodes[node])
  BY <1>1, <1>2, <1>4, <1>5 DEF NodeSound, TrueOf, Follows
<1> QED  BY <1>6, OneDelivery DEF Replayed, Delivers

LEMMA AnsweredOtherwiseSound ==
  ASSUME NodesSound, NEW node \in Nodes, NEW word \in Outcomes, AnsweredOtherwise(node, word)
  PROVE  NodesSound'
<1> DEFINE d == deliveries[node]
<1>1. NodeSound(d, sent[node], nodes[node]) /\ Waits(d) /\ word # "authorized"
  BY DEF NodesSound, NodeSound, AnsweredOtherwise, DeliveryAt, Waits
<1>2. PICK e \in {AfterWord(d, word), AfterTransient(d, word)} :
          deliveries' = [deliveries EXCEPT ![node] = e] /\ UNCHANGED <<sent, nodes>>
  BY DEF AnsweredOtherwise, Delivers
<1>3. Follows(d, e, word)
  BY <1>1, <1>2, WordFollows, TransientFollows
<1>4. NodeSound(e, sent[node], nodes[node])
  BY <1>1, <1>3 DEF NodeSound, TrueOf, Follows
<1> QED  BY <1>2, <1>4, OneDelivery

LEMMA UnheardSound ==
  ASSUME NodesSound, NEW node \in Nodes, HandlesUnheard(node) \/ NodeRestarts(node)
  PROVE  NodesSound'
<1> DEFINE d == deliveries[node]
<1>1. NodeSound(d, sent[node], nodes[node])
  BY DEF NodesSound
<1>2. UNCHANGED <<deliveries, sent>>
  BY DEF HandlesUnheard, NodeRestarts
<1>3. CASE HandlesUnheard(node)
  <2>1. PICK r \in sent[node], word \in Outcomes : Handles(node, r, word)
    BY <1>3 DEF HandlesUnheard
  <2>2. r \in Requests
    BY <1>1 DEF NodeSound
  <2>3. PICK known : /\ nodes' = [nodes EXCEPT ![node] = known]
                     /\ RecordSound(known)
                     /\ \A o \in Occurrences : nodes[node].cued[o] = 1 => known.cued[o] = 1
    BY <2>1, <2>2, HandlesSound
  <2>4. TrueOf(d, known)
    BY <1>1, <2>3 DEF TrueOf, NodeSound, DeliverySound
  <2> QED  BY <1>1, <1>2, <2>3, <2>4, OneNode, Same DEF NodeSound
<1>4. CASE NodeRestarts(node)
  <2>1. nodes' = [nodes EXCEPT ![node] = Forgetful(nodes[node])]
    BY <1>4 DEF NodeRestarts, Becomes
  <2>2. NodeSound(d, sent[node], Forgetful(nodes[node]))
    BY <1>1, NodeForgets DEF NodeSound, TrueOf
  <2> QED  BY <1>2, <2>1, <2>2, OneNode, Same
<1> QED  BY <1>3, <1>4

LEMMA NetworkSound ==
  ASSUME NodesSound, Network
  PROVE  NodesSound'
BY AskSound, UnansweredStep, HandProgramSound, AnsweredSound, ReplayedSound, AnsweredOtherwiseSound,
   UnheardSound DEF Network, DeliveryStep, OtherAnswer, LateRequest, NodeRestart
-----------------------------------------------------------------------------
(* A match's deliveries.  EXCEPT and the constants FALSE of a delivery are *)
(* kept apart by naming the latter.                                        *)
LEMMA FirstDelivery ==
  ASSUME NEW o \in Occurrences, NEW problem \in TargetProblems
  PROVE  /\ DeliverySound(Delivery(o)) /\ Delivery(o).outcome = "none" /\ Delivery(o).at = "ask"
         /\ DeliverySound(NotAsked(o, problem)) /\ NotAsked(o, problem).outcome = problem
         /\ NotAsked(o, problem).at = "done"
         /\ DeliverySound(NoDelivery) /\ NoDelivery.outcome = "none" /\ NoDelivery.at = "none"
<1> DEFINE no == FALSE
           d == [at |-> "none", occurrence |-> 0, attempts |-> 0, limitedOnce |-> no,
                 resent |-> no, outcome |-> "none"]
<1>1. no \in BOOLEAN
  OBVIOUS
<1>2. d = NoDelivery
  BY DEF NoDelivery
<1> HIDE DEF no
<1>3. "none" \in Outcomes /\ problem \in Outcomes /\ o \in Nat
  BY DEF Outcomes, Occurrences
<1>4. d \in Deliveries /\ d.at = "none" /\ d.outcome = "none"
  BY <1>1, <1>3, LimitAssumption DEF Deliveries, DeliveryPoints
<1> HIDE DEF d
<1> DEFINE asked == [d EXCEPT !.at = "ask", !.occurrence = o]
           not == [d EXCEPT !.at = "done", !.occurrence = o, !.outcome = problem]
<1>5. /\ asked \in Deliveries /\ asked.at = "ask" /\ asked.occurrence = o /\ asked.outcome = "none"
      /\ not \in Deliveries /\ not.at = "done" /\ not.occurrence = o /\ not.outcome = problem
  BY <1>3, <1>4 DEF Deliveries, DeliveryPoints
<1>6. asked = Delivery(o) /\ not = NotAsked(o, problem)
  BY <1>2 DEF Delivery, NotAsked
<1> HIDE DEF asked, not
<1> QED  BY <1>2, <1>4, <1>5, <1>6 DEF DeliverySound

LEMMA DeliveryToSound ==
  ASSUME OccurrencesLast, DeliverMatch, left' = left, left["entries"] \in Nat, NEW node
  PROVE  /\ DeliverySound(DeliveryTo(node)) /\ DeliveryTo(node).outcome # "authorized"
         /\ node \in Entry.targets => DeliveryTo(node).at # "none"
<1>1. occurrence' = occurrence + 1 /\ at["worker"] \in ServingPoints
  BY DEF DeliverMatch, At, ServingPoints
<1>2. occurrence' \in Occurrences
  BY <1>1, DeliveryAssumption DEF OccurrencesLast, Occurrences
<1>3. TargetProblem(Entry, node) \in TargetProblems
  BY DEF TargetProblem, TargetProblems
<1>4. node \in Asked => node \in Entry.targets
  BY DEF Asked, Askable
<1>5. TargetProblem(Entry, node) # "authorized"
  BY DEF TargetProblem
<1> QED  BY <1>2, <1>3, <1>4, <1>5, FirstDelivery DEF DeliveryTo

LEMMA DeliverMatchSound ==
  ASSUME ThreadsTyped, NodesSound, OccurrencesLast, DeliverMatch
  PROVE  NodesSound'
<1>1. left' = left /\ left["entries"] \in Nat /\ UNCHANGED <<sent, nodes>>
  BY DEF DeliverMatch, ServingKeeps, ThreadsTyped, Typed, Bounded
<1>2. \A node \in Nodes : DeliverySound(DeliveryTo(node)) /\ DeliveryTo(node).outcome # "authorized"
  BY <1>1, DeliveryToSound
<1>3. deliveries' = [node \in Nodes |-> DeliveryTo(node)]
  BY DEF DeliverMatch
<1>4. deliveries' \in [Nodes -> Deliveries] /\ \A node \in Nodes : deliveries'[node] = DeliveryTo(node)
  BY <1>2, <1>3 DEF DeliverySound
<1>5. ASSUME NEW node \in Nodes
      PROVE  NodeSound(deliveries'[node], sent'[node], nodes'[node])
  BY <1>1, <1>2, <1>4 DEF NodesSound, NodeSound, TrueOf
<1> QED  BY <1>1, <1>4, <1>5 DEF NodesSound

LEMMA NodesInit == Init => NodesSound /\ OccurrencesLast
<1> SUFFICES ASSUME Init
             PROVE  NodesSound /\ OccurrencesLast
  OBVIOUS
<1>1. PICK start \in Starts : nodes = NodesAt(start) /\ left = start.budget
  BY DEF Init
<1>2. DeliverySound(NoDelivery) /\ NoDelivery.outcome = "none"
  <2> DEFINE no == FALSE
             d == [at |-> "none", occurrence |-> 0, attempts |-> 0, limitedOnce |-> no,
                   resent |-> no, outcome |-> "none"]
  <2>1. no \in BOOLEAN /\ d = NoDelivery
    BY DEF NoDelivery
  <2> HIDE DEF no
  <2>2. d \in Deliveries /\ d.at = "none" /\ d.outcome = "none"
    BY <2>1, LimitAssumption DEF Deliveries, DeliveryPoints, Outcomes
  <2> HIDE DEF d
  <2> QED  BY <2>1, <2>2 DEF DeliverySound
<1> DEFINE cues == [o \in 1..MaxEntries |-> 0]
           holds(node) == node \in start.holders
           fresh(node) == [program |-> holds(node), processed |-> {}, started |-> {}, refused |-> {},
                           cued |-> cues]
<1>3. nodes = [node \in Nodes |-> fresh(node)]
  BY <1>1 DEF NodesAt
<1>4. cues \in [Occurrences -> Nat] /\ \A o \in Occurrences : cues[o] = 0
  BY DEF Occurrences
<1>5. \A node : holds(node) \in BOOLEAN
  OBVIOUS
<1> HIDE DEF cues, holds
<1>6. \A node \in Nodes : RecordSound(fresh(node))
  <2> TAKE node \in Nodes
  <2> DEFINE f == fresh(node)
  <2>1. f \in Records /\ f.started = {} /\ f.cued = cues
    BY <1>4, <1>5 DEF Records
  <2> HIDE DEF f
  <2>2. RecordSound(f)
    BY <1>4, <2>1 DEF RecordSound
  <2> QED  BY <2>2 DEF f
<1> HIDE DEF fresh
<1>7. deliveries = [node \in Nodes |-> NoDelivery] /\ sent = [node \in Nodes |-> {}]
  BY DEF Init
<1>8. NodesSound
  BY <1>2, <1>3, <1>6, <1>7 DEF NodesSound, NodeSound, TrueOf, DeliverySound, RecordSound
<1>9. left["entries"] \in Nat /\ left["entries"] <= MaxEntries /\ occurrence = 0 /\ at["worker"] = "idle"
  BY <1>1, DeliveryAssumption DEF Init, Bounded, Threads
<1> QED  BY <1>8, <1>9 DEF OccurrencesLast, ServingPoints
-----------------------------------------------------------------------------
LEMMA TellsKeeps ==
  ASSUME Typed, NEW thread \in Threads, Tells(thread)
  PROVE  /\ UNCHANGED <<facts, worker, occurrence, deliveryVars>>
         /\ left' \in [Bounded -> Nat] /\ left'["entries"] = left["entries"]
         /\ at' \in [Threads -> Points]
         /\ at'[thread] \in TellingPoints \union {"idle"}
         /\ at[thread] \in TellingPoints
         /\ \A other \in Threads \ {thread} : at'[other] = at[other]
<1>1. "writes" \in Bounded \ {"entries"} /\ "entries" \in Bounded
  BY DEF Bounded
<1>2. \E point \in TellingPoints \union {"idle"} : Goto(thread, point)
  BY DEF Tells, RefreshNotice, PublishStatus, TellingPoints
<1>3. left' = left \/ Spend("writes")
  BY DEF Tells, RefreshNotice, PublishStatus, bounds
<1>4. UNCHANGED <<facts, worker, occurrence, deliveryVars>>
  BY DEF Tells, RefreshNotice, PublishStatus, played
<1>5. at[thread] \in TellingPoints
  BY DEF Tells, RefreshNotice, PublishStatus, At, TellingPoints
<1> QED  BY <1>1, <1>2, <1>3, <1>4, <1>5, SpendType, GotoType DEF Typed, Points

(* The tick's own steps, and what all of them leave alone.                 *)
TickMoves ==
    TickProbes \/ TickBetweenProbes \/ TickRests \/ TickHandsBack \/ TickSettles
      \/ FetchBegins \/ Installs \/ TickEnds

LEMMA TickMovesKeep ==
  ASSUME Typed, TickMoves
  PROVE  /\ TickKeeps
         /\ left' \in [Bounded -> Nat] /\ left'["entries"] = left["entries"]
         /\ at'["worker"] = at["worker"]
         /\ at["tick"] \in TickPoints \union {"idle"}
         /\ at'["tick"] \in TickPoints \union {"idle", "notice"}
<1>1. {"ticks", "installs"} \subseteq Bounded \ {"entries"} /\ "entries" \in Bounded
  BY DEF Bounded
<1>2. TickKeeps
  BY DEF TickMoves, TickProbes, TickBetweenProbes, TickRests, TickHandsBack, TickSettles, FetchBegins,
         Installs, TickEnds
<1>3. left' = left \/ \E what \in {"ticks", "installs"} : Spend(what)
  BY DEF TickMoves, TickProbes, TickBetweenProbes, TickRests, TickHandsBack, TickSettles, FetchBegins,
         Installs, TickEnds
<1>4. \E point \in TickPoints \union {"idle", "notice"} : Goto("tick", point)
  BY DEF TickMoves, TickProbes, TickBetweenProbes, TickRests, TickHandsBack, TickSettles, FetchBegins,
         Installs, TickEnds, TickPoints
<1>5. at["tick"] \in TickPoints \union {"idle"}
  BY DEF TickMoves, TickProbes, TickBetweenProbes, TickRests, TickHandsBack, TickSettles, FetchBegins,
         Installs, TickEnds, TickPoints, At
<1> QED  BY <1>1, <1>2, <1>3, <1>4, <1>5, SpendType, GotoType, ThreadNames
         DEF Typed, Points, TellingPoints
-----------------------------------------------------------------------------
(* A step of the worker, and how many occurrences it leaves.               *)
LEMMA WorkerGoes ==
  ASSUME Typed, NEW point \in Points, Goto("worker", point)
  PROVE  at'["worker"] = point /\ at'["tick"] = at["tick"]
BY GotoType, ThreadNames DEF Typed

ServingMoves ==
    ReadMode \/ CheckUsable \/ ResolveEntry \/ LeftToCoordinator \/ StartsNothing \/ DeliverMatch
      \/ DeliveriesEnd

LEMMA ServingMovesKeep ==
  ASSUME Typed, ServingMoves
  PROVE  /\ ServingKeeps
         /\ at'["tick"] = at["tick"]
         /\ at["worker"] \in ServingPoints \union {"deliver"}
         /\ at'["worker"] \in ServingPoints => at["worker"] \in ServingPoints
         /\ at'["worker"] \in ServingPoints \union {"deliver", "notice"}
         /\ at'["worker"] = "deliver" => DeliverMatch
         /\ DeliverMatch \/ UNCHANGED <<occurrence, deliveryVars>>
<1>1. ServingKeeps /\ (DeliverMatch \/ UNCHANGED <<occurrence, deliveryVars>>)
  BY DEF ServingMoves, ReadMode, CheckUsable, ResolveEntry, LeftToCoordinator, StartsNothing,
         DeliverMatch, DeliveriesEnd
<1>2. CASE ReadMode \/ CheckUsable \/ ResolveEntry
  <2>1. at["worker"] \in ServingPoints /\ \E point \in ServingPoints : Goto("worker", point)
    BY <1>2 DEF ReadMode, CheckUsable, ResolveEntry, ServingPoints, At
  <2> QED  BY <1>1, <2>1, WorkerGoes DEF Points, ServingPoints
<1>3. CASE LeftToCoordinator \/ StartsNothing \/ DeliveriesEnd
  <2>1. at["worker"] \in ServingPoints \union {"deliver"} /\ Goto("worker", "notice")
    BY <1>3 DEF LeftToCoordinator, StartsNothing, DeliveriesEnd, Returns, ServingPoints, At
  <2>2. at'["worker"] = "notice" /\ at'["tick"] = at["tick"]
    BY <2>1, WorkerGoes DEF Points, TellingPoints
  <2> QED  BY <1>1, <2>1, <2>2 DEF ServingPoints
<1>4. CASE DeliverMatch
  <2>1. at["worker"] \in ServingPoints /\ Goto("worker", "deliver")
    BY <1>4 DEF DeliverMatch, ServingPoints, At
  <2>2. at'["worker"] = "deliver" /\ at'["tick"] = at["tick"]
    BY <2>1, WorkerGoes DEF Points
  <2> QED  BY <1>1, <1>4, <2>1, <2>2 DEF ServingPoints
<1> QED  BY <1>2, <1>3, <1>4 DEF ServingMoves

LEMMA DrainsKeep ==
  ASSUME Typed, Drains
  PROVE  /\ WorkerKeeps /\ UNCHANGED <<occurrence, deliveryVars>>
         /\ at["worker"] = "idle" /\ at'["tick"] = at["tick"]
         /\ left' \in [Bounded -> Nat]
         /\ \/ at'["worker"] = "notice" /\ left'["entries"] = left["entries"]
            \/ at'["worker"] = "boundary" /\ left'["entries"] = left["entries"] - 1
<1>1. "entries" \in Bounded /\ "callbacks" \in Bounded \ {"entries"}
  BY DEF Bounded
<1>2. {"notice", "boundary"} \subseteq Points
  BY DEF Points, ServingPoints, TellingPoints
<1>3. CASE EntryBegins
  <2>1. CallbackDrained("boundary") /\ Spend("entries")
    BY <1>3 DEF EntryBegins
  <2> QED  BY <1>1, <1>2, <2>1, SpendType, WorkerGoes DEF CallbackDrained, At, Typed
<1>4. CASE EntryGoesOn \/ PlaylistStops
  <2>1. CallbackDrained("notice") /\ Spend("callbacks")
    BY <1>4 DEF EntryGoesOn, PlaylistStops
  <2> QED  BY <1>1, <1>2, <2>1, SpendType, WorkerGoes DEF CallbackDrained, At, Typed
<1> QED  BY <1>3, <1>4 DEF Drains

LEMMA OccurrencesNext ==
  ASSUME ThreadsTyped, OccurrencesLast, [Next]_vars
  PROVE  OccurrencesLast'
<1> USE DEF ThreadsTyped
<1>0. left["entries"] \in Nat /\ ServingPoints \cap TellingPoints = {} /\ "idle" \notin ServingPoints
  BY DEF Typed, Bounded, ServingPoints, TellingPoints
<1>1. CASE Network \/ ClockAdvances \/ StopRequested
  BY <1>1, NetworkIsOutside, ClockIsOutside DEF OccurrencesLast, NothingThreaded, locals
<1>2. CASE TickMoves
  BY <1>2, TickMovesKeep DEF OccurrencesLast, TickKeeps
<1>3. CASE Tells("tick") \/ Tells("worker")
  BY <1>0, <1>3, TellsKeeps, ThreadNames DEF OccurrencesLast
<1>4. CASE Drains
  BY <1>0, <1>4, DrainsKeep DEF OccurrencesLast, ServingPoints
<1>5. CASE DeliverMatch
  <2>1. occurrence' = occurrence + 1 /\ left' = left /\ at["worker"] \in ServingPoints
    BY <1>5 DEF DeliverMatch, ServingKeeps, ServingPoints, At
  <2>2. at'["worker"] \notin ServingPoints
    BY <1>5, WorkerGoes DEF DeliverMatch, Points, ServingPoints
  <2> QED  BY <1>0, <2>1, <2>2 DEF OccurrencesLast
<1>6. CASE ServingMoves /\ ~DeliverMatch
  <2>1. occurrence' = occurrence /\ left' = left
    BY <1>6, ServingMovesKeep DEF ServingKeeps
  <2>2. at'["worker"] \in ServingPoints => at["worker"] \in ServingPoints
    BY <1>6, ServingMovesKeep
  <2> DEFINE rest == left["entries"]
             last == MaxEntries
  <2>3. occurrence \in Nat /\ rest \in Nat /\ last \in Nat /\ left'["entries"] = rest
    BY <1>0, <2>1, DeliveryAssumption DEF OccurrencesLast
  <2>4. CASE at["worker"] \in ServingPoints
    BY <2>1, <2>3, <2>4 DEF OccurrencesLast
  <2>5. CASE at'["worker"] \notin ServingPoints /\ at["worker"] \notin ServingPoints
    BY <2>1, <2>3, <2>5 DEF OccurrencesLast
  <2> QED  BY <2>2, <2>4, <2>5
<1>7. CASE UNCHANGED vars
  BY <1>7 DEF vars, OccurrencesLast, locals, bounds
<1> QED  BY <1>1, <1>2, <1>3, <1>4, <1>5, <1>6, <1>7 DEF Next, Tick, Serves, TickMoves, ServingMoves

LEMMA NodesNext ==
  ASSUME ThreadsTyped, NodesSound, OccurrencesLast, [Next]_vars
  PROVE  NodesSound'
<1> USE DEF ThreadsTyped
<1>1. ASSUME UNCHANGED deliveryVars
      PROVE  NodesSound'
  BY <1>1 DEF NodesSound, deliveryVars
<1>2. CASE Network
  BY <1>2, NetworkSound
<1>3. CASE DeliverMatch
  BY <1>3, DeliverMatchSound
<1>4. CASE ServingMoves /\ ~DeliverMatch
  BY <1>1, <1>4, ServingMovesKeep
<1>5. CASE TickMoves \/ Drains \/ ClockAdvances \/ StopRequested
  BY <1>1, <1>5, TickMovesKeep, DrainsKeep, ClockIsOutside DEF TickKeeps
<1>6. CASE Tells("tick") \/ Tells("worker")
  BY <1>1, <1>6, TellsKeeps, ThreadNames
<1>7. CASE UNCHANGED vars
  BY <1>1, <1>7 DEF vars
<1> QED  BY <1>2, <1>3, <1>4, <1>5, <1>6, <1>7 DEF Next, Tick, Serves, TickMoves, ServingMoves

LEMMA NodesAlwaysSound == Spec => [](NodesSound /\ OccurrencesLast)
<1>1. Init => NodesSound /\ OccurrencesLast
  BY NodesInit
<1>2. ThreadsTyped /\ NodesSound /\ OccurrencesLast /\ [Next]_vars => NodesSound' /\ OccurrencesLast'
  BY NodesNext, OccurrencesNext
<1> QED  BY <1>1, <1>2, DeliveryThreadsTyped, PTL DEF Spec

(* A node starts an occurrence's cue once at most, whatever is repeated,   *)
(* delayed, answered in vain or restarted (the execution id of             *)
(* fallback_node_delivery.h).                                              *)
THEOREM NeverStartedTwice == Spec => []StartedOnce
<1>1. NodesSound => StartedOnce
  BY DEF NodesSound, NodeSound, RecordSound, Occurrences, StartedOnce
<1> QED  BY <1>1, NodesAlwaysSound, PTL
-----------------------------------------------------------------------------
(* What the boundary says once the deliveries are over.  While they are    *)
(* going on there is a target, and no other step touches one that is over. *)
Settled(d) == d.at \in {"none", "done"}

SaidOfTargets(boundary) ==
    /\ boundary = "started" => Targets # {} /\ Targets \subseteq Authorized
    /\ boundary = "started-on-some" => Authorized # {}

BoundaryTold ==
    /\ ~At("worker", "deliver") =>
          (\A node \in Nodes : Settled(deliveries[node])) /\ SaidOfTargets(facts.boundary)
    /\ At("worker", "deliver") => \E node \in Nodes : deliveries[node].at # "none"

(* A delivery goes on from d to e. *)
GoesOn(d, e) == ~Settled(d) /\ e.at # "none"

LEMMA NetworkGoesOn ==
  ASSUME NodesSound, Network
  PROVE  \/ deliveries' = deliveries
         \/ \E node \in Nodes : \E e : /\ deliveries' = [deliveries EXCEPT ![node] = e]
                                       /\ GoesOn(deliveries[node], e)
<1> PICK node \in Nodes :
        DeliveryStep(node) \/ OtherAnswer(node) \/ LateRequest(node) \/ NodeRestart(node)
  BY DEF Network
<1> DEFINE d == deliveries[node]
           goal(e) == deliveries' = [deliveries EXCEPT ![node] = e] /\ GoesOn(d, e)
<1>0. DeliverySound(d)
  BY DEF NodesSound, NodeSound
<1>1. CASE Ask(node)
  <2>1. d.at = "ask" /\ deliveries' = [deliveries EXCEPT ![node] = Asking(d)]
    BY <1>1 DEF Ask, DeliveryAt, Delivers
  <2>2. GoesOn(d, Asking(d))
    BY <1>0, <2>1, AskingSound DEF GoesOn, Settled
  <2> QED  BY <2>1, <2>2
<1>2. CASE HandProgram(node)
  <2> DEFINE e == [d EXCEPT !.at = "ask", !.resent = TRUE]
  <2>1. d.at = "hand"
    BY <1>2 DEF HandProgram, DeliveryAt
  <2>2. deliveries' = [deliveries EXCEPT ![node] = e]
    BY <1>2, Zenon DEF HandProgram, Delivers
  <2>3. e.at = "ask"
    BY <1>0, <2>1, HandedSound
  <2> HIDE DEF e
  <2>4. GoesOn(d, e)
    BY <2>1, <2>3 DEF GoesOn, Settled
  <2> QED  BY <2>2, <2>4
<1>3. CASE CutOff(node) \/ PauseEnds(node) \/ StopsInPause(node)
  <2>1. d.at \in {"ask", "pause", "hand"}
    BY <1>3 DEF CutOff, PauseEnds, StopsInPause, DeliveryAt
  <2>2. PICK e \in {Ends(d, "cutoff-passed"), Ends(d, "plugin-stopping"), [d EXCEPT !.at = "ask"]} :
            deliveries' = [deliveries EXCEPT ![node] = e]
    BY <1>3 DEF CutOff, PauseEnds, StopsInPause, Delivers
  <2> HIDE DEF d
  <2>3. e.at # "none"
    BY <1>0, <2>1, <2>2, UnansweredSound
  <2>4. GoesOn(d, e)
    BY <2>1, <2>3 DEF GoesOn, Settled
  <2> QED  BY <2>2, <2>4 DEF d
<1>4. ASSUME NEW word \in Outcomes, Answered(node, word)
      PROVE  \E e : goal(e)
  <2>1. Waits(d) /\ deliveries' = [deliveries EXCEPT ![node] = AfterWord(d, word)]
    BY <1>0, <1>4 DEF Answered, DeliveryAt, Delivers, Waits
  <2>2. GoesOn(d, AfterWord(d, word))
    BY <2>1, WordFollows DEF GoesOn, Settled, Waits, Follows
  <2> QED  BY <2>1, <2>2
<1>5. CASE Replayed(node)
  <2> DEFINE first == FirstOutcome(node, RequestOf(d))
  <2>1. Waits(d) /\ deliveries' = [deliveries EXCEPT ![node] = Ends(d, first)]
    BY <1>0, <1>5 DEF Replayed, DeliveryAt, Delivers, Waits, AfterReplay
  <2>2. first \in Outcomes
    BY DEF FirstOutcome, Outcomes
  <2> HIDE DEF first
  <2>3. GoesOn(d, Ends(d, first))
    BY <2>1, <2>2, EndsFollows DEF GoesOn, Settled, Waits, Follows
  <2> QED  BY <2>1, <2>3
<1>6. ASSUME NEW word \in Outcomes, AnsweredOtherwise(node, word)
      PROVE  \E e : goal(e)
  <2>1. Waits(d)
    BY <1>0, <1>6 DEF AnsweredOtherwise, DeliveryAt, Waits
  <2>2. PICK e \in {AfterWord(d, word), AfterTransient(d, word)} :
            deliveries' = [deliveries EXCEPT ![node] = e]
    BY <1>6 DEF AnsweredOtherwise, Delivers
  <2>3. GoesOn(d, e)
    BY <2>1, <2>2, WordFollows, TransientFollows DEF GoesOn, Settled, Waits, Follows
  <2> QED  BY <2>2, <2>3
<1>7. CASE HandlesUnheard(node) \/ NodeRestarts(node)
  BY <1>7 DEF HandlesUnheard, NodeRestarts
<1> HIDE DEF d
<1> QED  BY <1>1, <1>2, <1>3, <1>4, <1>5, <1>6, <1>7
         DEF DeliveryStep, OtherAnswer, LateRequest, NodeRestart, d
-----------------------------------------------------------------------------
(* Who changes the boundary: an end of deliveries, or one that claims nothing. *)
LEMMA FactsKeepBoundary ==
  ASSUME facts \in FactsType
  PROVE  /\ \A now : Rested(now).boundary = facts.boundary
         /\ HandedBack.boundary = "none"
         /\ \A f \in Observed : f.boundary = facts.boundary
         /\ \A reached, lost \in BOOLEAN : Probed(reached, lost).boundary = facts.boundary
<1> DEFINE no == FALSE
           rested == Rested(clock)
           counts == IF facts.waiting THEN 0..1 ELSE {0}
<1>1. \A now : Rested(now) \in FactsType /\ Rested(now).boundary = facts.boundary
  BY RestedType DEF Rested, FactsType
<1>2. HandedBack = [facts EXCEPT !.mode = "normal", !.cutoff = 0, !.boundary = "none",
                                 !.problem = "none", !.waiting = no]
  BY Zenon DEF HandedBack
<1>3. Observed = {[rested EXCEPT !.waiting = no, !.notDelivered = @ + n] : n \in counts}
  BY Zenon DEF Observed
<1> HIDE DEF no
<1>4. HandedBack.boundary = "none"
  BY <1>2 DEF FactsType
<1>5. rested \in FactsType /\ rested.boundary = facts.boundary
  BY <1>1
<1> HIDE DEF rested, counts
<1>6. \A f \in Observed : f.boundary = facts.boundary
  <2> TAKE f \in Observed
  <2>1. PICK n \in counts : f = [rested EXCEPT !.waiting = no, !.notDelivered = @ + n]
    BY <1>3
  <2> QED  BY <1>5, <2>1 DEF FactsType
<1>7. ASSUME NEW reached \in BOOLEAN, NEW lost \in BOOLEAN
      PROVE  Probed(reached, lost).boundary = facts.boundary
  <2> DEFINE l == ~reached /\ (lost \/ facts.lost)
  <2>1. Probed(reached, lost) = [facts EXCEPT !.reachable = reached, !.lost = l]
    BY Zenon DEF Probed
  <2> HIDE DEF l
  <2> QED  BY <2>1 DEF FactsType
<1> QED  BY <1>1, <1>4, <1>6, <1>7

NoClaim == facts'.boundary = facts.boundary \/ facts'.boundary \notin {"started", "started-on-some"}

LEMMA TickClaimsNothing ==
  ASSUME Typed, TickMoves
  PROVE  NoClaim
<1>1. facts \in FactsType
  BY DEF Typed
<1>2. CASE TickProbes
  BY <1>1, <1>2, FactsKeepBoundary DEF TickProbes, NoClaim
<1>3. CASE TickRests
  <2>1. facts' = Rested(tick.now)
    BY <1>3 DEF TickRests
  <2> QED  BY <1>1, <2>1, FactsKeepBoundary DEF NoClaim
<1>4. CASE TickHandsBack
  BY <1>1, <1>4, FactsKeepBoundary DEF TickHandsBack, NoClaim
<1>5. CASE TickBetweenProbes \/ TickSettles \/ FetchBegins \/ Installs \/ TickEnds
  <2>1. facts' = facts
    BY <1>5 DEF TickBetweenProbes, TickSettles, FetchBegins, Installs, TickEnds, played
  <2> QED  BY <2>1 DEF NoClaim
<1> QED  BY <1>2, <1>3, <1>4, <1>5 DEF TickMoves

LEMMA WorkerClaimsNothing ==
  ASSUME Typed, Drains \/ (ServingMoves /\ ~DeliverMatch /\ ~DeliveriesEnd)
  PROVE  NoClaim
<1>1. facts \in FactsType
  BY DEF Typed
<1>2. CASE Drains
  <2>1. facts' \in Observed \/ facts' = HandedBack \/ facts' = facts
    BY <1>2 DEF Drains, EntryBegins, EntryGoesOn, PlaylistStops
  <2> QED  BY <1>1, <2>1, FactsKeepBoundary DEF NoClaim
<1>3. CASE ReadMode \/ CheckUsable \/ ResolveEntry \/ LeftToCoordinator
  <2>1. facts' = facts
    BY <1>3 DEF ReadMode, CheckUsable, ResolveEntry, LeftToCoordinator
  <2> QED  BY <2>1 DEF NoClaim
<1>4. CASE StartsNothing
  <2> DEFINE boundary == IF worker.problem = "unknown-entry" THEN "nothing-to-start" ELSE "not-started"
             problem == IF worker.problem = "unknown-entry" THEN "none" ELSE worker.problem
             count == facts.notDelivered + 1
  <2>1. facts' = [facts EXCEPT !.notDelivered = count, !.boundary = boundary, !.problem = problem]
    BY <1>4 DEF StartsNothing
  <2>2. boundary \in {"nothing-to-start", "not-started"}
    OBVIOUS
  <2> HIDE DEF boundary, problem, count
  <2>3. facts'.boundary = boundary
    BY <1>1, <2>1 DEF FactsType
  <2> QED  BY <2>2, <2>3 DEF NoClaim
<1> QED  BY <1>2, <1>3, <1>4 DEF ServingMoves

LEMMA DeliveriesEndSay ==
  ASSUME Typed, DeliveriesEnd
  PROVE  /\ facts'.boundary = BoundaryOf(Authorized)
         /\ at["worker"] = "deliver" /\ at'["worker"] = "notice" /\ deliveries' = deliveries
         /\ \A node \in Nodes : Settled(deliveries[node])
<1> DEFINE missed == facts.notDelivered + Cardinality(Targets \ (Authorized \union NotAskedFor))
           started == facts.authorized + Cardinality(Authorized)
           boundary == BoundaryOf(Authorized)
<1>1. PICK problem : facts' = [facts EXCEPT !.authorized = started, !.notDelivered = missed,
                                            !.boundary = boundary, !.problem = problem]
  BY DEF DeliveriesEnd
<1> HIDE DEF missed, started, boundary
<1>2. facts'.boundary = boundary
  BY <1>1 DEF Typed, FactsType
<1>3. Goto("worker", "notice") /\ "notice" \in Points
  BY DEF DeliveriesEnd, Returns, Points, TellingPoints
<1> QED  BY <1>2, <1>3, WorkerGoes DEF DeliveriesEnd, At, Settled, deliveryVars, boundary

(* Steps that leave the deliveries and claim nothing, the worker not at    *)
(* the deliveries, or staying there.                                       *)
LEMMA BoundaryKept ==
  ASSUME BoundaryTold, NoClaim, deliveries' = deliveries,
         at'["worker"] = "deliver" <=> at["worker"] = "deliver"
  PROVE  BoundaryTold'
<1>1. Targets' = Targets /\ Authorized' = Authorized
  BY DEF Targets, Authorized
<1>2. SaidOfTargets(facts.boundary) => SaidOfTargets(facts'.boundary)
  BY DEF NoClaim, SaidOfTargets
<1> QED  BY <1>1, <1>2 DEF BoundaryTold, At, SaidOfTargets

LEMMA BoundaryNext ==
  ASSUME ThreadsTyped, NodesSound, OccurrencesLast, BoundaryTold, [Next]_vars
  PROVE  BoundaryTold'
<1> USE DEF ThreadsTyped
<1>1. CASE Network
  <2>1. facts' = facts /\ at' = at
    BY <1>1, NetworkIsOutside DEF NothingThreaded, played, locals
  <2>2. CASE deliveries' = deliveries
    BY <2>1, <2>2, BoundaryKept DEF NoClaim
  <2>3. ASSUME NEW node \in Nodes, NEW e, deliveries' = [deliveries EXCEPT ![node] = e],
               GoesOn(deliveries[node], e)
        PROVE  BoundaryTold'
    <3>1. At("worker", "deliver") /\ At("worker", "deliver")'
      BY <2>1, <2>3 DEF BoundaryTold, GoesOn, At
    <3>2. deliveries'[node].at # "none"
      BY <2>3 DEF NodesSound, GoesOn
    <3> QED  BY <3>1, <3>2 DEF BoundaryTold
  <2> QED  BY <1>1, <2>2, <2>3, NetworkGoesOn
<1>2. CASE DeliverMatch
  <2>1. left' = left /\ left["entries"] \in Nat
    BY <1>2 DEF DeliverMatch, ServingKeeps, Typed, Bounded
  <2>2. Entry \in EntryType /\ Entry.targets # {}
    BY <1>2 DEF DeliverMatch, MatchHasTargets
  <2>3. PICK node \in Nodes : node \in Entry.targets
    BY <2>2 DEF EntryType
  <2>4. DeliveryTo(node).at # "none"
    BY <1>2, <2>1, <2>3, DeliveryToSound
  <2>5. deliveries'[node] = DeliveryTo(node)
    BY <1>2 DEF DeliverMatch
  <2>6. At("worker", "deliver")'
    BY <1>2, WorkerGoes DEF DeliverMatch, Points, At
  <2> QED  BY <2>4, <2>5, <2>6 DEF BoundaryTold
<1>3. CASE DeliveriesEnd
  <2>1. Targets # {}
    BY <1>3, DeliveriesEndSay DEF BoundaryTold, At, Targets, Settled
  <2>2. SaidOfTargets(facts'.boundary)
    BY <1>3, <2>1, DeliveriesEndSay DEF SaidOfTargets, BoundaryOf
  <2>3. Targets' = Targets /\ Authorized' = Authorized
    BY <1>3, DeliveriesEndSay DEF Targets, Authorized
  <2>4. SaidOfTargets(facts.boundary)' /\ ~At("worker", "deliver")'
    BY <1>3, <2>2, <2>3, DeliveriesEndSay DEF SaidOfTargets, At
  <2> QED  BY <1>3, <2>4, DeliveriesEndSay DEF BoundaryTold
<1>4. CASE ServingMoves /\ ~DeliverMatch /\ ~DeliveriesEnd
  <2>1. at["worker"] # "deliver"
    BY <1>4 DEF ServingMoves, ReadMode, CheckUsable, ResolveEntry, LeftToCoordinator, StartsNothing, At
  <2> QED  BY <1>4, <2>1, WorkerClaimsNothing, ServingMovesKeep, BoundaryKept DEF deliveryVars
<1>5. CASE Drains
  BY <1>5, WorkerClaimsNothing, DrainsKeep, BoundaryKept DEF deliveryVars
<1>6. CASE TickMoves
  BY <1>6, TickClaimsNothing, TickMovesKeep, BoundaryKept DEF TickKeeps, deliveryVars
<1>7. CASE Tells("tick") \/ Tells("worker")
  <2>1. facts' = facts /\ deliveries' = deliveries
    BY <1>7, TellsKeeps, ThreadNames DEF deliveryVars
  <2>2. at'["worker"] = "deliver" <=> at["worker"] = "deliver"
    BY <1>7, TellsKeeps, ThreadNames DEF TellingPoints
  <2> QED  BY <2>1, <2>2, BoundaryKept DEF NoClaim
<1>8. CASE UNCHANGED vars \/ ClockAdvances \/ StopRequested
  <2>1. facts' = facts /\ deliveries' = deliveries /\ at' = at
    BY <1>8, ClockIsOutside DEF vars, NothingThreaded, played, locals, deliveryVars
  <2> QED  BY <2>1, BoundaryKept DEF NoClaim
<1> QED  BY <1>1, <1>2, <1>3, <1>4, <1>5, <1>6, <1>7, <1>8
         DEF Next, Tick, Serves, TickMoves, ServingMoves

LEMMA BoundaryInit == Init => BoundaryTold
<1> SUFFICES ASSUME Init
             PROVE  BoundaryTold
  OBVIOUS
<1>1. ~At("worker", "deliver") /\ deliveries = [node \in Nodes |-> NoDelivery]
  BY DEF Init, At, Threads
<1>2. facts.boundary = "none"
  <2> DEFINE yes == TRUE
  <2>1. SavedFacts = [NormalFacts EXCEPT !.mode = "fallback", !.cutoff = MaxClock, !.waiting = yes]
    BY Zenon DEF SavedFacts
  <2> HIDE DEF yes
  <2>2. NormalFacts.boundary = "none"
    BY DEF NormalFacts
  <2>3. SavedFacts.boundary = "none"
    BY <2>1, <2>2, FirstFacts DEF FactsType
  <2> QED  BY <2>2, <2>3 DEF Init
<1>3. NoDelivery.at = "none"
  BY DEF NoDelivery
<1> QED  BY <1>1, <1>2, <1>3 DEF BoundaryTold, SaidOfTargets, Settled

(* deliverMatch() joins its threads: outside it every delivery is over,    *)
(* and the boundary claims nothing that they did not do.                   *)
THEOREM NoDeliveryOutlivesItsEntry == Spec => []BoundaryTold
<1>1. ThreadsTyped /\ NodesSound /\ OccurrencesLast /\ BoundaryTold /\ [Next]_vars => BoundaryTold'
  BY BoundaryNext
<1> QED  BY BoundaryInit, <1>1, DeliveryThreadsTyped, NodesAlwaysSound, PTL DEF Spec

(* What is recorded as started was started, for this very occurrence: by   *)
(* each node whose delivery is authorized, and by all of an entry's        *)
(* targets, or some, as the boundary says (deliverMatch()).                *)
THEOREM RecordedAsStartedWasStarted == Spec => []AccountIsTrue
<1>1. NodesSound /\ BoundaryTold => AccountIsTrue
  BY DEF NodesSound, NodeSound, TrueOf, BoundaryTold, SaidOfTargets, AccountIsTrue, Authorized
<1> QED  BY <1>1, NodesAlwaysSound, NoDeliveryOutlivesItsEntry, PTL
-----------------------------------------------------------------------------
(* What the operator is told.  A change is owed to the notice from the     *)
(* step that makes it until its thread has begun to tell; what a thread    *)
(* has read is the present state unless one is owed.                       *)
Telling == {"raise", "publish", "write"}

WorkerOwes == at["worker"] \notin Telling \union {"idle"}

TickOwes == at["tick"] = "notice" \/ (at["tick"] \in TickPoints /\ tick.acted)

Owed == WorkerOwes \/ TickOwes

Unpublished == Owed \/ \E thread \in Threads : at[thread] \in {"raise", "publish"}

(* The locks are held from the reading until the notice or file is made.   *)
LocksHeld ==
    \A thread \in Threads :
        /\ noticing[thread] # NoFacts <=> At(thread, "raise")
        /\ publishing[thread] # NoFacts <=> At(thread, "write")

ReadAsItIs ==
    /\ ~Owed => \A thread \in Threads : At(thread, "raise") => noticing[thread] = facts
    /\ ~Unpublished => \A thread \in Threads : At(thread, "write") => publishing[thread] = facts

NoticeStands == raised = NoticeOf(facts, Problem(facts, program, told.at))

StatusStands == status = [facts |-> facts, message |-> raised]

ToldLast ==
    /\ ~Owed /\ (\A thread \in Threads : ~At(thread, "raise")) /\ told.at # NeverNoticed =>
          NoticeStands
    /\ ~Unpublished /\ (\A thread \in Threads : ~At(thread, "write")) /\ told.written =>
          StatusStands

TellingSound == LocksHeld /\ ReadAsItIs /\ ToldLast

(* A step that tells nothing, and owes what it changes.                    *)
LEMMA TellsNothing ==
  ASSUME TellingSound, UNCHANGED <<told, noticeVars>>,
         \A thread \in Threads : at'[thread] = at[thread]
                                   \/ (at[thread] \notin Telling /\ at'[thread] \notin Telling),
         Owed' \/ (~Owed /\ facts' = facts /\ program' = program)
  PROVE  TellingSound'
<1>1. noticing' = noticing /\ publishing' = publishing /\ raised' = raised /\ status' = status
      /\ told' = told
  BY DEF noticeVars
<1>2. \A thread \in Threads : /\ At(thread, "raise")' <=> At(thread, "raise")
                              /\ At(thread, "publish")' <=> At(thread, "publish")
                              /\ At(thread, "write")' <=> At(thread, "write")
  BY DEF At, Telling
<1>3. LocksHeld'
  BY <1>1, <1>2 DEF TellingSound, LocksHeld
<1>4. CASE Owed'
  <2>1. Unpublished'
    BY <1>4 DEF Unpublished
  <2> QED  BY <1>3, <1>4, <2>1 DEF TellingSound, ReadAsItIs, ToldLast
<1>5. CASE ~Owed' /\ ~Owed /\ facts' = facts /\ program' = program
  <2>1. Unpublished' <=> Unpublished
    BY <1>2, <1>5 DEF Unpublished, At
  <2>2. (NoticeStands' <=> NoticeStands) /\ (StatusStands' <=> StatusStands)
    BY <1>1, <1>5 DEF NoticeStands, StatusStands
  <2>3. ReadAsItIs'
    BY <1>1, <1>2, <1>5, <2>1 DEF TellingSound, ReadAsItIs
  <2>4. ToldLast'
    BY <1>1, <1>2, <1>5, <2>1, <2>2 DEF TellingSound, ToldLast
  <2> QED  BY <1>3, <2>3, <2>4 DEF TellingSound
<1> QED  BY <1>4, <1>5

(* A thread that has begun to tell owes nothing.                           *)
LEMMA NothingMoreOwed ==
  ASSUME NEW thread \in Threads, at[thread] \in Telling, at'[thread] \in Telling \union {"idle"},
         \A other \in Threads \ {thread} : at'[other] = at[other], tick' = tick
  PROVE  Owed' <=> Owed
<1>1. CASE thread = "worker"
  BY <1>1, ThreadNames DEF Owed, WorkerOwes, TickOwes, Telling
<1>2. CASE thread = "tick"
  BY <1>2, ThreadNames DEF Owed, WorkerOwes, TickOwes, Telling, TickPoints
<1> QED  BY <1>1, <1>2 DEF Threads

LEMMA OnlyOneRead ==
  ASSUME NEW r \in Read, NEW thread \in Threads, NEW f
  PROVE  /\ [r EXCEPT ![thread] = f][thread] = f
         /\ \A other \in Threads \ {thread} : [r EXCEPT ![thread] = f][other] = r[other]
BY DEF Read

LEMMA FactsAreSome ==
  ASSUME Typed
  PROVE  facts # NoFacts
BY NoticeAssumption DEF Typed

LEMMA NoticeBegun ==
  ASSUME Typed, TellingSound, NEW thread \in Threads, At(thread, "notice"),
         RefreshBegins(thread, facts), Goto(thread, "raise"), UNCHANGED <<played, told, tick>>
  PROVE  TellingSound'
<1>1. at'[thread] = "raise" /\ \A other \in Threads \ {thread} : at'[other] = at[other]
  BY GotoType DEF Typed, Points, TellingPoints
<1>2. noticing'[thread] = facts /\ \A other \in Threads \ {thread} : noticing'[other] = NoFacts
  BY OnlyOneRead DEF RefreshBegins, Typed, NothingRead
<1>3. \A other \in Threads : noticing[other] = NoFacts
  BY DEF RefreshBegins, NothingRead
<1>4. UNCHANGED <<raised, status, publishing, facts>>
  BY DEF RefreshBegins, played
<1>5. LocksHeld'
  BY <1>1, <1>2, <1>3, <1>4, FactsAreSome DEF TellingSound, LocksHeld, At
<1>6. \A other \in Threads : At(other, "raise")' => other = thread
  BY <1>1, <1>3 DEF TellingSound, LocksHeld, At
<1>7. Unpublished'
  BY <1>1 DEF Unpublished
<1>8. ReadAsItIs'
  BY <1>2, <1>4, <1>6, <1>7 DEF ReadAsItIs
<1>9. ToldLast'
  BY <1>1, <1>7 DEF ToldLast, At
<1> QED  BY <1>5, <1>8, <1>9 DEF TellingSound

LEMMA NoticeMade ==
  ASSUME Typed, TellingSound, NEW thread \in Threads, At(thread, "raise"),
         RefreshEnds(thread, program, Now(thread)), Goto(thread, "publish"),
         told' = [told EXCEPT !.at = Now(thread)], UNCHANGED <<played, tick>>
  PROVE  TellingSound'
<1>1. at'[thread] = "publish" /\ \A other \in Threads \ {thread} : at'[other] = at[other]
  BY GotoType DEF Typed, Points, TellingPoints
<1>2. noticing'[thread] = NoFacts /\ \A other \in Threads \ {thread} : noticing'[other] = noticing[other]
  BY OnlyOneRead DEF RefreshEnds, Typed
<1>3. UNCHANGED <<status, publishing, facts, program>>
  BY DEF RefreshEnds, played
<1>4. LocksHeld'
  BY <1>1, <1>2, <1>3 DEF TellingSound, LocksHeld, At
<1>5. Unpublished'
  BY <1>1 DEF Unpublished
<1>6. Owed' <=> Owed
  BY <1>1, NothingMoreOwed DEF At, Telling
<1>7. ReadAsItIs'
  BY <1>1, <1>2, <1>3, <1>5, <1>6 DEF TellingSound, ReadAsItIs, At
<1>8. ASSUME ~Owed'
      PROVE  NoticeStands'
  <2>1. noticing[thread] = facts
    BY <1>6, <1>8 DEF TellingSound, ReadAsItIs
  <2>2. told'.at = Now(thread)
    BY DEF Typed
  <2> QED  BY <1>3, <2>1, <2>2 DEF NoticeStands, RefreshEnds
<1>9. ToldLast'
  BY <1>5, <1>8 DEF ToldLast
<1> QED  BY <1>4, <1>7, <1>9 DEF TellingSound

LEMMA StatusBegun ==
  ASSUME Typed, TellingSound, NEW thread \in Threads, At(thread, "publish"),
         PublishBegins(thread, facts), Goto(thread, "write"), UNCHANGED <<played, told, tick>>
  PROVE  TellingSound'
<1>1. at'[thread] = "write" /\ \A other \in Threads \ {thread} : at'[other] = at[other]
  BY GotoType DEF Typed, Points, TellingPoints
<1>2. publishing'[thread] = facts /\ \A other \in Threads \ {thread} : publishing'[other] = NoFacts
  BY OnlyOneRead DEF PublishBegins, Typed, NothingRead
<1>3. \A other \in Threads : publishing[other] = NoFacts
  BY DEF PublishBegins, NothingRead
<1>4. UNCHANGED <<raised, noticing, facts, program, told>>
  BY DEF PublishBegins, played
<1>5. LocksHeld'
  BY <1>1, <1>2, <1>3, <1>4, FactsAreSome DEF TellingSound, LocksHeld, At
<1>6. Owed' <=> Owed
  BY <1>1, NothingMoreOwed DEF At, Telling
<1>7. \A other \in Threads : At(other, "write")' => other = thread
  BY <1>1, <1>3 DEF TellingSound, LocksHeld, At
<1>8. \A other \in Threads : At(other, "raise")' <=> At(other, "raise")
  BY <1>1 DEF At
<1>9. ReadAsItIs'
  BY <1>2, <1>4, <1>6, <1>7, <1>8 DEF TellingSound, ReadAsItIs
<1>10. NoticeStands' <=> NoticeStands
  BY <1>4 DEF NoticeStands
<1>11. ToldLast'
  BY <1>1, <1>4, <1>6, <1>8, <1>10 DEF TellingSound, ToldLast, At
<1> QED  BY <1>5, <1>9, <1>11 DEF TellingSound

(* A write that fails is told as one that was not written.                 *)
LEMMA StatusMade ==
  ASSUME Typed, TellingSound, NEW thread \in Threads, At(thread, "write"), Goto(thread, "idle"),
         \/ PublishEnds(thread, TRUE) /\ told'.written = TRUE
         \/ PublishEnds(thread, FALSE) /\ told'.written = FALSE,
         told'.at = told.at, UNCHANGED <<played, tick>>
  PROVE  TellingSound'
<1>1. at'[thread] = "idle" /\ \A other \in Threads \ {thread} : at'[other] = at[other]
  BY GotoType DEF Typed, Points
<1>2. publishing'[thread] = NoFacts
      /\ \A other \in Threads \ {thread} : publishing'[other] = publishing[other]
  BY OnlyOneRead DEF PublishEnds, Typed
<1>3. UNCHANGED <<raised, noticing, facts, program>>
  BY DEF PublishEnds, played
<1>4. LocksHeld'
  BY <1>1, <1>2, <1>3 DEF TellingSound, LocksHeld, At
<1>5. Owed' <=> Owed
  BY <1>1, NothingMoreOwed DEF At, Telling
<1>6. \A other \in Threads : /\ At(other, "raise")' <=> At(other, "raise")
                             /\ At(other, "publish")' <=> At(other, "publish")
                             /\ At(other, "write")' => At(other, "write") /\ other # thread
  BY <1>1 DEF At
<1>7. Unpublished' <=> Unpublished
  BY <1>5, <1>6 DEF Unpublished, At
<1>8. ReadAsItIs'
  BY <1>2, <1>3, <1>5, <1>6, <1>7 DEF TellingSound, ReadAsItIs
<1>9. NoticeStands' <=> NoticeStands
  BY <1>3 DEF NoticeStands
<1>10. ASSUME ~Unpublished', told'.written
       PROVE  StatusStands'
  <2>1. publishing[thread] = facts
    BY <1>7, <1>10 DEF TellingSound, ReadAsItIs
  <2>2. PublishEnds(thread, TRUE)
    BY <1>10
  <2> QED  BY <1>3, <2>1, <2>2 DEF PublishEnds, StatusStands
<1>11. ToldLast'
  BY <1>3, <1>5, <1>6, <1>9, <1>10 DEF TellingSound, ToldLast
<1> QED  BY <1>4, <1>8, <1>11 DEF TellingSound
-----------------------------------------------------------------------------
LEMMA TellsSound ==
  ASSUME Typed, TellingSound, NEW thread \in Threads, Tells(thread)
  PROVE  TellingSound'
<1>1. CASE RefreshNotice(thread) /\ At(thread, "notice")
  <2>1. /\ RefreshBegins(thread, facts) /\ Goto(thread, "raise")
        /\ UNCHANGED <<played, told, tick>>
    BY <1>1 DEF RefreshNotice, At
  <2> QED  BY <1>1, <2>1, NoticeBegun
<1>2. CASE RefreshNotice(thread) /\ ~At(thread, "notice")
  <2>1. /\ At(thread, "raise") /\ RefreshEnds(thread, program, Now(thread)) /\ Goto(thread, "publish")
        /\ told' = [told EXCEPT !.at = Now(thread)] /\ UNCHANGED <<played, tick>>
    BY <1>2 DEF RefreshNotice
  <2> QED  BY <2>1, NoticeMade
<1>3. CASE PublishStatus(thread) /\ At(thread, "publish")
  <2>1. /\ PublishBegins(thread, facts) /\ Goto(thread, "write")
        /\ UNCHANGED <<played, told, tick>>
    BY <1>3 DEF PublishStatus, At
  <2> QED  BY <1>3, <2>1, StatusBegun
<1>4. CASE PublishStatus(thread) /\ ~At(thread, "publish")
  <2> DEFINE same == left' = left
  <2>1. At(thread, "write") /\ Goto(thread, "idle") /\ UNCHANGED <<played, tick>>
    BY <1>4 DEF PublishStatus
  <2>2. \/ PublishEnds(thread, TRUE) /\ left' = left
        \/ PublishEnds(thread, FALSE) /\ Spend("writes")
    BY <1>4 DEF PublishStatus
  <2>3. "writes" \in Bounded
    BY DEF Bounded
  <2>4. \/ PublishEnds(thread, TRUE) /\ same
        \/ PublishEnds(thread, FALSE) /\ ~same
    BY <2>2, <2>3, SpendType DEF Typed
  <2>5. told' = [told EXCEPT !.written = same]
    BY <1>4, Zenon DEF PublishStatus
  <2> HIDE DEF same
  <2>6. told'.written = same /\ told'.at = told.at
    BY <2>5 DEF Typed
  <2>7. \/ PublishEnds(thread, TRUE) /\ told'.written = TRUE
        \/ PublishEnds(thread, FALSE) /\ told'.written = FALSE
    BY <2>4, <2>6, Zenon DEF same
  <2> QED  BY <2>1, <2>6, <2>7, StatusMade
<1> QED  BY <1>1, <1>2, <1>3, <1>4 DEF Tells

(* A tick owes what it changes: it has acted.                              *)
LEMMA TickOwesItsChanges ==
  ASSUME Typed, TickMoves
  PROVE  Owed' \/ (~Owed /\ facts' = facts /\ program' = program)
<1> DEFINE yes == TRUE
           no == FALSE
           rested == tick.acted \/ Rested(tick.now) # facts
<1>0. /\ yes \in BOOLEAN /\ no \in BOOLEAN /\ rested \in BOOLEAN /\ clock \in Nat /\ tick \in Ticks
      /\ TickPoints \union {"notice", "idle"} \subseteq Points
  BY DEF Typed, Points, TellingPoints, Ticks
<1>1. \A point \in Points : Goto("tick", point) =>
          at'["tick"] = point /\ at'["worker"] = at["worker"]
  BY GotoType, ThreadNames DEF Typed
<1>2. worker' = worker /\ at'["worker"] = at["worker"]
  BY TickMovesKeep DEF TickKeeps
<1>3. CASE TickProbes
  <2>1. tick' = [now |-> clock, acted |-> yes]
    BY <1>3, Zenon DEF TickProbes
  <2>2. at'["tick"] = "cutoff"
    BY <1>0, <1>1, <1>3 DEF TickProbes, TickPoints
  <2> HIDE DEF yes, no, rested
  <2>3. tick'.acted = yes
    BY <1>0, <2>1, TickBegins
  <2> QED  BY <2>2, <2>3 DEF Owed, TickOwes, TickPoints, yes
<1>4. CASE TickBetweenProbes
  <2>1. tick' = [now |-> clock, acted |-> no]
    BY <1>4, Zenon DEF TickBetweenProbes
  <2>2. at["tick"] = "idle" /\ at'["tick"] = "cutoff" /\ facts' = facts /\ program' = program
    BY <1>0, <1>1, <1>4 DEF TickBetweenProbes, TickPoints, At, played
  <2> HIDE DEF yes, no, rested
  <2>3. tick'.acted = no
    BY <1>0, <2>1, TickBegins
  <2>4. ~TickOwes
    BY <2>2 DEF TickOwes, TickPoints
  <2> QED  BY <1>2, <2>2, <2>4 DEF Owed, WorkerOwes
<1>5. CASE TickRests
  <2>1. tick' = [tick EXCEPT !.acted = rested] /\ facts' = Rested(tick.now) /\ program' = program
    BY <1>5, Zenon DEF TickRests
  <2>2. at["tick"] = "cutoff" /\ at'["tick"] = "settle"
    BY <1>0, <1>1, <1>5 DEF TickRests, TickPoints, At
  <2>3. rested \/ (~tick.acted /\ facts' = facts)
    BY <2>1
  <2> HIDE DEF yes, no, rested
  <2>4. tick'.acted = rested
    BY <1>0, <2>1, TickActs
  <2>5. CASE rested
    BY <2>2, <2>4, <2>5 DEF Owed, TickOwes, TickPoints
  <2>6. CASE ~rested
    BY <1>2, <2>1, <2>2, <2>3, <2>6 DEF Owed, WorkerOwes, TickOwes
  <2> QED  BY <2>5, <2>6
<1>6. CASE TickHandsBack \/ FetchBegins
  <2>1. tick' = [tick EXCEPT !.acted = yes]
    BY <1>6, Zenon DEF TickHandsBack, FetchBegins
  <2>2. at'["tick"] \in {"fetch", "install"}
    BY <1>0, <1>1, <1>6 DEF TickHandsBack, FetchBegins, TickPoints
  <2> HIDE DEF yes, no, rested
  <2>3. tick'.acted = yes
    BY <1>0, <2>1, TickActs
  <2> QED  BY <2>2, <2>3 DEF Owed, TickOwes, TickPoints, yes
<1>7. CASE TickSettles
  <2>1. at["tick"] = "settle" /\ at'["tick"] = "fetch" /\ UNCHANGED <<facts, program, tick>>
    BY <1>0, <1>1, <1>7 DEF TickSettles, TickPoints, At, played
  <2> QED  BY <1>2, <2>1 DEF Owed, WorkerOwes, TickOwes, TickPoints
<1>8. CASE Installs
  <2>1. at'["tick"] = "notice"
    BY <1>0, <1>1, <1>8 DEF Installs
  <2> QED  BY <2>1 DEF Owed, TickOwes
<1>9. CASE TickEnds
  <2>1. at["tick"] \in {"fetch", "install"} /\ UNCHANGED <<facts, program, tick>>
    BY <1>9 DEF TickEnds, played
  <2>2. IF tick.acted THEN at'["tick"] = "notice" ELSE at'["tick"] = "idle"
    BY <1>0, <1>1, <1>9 DEF TickEnds
  <2> QED  BY <1>2, <2>1, <2>2 DEF Owed, WorkerOwes, TickOwes, TickPoints
<1> QED  BY <1>3, <1>4, <1>5, <1>6, <1>7, <1>8, <1>9 DEF TickMoves

LEMMA TellingNext ==
  ASSUME ThreadsTyped, TellingSound, [Next]_vars
  PROVE  TellingSound'
<1> USE DEF ThreadsTyped
<1>0. /\ ServingPoints \union {"deliver", "notice"} \subseteq Points \ (Telling \union {"idle"})
      /\ TickPoints \union {"idle", "notice"} \subseteq Points \ Telling
  BY DEF ServingPoints, TickPoints, TellingPoints, Points, Telling
<1>1. CASE TickMoves
  <2>1. \A thread \in Threads : at'[thread] = at[thread]
                                  \/ (at[thread] \notin Telling /\ at'[thread] \notin Telling)
    BY <1>0, <1>1, TickMovesKeep DEF Threads
  <2> QED  BY <1>1, <2>1, TickMovesKeep, TickOwesItsChanges, TellsNothing DEF TickKeeps
<1>2. CASE Drains \/ ServingMoves
  <2>1. UNCHANGED <<told, noticeVars>> /\ at'["tick"] = at["tick"]
    BY <1>2, DrainsKeep, ServingMovesKeep DEF ServingKeeps, WorkerKeeps
  <2>2. at["worker"] \in ServingPoints \union {"deliver", "idle"}
        /\ at'["worker"] \in ServingPoints \union {"deliver", "notice"}
    BY <1>2, DrainsKeep, ServingMovesKeep DEF ServingPoints
  <2>3. Owed'
    BY <1>0, <2>2 DEF Owed, WorkerOwes
  <2>4. \A thread \in Threads : at'[thread] = at[thread]
                                  \/ (at[thread] \notin Telling /\ at'[thread] \notin Telling)
    BY <1>0, <2>1, <2>2 DEF Threads, Telling
  <2> QED  BY <2>1, <2>3, <2>4, TellsNothing
<1>3. CASE Tells("tick") \/ Tells("worker")
  BY <1>3, TellsSound, ThreadNames
<1>4. CASE Network \/ ClockAdvances \/ StopRequested \/ UNCHANGED vars
  <2>1. UNCHANGED <<told, noticeVars, at, tick, facts, program>>
    BY <1>4, NetworkIsOutside, ClockIsOutside DEF NothingThreaded, vars, played, locals
  <2>2. Owed' <=> Owed
    BY <2>1 DEF Owed, WorkerOwes, TickOwes
  <2> QED  BY <2>1, <2>2, TellsNothing
<1> QED  BY <1>1, <1>2, <1>3, <1>4 DEF Next, Tick, Serves, TickMoves, ServingMoves

LEMMA TellingInit == Init => TellingSound
<1> SUFFICES ASSUME Init
             PROVE  TellingSound
  OBVIOUS
<1>1. \A thread \in Threads : at[thread] = "idle"
  BY DEF Init
<1>2. noticing = NothingRead /\ publishing = NothingRead
  BY DEF Init, NoticeInit
<1>3. told.at = NeverNoticed /\ ~told.written
  <2> DEFINE no == FALSE
  <2>1. told = [at |-> NeverNoticed, written |-> no]
    BY DEF Init
  <2> HIDE DEF no
  <2>2. told.at = NeverNoticed /\ told.written = no
    BY <2>1
  <2> QED  BY <2>2 DEF no
<1>4. LocksHeld /\ ReadAsItIs
  BY <1>1, <1>2 DEF LocksHeld, ReadAsItIs, NothingRead, At
<1>5. ToldLast
  BY <1>3 DEF ToldLast
<1> QED  BY <1>4, <1>5 DEF TellingSound

LEMMA TellingAlwaysSound == Spec => []TellingSound
<1>1. ThreadsTyped /\ TellingSound /\ [Next]_vars => TellingSound'
  BY TellingNext
<1> QED  BY TellingInit, <1>1, DeliveryThreadsTyped, PTL DEF Spec

(* Whenever neither thread is on its way to tell a change, the notice and  *)
(* the status file say what is so (refreshNotice(), publishStatus()).      *)
THEOREM OperatorIsToldAsItIs == Spec => []ToldAsItIs
<1>1. TellingSound => ToldAsItIs
  <2> SUFFICES ASSUME TellingSound, told.at # NeverNoticed, \A thread \in Threads : At(thread, "idle")
               PROVE  NoticeStands /\ (told.written => StatusStands)
    BY DEF ToldAsItIs, NoticeStands, StatusStands
  <2>1. at["worker"] = "idle" /\ at["tick"] = "idle"
    BY ThreadNames DEF At
  <2>2. ~Owed
    BY <2>1 DEF Owed, WorkerOwes, TickOwes, TickPoints
  <2>3. ~Unpublished
    BY <2>2 DEF Unpublished, At
  <2> QED  BY <2>2, <2>3 DEF TellingSound, ToldLast, At
<1> QED  BY <1>1, TellingAlwaysSound, PTL
-----------------------------------------------------------------------------
(* Why a delivery comes to an end: a rank that each of its steps lowers.   *)
(* What it has left are attempts, the one retry after a rate limit, and    *)
(* the one hand-over of the program, which a delivery about to hand it     *)
(* over has used.                                                          *)
AttemptsLeft(d) == TransientAttemptLimit - d.attempts

ExtrasLeft(d) ==
    (IF d.limitedOnce THEN 0 ELSE 1) + (IF d.resent \/ d.at = "hand" THEN 0 ELSE 1)

Rank(d) ==
    IF Settled(d) THEN 0
    ELSE IF d.at = "wait" /\ AttemptsLeft(d) = 0 THEN 3 * ExtrasLeft(d) + 2
    ELSE 3 * (AttemptsLeft(d) + ExtrasLeft(d))
             + (IF d.at = "wait" THEN 5 ELSE IF d.at = "ask" THEN 3 ELSE 4)

LEMMA RankIsNat ==
  ASSUME NEW d \in Deliveries
  PROVE  /\ Rank(d) \in Nat /\ AttemptsLeft(d) \in Nat /\ ExtrasLeft(d) \in 0..2
         /\ ~Settled(d) => Rank(d) > 0
<1>1. AttemptsLeft(d) \in Nat
  BY LimitAssumption DEF Deliveries, AttemptsLeft
<1>2. ExtrasLeft(d) \in 0..2
  BY DEF ExtrasLeft
<1> DEFINE a == AttemptsLeft(d)
           x == ExtrasLeft(d)
<1> HIDE DEF a, x
<1>3. a \in Nat /\ x \in 0..2
  BY <1>1, <1>2 DEF a, x
<1>4. Rank(d) = IF Settled(d) THEN 0
                ELSE IF d.at = "wait" /\ a = 0 THEN 3 * x + 2
                ELSE 3 * (a + x) + (IF d.at = "wait" THEN 5 ELSE IF d.at = "ask" THEN 3 ELSE 4)
  BY DEF Rank, a, x
<1> QED  BY <1>1, <1>2, <1>3, <1>4

LEMMA EndsLowers ==
  ASSUME NEW d \in Deliveries, ~Settled(d), NEW word
  PROVE  Rank(Ends(d, word)) < Rank(d)
<1>1. Settled(Ends(d, word))
  BY DEF Ends, Settled, Deliveries
<1> QED  BY <1>1, RankIsNat DEF Rank

LEMMA AskingLowers ==
  ASSUME NEW d \in Deliveries, d.at = "ask"
  PROVE  Rank(Asking(d)) < Rank(d)
<1> DEFINE attempts == Counted(d.attempts)
           e == [d EXCEPT !.at = "wait", !.attempts = attempts]
<1>1. attempts \in Nat /\ d.attempts \in Nat /\ d.attempts <= TransientAttemptLimit
      /\ attempts = IF d.attempts < TransientAttemptLimit THEN d.attempts + 1
                    ELSE TransientAttemptLimit
  BY LimitAssumption DEF Counted, Deliveries
<1> HIDE DEF attempts
<1>2. e.at = "wait" /\ e.attempts = attempts /\ e.limitedOnce = d.limitedOnce /\ e.resent = d.resent
  BY DEF Deliveries
<1>3. Asking(d) = e
  BY DEF Asking, attempts
<1> HIDE DEF e
<1>4. ExtrasLeft(e) = ExtrasLeft(d) /\ ExtrasLeft(d) \in 0..2
  BY <1>2, RankIsNat DEF ExtrasLeft
<1> DEFINE x == ExtrasLeft(d)
<1> HIDE DEF x
<1>5. Rank(e) = IF AttemptsLeft(e) = 0 THEN 3 * x + 2 ELSE 3 * (AttemptsLeft(e) + x) + 5
  BY <1>2, <1>4 DEF Rank, Settled, x
<1>6. Rank(d) = 3 * (AttemptsLeft(d) + x) + 3
  BY DEF Rank, Settled, x
<1>7. x \in Nat
  BY <1>4 DEF x
<1>8. AttemptsLeft(e) = TransientAttemptLimit - attempts
      /\ AttemptsLeft(d) = TransientAttemptLimit - d.attempts
  BY <1>2 DEF AttemptsLeft
<1> QED  BY <1>1, <1>3, <1>5, <1>6, <1>7, <1>8, LimitAssumption

(* From "wait" a delivery goes on only with an attempt left, or at the     *)
(* price of one of its extras; then it asks.                               *)
LEMMA GoingOnLowers ==
  ASSUME NEW d \in Deliveries, NEW e \in Deliveries, e.attempts = d.attempts,
         \/ d.at = "wait" /\ e.at \in {"pause", "hand"} /\ AttemptsLeft(d) > 0
              /\ ExtrasLeft(e) <= ExtrasLeft(d)
         \/ d.at = "wait" /\ e.at \in {"pause", "hand"} /\ ExtrasLeft(e) < ExtrasLeft(d)
         \/ d.at \in {"pause", "hand"} /\ e.at = "ask" /\ ExtrasLeft(e) <= ExtrasLeft(d)
  PROVE  Rank(e) < Rank(d)
<1> DEFINE a == AttemptsLeft(d)
           x == ExtrasLeft(d)
           y == ExtrasLeft(e)
<1>1. a \in Nat /\ x \in Nat /\ y \in Nat /\ AttemptsLeft(e) = a
  BY RankIsNat DEF AttemptsLeft
<1>2. Rank(d) = IF d.at = "wait" /\ a = 0 THEN 3 * x + 2
                ELSE 3 * (a + x) + (IF d.at = "wait" THEN 5 ELSE IF d.at = "ask" THEN 3 ELSE 4)
  BY DEF Rank, Settled
<1>3. Rank(e) = 3 * (a + y) + (IF e.at = "ask" THEN 3 ELSE 4)
  BY <1>1 DEF Rank, Settled
<1>4. \/ d.at = "wait" /\ e.at \in {"pause", "hand"} /\ a > 0 /\ y <= x
      \/ d.at = "wait" /\ e.at \in {"pause", "hand"} /\ y < x
      \/ d.at \in {"pause", "hand"} /\ e.at = "ask" /\ y <= x
  OBVIOUS
<1> HIDE DEF a, x, y
<1> QED  BY <1>1, <1>2, <1>3, <1>4

LEMMA AnswerLowers ==
  ASSUME NEW d \in Deliveries, d.at = "wait", NEW word
  PROVE  Rank(AfterTransient(d, word)) < Rank(d) /\ Rank(AfterWord(d, word)) < Rank(d)
<1> DEFINE yes == TRUE
           paused == [d EXCEPT !.at = "pause"]
           limited == [d EXCEPT !.at = "pause", !.limitedOnce = yes]
           handing == [d EXCEPT !.at = "hand"]
<1>0. ~Settled(d) /\ yes \in BOOLEAN
  BY DEF Settled
<1> HIDE DEF yes
<1>1. /\ paused \in Deliveries /\ paused.at = "pause" /\ paused.attempts = d.attempts
      /\ paused.limitedOnce = d.limitedOnce /\ paused.resent = d.resent
      /\ limited \in Deliveries /\ limited.at = "pause" /\ limited.attempts = d.attempts
      /\ limited.limitedOnce = yes /\ limited.resent = d.resent
      /\ handing \in Deliveries /\ handing.at = "hand" /\ handing.attempts = d.attempts
      /\ handing.limitedOnce = d.limitedOnce /\ handing.resent = d.resent
  BY <1>0 DEF Deliveries, DeliveryPoints
<1> HIDE DEF paused, limited, handing
<1>2. Rank(AfterTransient(d, word)) < Rank(d)
  <2>1. CASE d.attempts >= TransientAttemptLimit
    BY <1>0, <2>1, EndsLowers DEF AfterTransient
  <2>2. CASE ~(d.attempts >= TransientAttemptLimit)
    <3>1. AfterTransient(d, word) = paused
      BY <2>2 DEF AfterTransient, paused
    <3>2. AttemptsLeft(d) > 0
      BY <2>2, LimitAssumption DEF AttemptsLeft, Deliveries
    <3>3. ExtrasLeft(paused) = ExtrasLeft(d)
      BY <1>1 DEF ExtrasLeft
    <3>4. ExtrasLeft(paused) <= ExtrasLeft(d)
      BY <3>3, RankIsNat
    <3> QED  BY <1>1, <3>1, <3>2, <3>4, GoingOnLowers
  <2> QED  BY <2>1, <2>2
<1>3. Rank(AfterRateLimit(d, word)) < Rank(d)
  <2>1. CASE d.limitedOnce
    BY <1>0, <2>1, EndsLowers DEF AfterRateLimit
  <2>2. CASE ~d.limitedOnce
    <3>1. AfterRateLimit(d, word) = limited
      BY <2>2 DEF AfterRateLimit, limited, yes
    <3>2. limited.limitedOnce
      BY <1>1 DEF yes
    <3>3. ExtrasLeft(limited) < ExtrasLeft(d)
      BY <1>1, <2>2, <3>2 DEF ExtrasLeft
    <3> QED  BY <1>1, <3>1, <3>3, GoingOnLowers
  <2> QED  BY <2>1, <2>2
<1>4. Rank(AfterProgramMissing(d, word)) < Rank(d)
  <2>1. CASE d.resent
    BY <1>0, <2>1, EndsLowers DEF AfterProgramMissing
  <2>2. CASE ~d.resent
    <3>1. AfterProgramMissing(d, word) = handing
      BY <2>2 DEF AfterProgramMissing, handing
    <3>2. ExtrasLeft(handing) < ExtrasLeft(d)
      BY <1>1, <2>2 DEF ExtrasLeft
    <3> QED  BY <1>1, <3>1, <3>2, GoingOnLowers
  <2> QED  BY <2>1, <2>2
<1> QED  BY <1>0, <1>2, <1>3, <1>4, EndsLowers DEF AfterWord

LEMMA HandedLowers ==
  ASSUME NEW d \in Deliveries, d.at = "hand"
  PROVE  Rank([d EXCEPT !.at = "ask", !.resent = TRUE]) < Rank(d)
<1> DEFINE yes == TRUE
           e == [d EXCEPT !.at = "ask", !.resent = yes]
<1>1. yes \in BOOLEAN
  OBVIOUS
<1> HIDE DEF yes
<1>2. /\ e \in Deliveries /\ e.at = "ask" /\ e.attempts = d.attempts
      /\ e.limitedOnce = d.limitedOnce /\ e.resent = yes
  BY <1>1 DEF Deliveries, DeliveryPoints
<1> HIDE DEF e
<1>3. e.resent
  BY <1>2 DEF yes
<1>4. ExtrasLeft(e) = ExtrasLeft(d)
  BY <1>2, <1>3 DEF ExtrasLeft
<1>5. ExtrasLeft(e) <= ExtrasLeft(d)
  BY <1>4, RankIsNat
<1>6. Rank(e) < Rank(d)
  BY <1>2, <1>5, GoingOnLowers
<1> QED  BY <1>6 DEF e, yes

LEMMA PauseEndsLowers ==
  ASSUME NEW d \in Deliveries, d.at = "pause"
  PROVE  Rank([d EXCEPT !.at = "ask"]) < Rank(d)
<1> DEFINE e == [d EXCEPT !.at = "ask"]
<1>1. /\ e \in Deliveries /\ e.at = "ask" /\ e.attempts = d.attempts
      /\ e.limitedOnce = d.limitedOnce /\ e.resent = d.resent
  BY DEF Deliveries, DeliveryPoints
<1> HIDE DEF e
<1>2. ExtrasLeft(e) = ExtrasLeft(d)
  BY <1>1 DEF ExtrasLeft
<1>3. ExtrasLeft(e) <= ExtrasLeft(d)
  BY <1>2, RankIsNat
<1>4. Rank(e) < Rank(d)
  BY <1>1, <1>3, GoingOnLowers
<1> QED  BY <1>4 DEF e

LEMMA NetworkLowers ==
  ASSUME NodesSound, Network
  PROVE  \/ deliveries' = deliveries
         \/ \E node \in Nodes : \E e : /\ deliveries' = [deliveries EXCEPT ![node] = e]
                                       /\ Rank(e) < Rank(deliveries[node])
<1> PICK node \in Nodes :
        DeliveryStep(node) \/ OtherAnswer(node) \/ LateRequest(node) \/ NodeRestart(node)
  BY DEF Network
<1> DEFINE d == deliveries[node]
           goal(e) == deliveries' = [deliveries EXCEPT ![node] = e] /\ Rank(e) < Rank(d)
<1>0. d \in Deliveries
  BY DEF NodesSound
<1>1. CASE Ask(node)
  <2>1. d.at = "ask" /\ deliveries' = [deliveries EXCEPT ![node] = Asking(d)]
    BY <1>1 DEF Ask, DeliveryAt, Delivers
  <2>2. goal(Asking(d))
    BY <1>0, <2>1, AskingLowers
  <2> QED  BY <2>2
<1>2. CASE HandProgram(node)
  <2> DEFINE e == [d EXCEPT !.at = "ask", !.resent = TRUE]
  <2>1. d.at = "hand"
    BY <1>2 DEF HandProgram, DeliveryAt
  <2>2. deliveries' = [deliveries EXCEPT ![node] = e]
    BY <1>2, Zenon DEF HandProgram, Delivers
  <2>3. Rank(e) < Rank(d)
    BY <1>0, <2>1, HandedLowers
  <2> HIDE DEF e
  <2> QED  BY <2>2, <2>3
<1>3. CASE PauseEnds(node)
  <2> DEFINE e == [d EXCEPT !.at = "ask"]
  <2>1. d.at = "pause" /\ deliveries' = [deliveries EXCEPT ![node] = e]
    BY <1>3 DEF PauseEnds, DeliveryAt, Delivers
  <2>2. Rank(e) < Rank(d)
    BY <1>0, <2>1, PauseEndsLowers
  <2> HIDE DEF e
  <2> QED  BY <2>1, <2>2
<1>4. CASE CutOff(node) \/ StopsInPause(node)
  <2>1. ~Settled(d)
    BY <1>4 DEF CutOff, StopsInPause, DeliveryAt, Settled
  <2>2. PICK word : deliveries' = [deliveries EXCEPT ![node] = Ends(d, word)]
    BY <1>4 DEF CutOff, StopsInPause, Delivers
  <2> QED  BY <1>0, <2>1, <2>2, EndsLowers
<1>5. ASSUME NEW word \in Outcomes, Answered(node, word)
      PROVE  \E e : goal(e)
  <2>1. d.at = "wait" /\ deliveries' = [deliveries EXCEPT ![node] = AfterWord(d, word)]
    BY <1>5 DEF Answered, DeliveryAt, Delivers
  <2> QED  BY <1>0, <2>1, AnswerLowers
<1>6. CASE Replayed(node)
  <2>1. ~Settled(d)
    BY <1>6 DEF Replayed, DeliveryAt, Settled
  <2>2. PICK word : deliveries' = [deliveries EXCEPT ![node] = Ends(d, word)]
    BY <1>6 DEF Replayed, Delivers, AfterReplay
  <2> QED  BY <1>0, <2>1, <2>2, EndsLowers
<1>7. ASSUME NEW word \in Outcomes, AnsweredOtherwise(node, word)
      PROVE  \E e : goal(e)
  <2>1. d.at = "wait"
    BY <1>7 DEF AnsweredOtherwise, DeliveryAt
  <2>2. PICK e \in {AfterWord(d, word), AfterTransient(d, word)} :
            deliveries' = [deliveries EXCEPT ![node] = e]
    BY <1>7 DEF AnsweredOtherwise, Delivers
  <2>3. Rank(e) < Rank(d)
    BY <1>0, <2>1, <2>2, AnswerLowers
  <2> QED  BY <2>2, <2>3
<1>8. CASE HandlesUnheard(node) \/ NodeRestarts(node)
  BY <1>8 DEF HandlesUnheard, NodeRestarts
<1> HIDE DEF d
<1> QED  BY <1>1, <1>2, <1>3, <1>4, <1>5, <1>6, <1>7, <1>8
         DEF DeliveryStep, OtherAnswer, LateRequest, NodeRestart, d

(* A step that changes a delivery while the worker waits for it.           *)
LowersRanks ==
    At("worker", "deliver") =>
        \A node \in Nodes :
            deliveries'[node] # deliveries[node] => Rank(deliveries'[node]) < Rank(deliveries[node])

(* deliverMatch() waits for a bounded number of steps, however the nodes   *)
(* answer: each step of a delivery lowers its rank, a natural number that  *)
(* is 0 when the delivery is over.  With the fairness of FairSpec this is  *)
(* why an entry does not hold the worker for ever.                         *)
THEOREM EveryDeliveryStepComesCloser ==
  Spec => /\ [](\A node \in Nodes : /\ Rank(deliveries[node]) \in Nat
                                    /\ Rank(deliveries[node]) = 0 <=> Settled(deliveries[node]))
          /\ [][LowersRanks]_vars
<1>1. NodesSound => \A node \in Nodes : /\ Rank(deliveries[node]) \in Nat
                                        /\ Rank(deliveries[node]) = 0 <=> Settled(deliveries[node])
  <2> SUFFICES ASSUME NodesSound, NEW node \in Nodes
               PROVE  /\ Rank(deliveries[node]) \in Nat
                      /\ Rank(deliveries[node]) = 0 <=> Settled(deliveries[node])
    OBVIOUS
  <2>1. deliveries[node] \in Deliveries
    BY DEF NodesSound
  <2>2. Settled(deliveries[node]) => Rank(deliveries[node]) = 0
    BY DEF Rank
  <2> QED  BY <2>1, <2>2, RankIsNat
<1>2. ASSUME ThreadsTyped, NodesSound, [Next]_vars
      PROVE  [LowersRanks]_vars
  <2> USE DEF ThreadsTyped
  <2>1. CASE Network
    <3>1. CASE deliveries' = deliveries
      BY <3>1 DEF LowersRanks
    <3>2. ASSUME NEW node \in Nodes, NEW e, deliveries' = [deliveries EXCEPT ![node] = e],
                 Rank(e) < Rank(deliveries[node])
          PROVE  LowersRanks
      BY <3>2 DEF LowersRanks, NodesSound
    <3> QED  BY <1>2, <2>1, <3>1, <3>2, NetworkLowers
  <2>2. CASE DeliverMatch
    BY <2>2 DEF DeliverMatch, LowersRanks, At
  <2>3. CASE ServingMoves /\ ~DeliverMatch
    BY <1>2, <2>3, ServingMovesKeep DEF LowersRanks, deliveryVars
  <2>4. CASE TickMoves \/ Drains \/ ClockAdvances \/ StopRequested
    BY <1>2, <2>4, TickMovesKeep, DrainsKeep, ClockIsOutside DEF LowersRanks, TickKeeps, deliveryVars
  <2>5. CASE Tells("tick") \/ Tells("worker")
    BY <1>2, <2>5, TellsKeeps, ThreadNames DEF LowersRanks, deliveryVars
  <2> QED  BY <1>2, <2>1, <2>2, <2>3, <2>4, <2>5 DEF Next, Tick, Serves, TickMoves, ServingMoves
<1> QED  BY <1>1, <1>2, DeliveryThreadsTyped, NodesAlwaysSound, PTL DEF Spec
=============================================================================
