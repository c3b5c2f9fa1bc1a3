------------------------ MODULE FallbackExecutor_proofs ------------------------
(***************************************************************************)
(* Proofs about the fallback executor, for any playlists, copies, bounds   *)
(* and budgets.                                                            *)
(***************************************************************************)
EXTENDS FallbackExecutor, TLAPS

(* The type of each record, by name. *)
Occurrences == [present : BOOLEAN, entry : Entries \union {NoEntry}, delivered : BOOLEAN]

Owed == [report : BOOLEAN, reportBeforePosts : BOOLEAN, fetch : BOOLEAN,
         fetchAtOnce : BOOLEAN, forgetBoundary : BOOLEAN, decision : BOOLEAN]

Points == WorkerPoints \union TickPoints

Ticks == [now : Nat, probed : BOOLEAN, fetch : {"none", "refresh", "handback"}]

Events == [action : {"playing", "query_next", "stop"}, playlist : Playlists \union {NoPlaylist},
           entry : Entries \union {NoEntry}, at : Nat]

Boundaries == [met : BOOLEAN, entry : Entries \union {NoEntry}, finished : BOOLEAN]

Workers == [event : Events, decision : {"neither", "resumed", "ended"}, boundary : Boundaries,
            mode : Modes, lost : BOOLEAN, match : Copies \union {NoCopy},
            attempts : 0..MaxAttempts]

Histories == [cued : Entries \union {NoEntry}, unreported : BOOLEAN, told : Modes]

Detectors == [failures : 0..Confirm, reachable : BOOLEAN]

(* TypeOK in these names. *)
Typed ==
    /\ clock \in Nat
    /\ installed \in Copies \union {NoCopy}
    /\ disk \in States
    /\ state \in States
    /\ detector \in Detectors
    /\ owed \in Owed
    /\ at \in [Threads -> Points]
    /\ stopping \in BOOLEAN
    /\ saving \in [Threads -> States \union {NoState}]
    /\ reporting \in [Threads -> States \union {NoState}]
    /\ tick \in Ticks
    /\ worker \in Workers
    /\ left \in [Bounded -> Nat]
    /\ history \in Histories

LEMMA TypedIsTypeOK == Typed <=> TypeOK
BY DEF Typed, TypeOK, Owed, Points, Ticks, Events, Boundaries, Workers, Histories, Detectors

-----------------------------------------------------------------------------
(* Every value a process starts with has its type. *)
LEMMA InitialValues ==
  /\ NormalState \in States
  /\ FreshDetector \in Detectors
  /\ NothingOwed \in Owed
  /\ Nobody \in [Threads -> States \union {NoState}]
  /\ IdleTick \in Ticks
  /\ NoBoundary \in Boundaries
  /\ \A boundary \in Boundaries : IdleWorker(boundary) \in Workers
<1>1. NormalState \in States
  BY DEF NormalState, NoOccurrence, States, Modes
<1>2. FreshDetector \in Detectors
  BY BoundAssumption DEF FreshDetector, Detectors
<1>3. NothingOwed \in Owed
  BY DEF NothingOwed, Owed
<1>4. Nobody \in [Threads -> States \union {NoState}]
  BY DEF Nobody
<1>5. IdleTick \in Ticks
  BY DEF IdleTick, Ticks
<1>6. NoBoundary \in Boundaries
  BY DEF NoBoundary, Boundaries
<1>7. \A boundary \in Boundaries : IdleWorker(boundary) \in Workers
  <2>1. NoEvent \in Events
    BY DEF NoEvent, Events
  <2> QED  BY <2>1, BoundAssumption DEF IdleWorker, Workers, Modes
<1> QED  BY <1>1, <1>2, <1>3, <1>4, <1>5, <1>6, <1>7

LEMMA GotoType ==
  ASSUME at \in [Threads -> Points], NEW thread \in Threads, NEW point \in Points,
         Goto(thread, point)
  PROVE  at' \in [Threads -> Points]
BY DEF Goto

LEMMA SpendType ==
  ASSUME left \in [Bounded -> Nat], NEW what \in Bounded, Spend(what)
  PROVE  /\ left' \in [Bounded -> Nat]
         /\ \A other \in Bounded \ {what} : left'[other] = left[other]
         /\ left'[what] = left[what] - 1
BY DEF Spend

(* Where a save or a report goes on. *)
LEMMA AfterType ==
  ASSUME NEW thread \in Threads, at[thread] \in SavePoints \union ReportPoints
  PROVE  After(thread) \in Points
<1>1. {"settle", "decide", "hand_report", "gather", "forget", "act", "deliver", "verdict", "clear"}
         \subseteq Points
  BY DEF Points, WorkerPoints, TickPoints
<1> QED  BY <1>1 DEF After, SavePoints, ReportPoints

LEMMA InitTyped == Init => Typed
<1> SUFFICES ASSUME Init PROVE Typed
  OBVIOUS
<1>1. "idle" \in Points
  BY DEF Points, TickPoints
<1>2. installed \in Copies \union {NoCopy}
  BY CopyAssumption DEF Init
<1>3. history \in Histories
  BY DEF Init, Histories, Modes
<1> QED
  BY <1>1, <1>2, <1>3, InitialValues, BoundAssumption DEF Init, Typed

(* Saves and reports, by either thread. *)
LEMMA SharedTyped ==
  ASSUME Typed, NEW thread \in Threads, Shared(thread)
  PROVE  Typed'
<1> USE DEF Typed
<1>1. CASE SaveBegins(thread)
  BY <1>1 DEF SaveBegins, world
<1>2. ASSUME SaveEnds(thread)
      PROVE  /\ UNCHANGED <<world, state, detector, owed, stopping, reporting, tick, worker, history>>
             /\ saving' \in [Threads -> States \union {NoState}]
             /\ at' \in [Threads -> Points]
  <2>1. After(thread) \in Points
    BY <1>2, AfterType DEF SaveEnds
  <2> QED  BY <1>2, <2>1, GotoType DEF SaveEnds
<1>3. CASE SaveWrites(thread)
  BY <1>2, <1>3 DEF SaveWrites, SaveEnds, world
<1>4. CASE SaveFails(thread)
  <2>1. left' \in [Bounded -> Nat]
    BY <1>4, SpendType DEF SaveFails, Bounded
  <2> QED  BY <1>2, <1>4, <2>1 DEF SaveFails, world
<1>5. CASE ReportBegins(thread)
  BY <1>5 DEF ReportBegins, world, Owed
<1>6. CASE ReportSent(thread)
  <2>1. at' \in [Threads -> Points]
    BY <1>6, AfterType, GotoType DEF ReportSent
  <2>2. history' \in Histories
    BY <1>6 DEF ReportSent, Histories, States
  <2> QED  BY <1>6, <2>1, <2>2 DEF ReportSent, world
<1>t. TimeUsed(thread) => tick' \in Ticks
  BY DEF TimeUsed, Ticks
<1>7. CASE EnterRestingAtCutoff(thread)
  <2>1. state' \in States /\ owed' \in Owed
    BY <1>7 DEF EnterRestingAtCutoff, States, Modes, Owed
  <2>2. at' \in [Threads -> Points]
    BY <1>7, GotoType DEF EnterRestingAtCutoff, Points, TickPoints
  <2> QED  BY <1>7, <1>t, <2>1, <2>2 DEF EnterRestingAtCutoff, world, locks
<1>8. CASE CutoffNotReached(thread)
  <2>1. at' \in [Threads -> Points]
    BY <1>8, GotoType DEF CutoffNotReached, Points, TickPoints, WorkerPoints
  <2> QED  BY <1>8, <1>t, <2>1 DEF CutoffNotReached, world, locks
<1> QED  BY <1>1, <1>3, <1>4, <1>5, <1>6, <1>7, <1>8 DEF Shared

(* Both threads hand back. *)
LEMMA HandBackTyped ==
  ASSUME Typed, NEW thread \in Threads, HandBack(thread)
  PROVE  Typed'
<1> USE DEF Typed
<1>1. at' \in [Threads -> Points]
  BY GotoType DEF HandBack, Points, TickPoints, WorkerPoints
<1>2. owed' \in Owed
  BY DEF HandBack, OwedAtHandBack, Owed, Detectors
<1>3. history' \in Histories
  BY DEF HandBack, Histories
<1> QED  BY <1>1, <1>2, <1>3, InitialValues DEF HandBack, world, locks

LEMMA PassesTyped ==
  ASSUME Typed, NEW thread \in Threads, NEW from, NEW to \in Points, Passes(thread, from, to)
  PROVE  Typed'
BY GotoType DEF Typed, Passes, world, locks

(* The steps of the tick thread. *)
LEMMA TickTyped ==
  ASSUME Typed, Tick
  PROVE  Typed'
<1> USE DEF Typed
<1>p. {"probe", "cutoff", "gather", "report", "clear", "fetch", "idle"} \subseteq Points
  BY DEF Points, TickPoints
<1>i. TickEnds => at' \in [Threads -> Points] /\ tick' \in Ticks
  BY <1>p, GotoType, InitialValues DEF TickEnds, Threads
<1>1. CASE Shared("tick")
  BY <1>1, SharedTyped DEF Threads
<1>2. CASE \E probe \in BOOLEAN : TickBegins(probe)
  <2>1. PICK probe \in BOOLEAN : TickBegins(probe)
    BY <1>2
  <2>2. tick' \in Ticks
    BY <2>1 DEF TickBegins, Ticks
  <2>3. at' \in [Threads -> Points]
    BY <1>p, <2>1, GotoType DEF TickBegins, Threads
  <2> QED  BY <2>1, <2>2, <2>3 DEF TickBegins, world, locks
<1>3. CASE ProbeAnswered
  <2>1. detector' \in Detectors
    BY <1>3, BoundAssumption DEF ProbeAnswered, Answered, Detectors
  <2>3. owed' \in Owed
    <3> DEFINE r == owed.report \/ ~detector.reachable
    <3>1. r \in BOOLEAN
      OBVIOUS
    <3>2. owed' = [owed EXCEPT !.report = r]
      BY <1>3 DEF ProbeAnswered
    <3> HIDE DEF r
    <3> QED  BY <3>1, <3>2 DEF Owed
  <2>2. at' \in [Threads -> Points]
    BY <1>3, <1>p, GotoType DEF ProbeAnswered, Threads
  <2> QED  BY <1>3, <2>1, <2>2, <2>3 DEF ProbeAnswered, world, locks
<1>4. CASE ProbeFailed
  <2>1. detector' \in Detectors
    BY <1>4, BoundAssumption DEF ProbeFailed, Lost, Detectors
  <2>2. owed' \in Owed
    BY <1>4 DEF ProbeFailed, Owed
  <2>3. history' \in Histories
    BY <1>4 DEF ProbeFailed, Histories
  <2>4. left' \in [Bounded -> Nat]
    BY <1>4, SpendType DEF ProbeFailed, Bounded
  <2>5. at' \in [Threads -> Points]
    BY <1>4, <1>p, GotoType DEF ProbeFailed, Threads
  <2> QED  BY <1>4, <2>1, <2>2, <2>3, <2>4, <2>5 DEF ProbeFailed, world, locks
<1>5. CASE SettleHandsBack
  BY <1>5, HandBackTyped DEF SettleHandsBack, Threads
<1>6. CASE SettlePasses
  BY <1>p, <1>6, PassesTyped DEF SettlePasses, Threads
<1>7. CASE GatherReport
  BY <1>p, <1>7, PassesTyped DEF GatherReport, Threads
<1>8. CASE GatherNoReport
  BY <1>p, <1>8, PassesTyped DEF GatherNoReport, Threads
<1>9. CASE GatherNothing
  BY <1>i, <1>9 DEF GatherNothing, world, locks
<1>10. CASE ClearOwedReport
  <2>1. owed' \in Owed
    BY <1>10 DEF ClearOwedReport, Owed
  <2>2. tick' \in Ticks /\ at' \in [Threads -> Points]
    <3>1. CASE TickEnds
      BY <1>i, <3>1
    <3>2. CASE ~TickEnds
      <4>1. /\ tick' = [tick EXCEPT !.fetch = IF owed.fetch THEN "handback" ELSE "refresh"]
            /\ Goto("tick", "fetch")
        BY <1>10, <3>2 DEF ClearOwedReport
      <4> QED  BY <1>p, <4>1, GotoType DEF Ticks, Threads
    <3> QED  BY <3>1, <3>2
  <2> QED  BY <1>10, <2>1, <2>2 DEF ClearOwedReport, world, locks
<1>11. CASE FetchAnswered
  <2>1. installed' \in Copies \union {NoCopy}
    BY <1>11 DEF FetchAnswered
  <2>2. owed' \in Owed
    BY <1>11 DEF FetchAnswered, Owed
  <2> QED  BY <1>i, <1>11, <2>1, <2>2 DEF FetchAnswered, FetchEnds, locks
<1>12. CASE FetchUnanswered
  <2>1. left' \in [Bounded -> Nat]
    BY <1>12, SpendType DEF FetchUnanswered, Bounded
  <2> QED  BY <1>i, <1>12, <2>1 DEF FetchUnanswered, FetchEnds, locks
<1> QED
  BY <1>1, <1>2, <1>3, <1>4, <1>5, <1>6, <1>7, <1>8, <1>9, <1>10, <1>11, <1>12, Tick
  DEF Tick

(* Draining a callback. *)
LEMMA EventDrainedTyped ==
  ASSUME Typed, EventDrained
  PROVE  Typed'
<1> USE DEF Typed
<1>1. PICK callback \in Callbacks :
          /\ worker' = [worker EXCEPT !.event = [action |-> callback[1],
                             playlist |-> callback[2], entry |-> callback[3], at |-> clock]]
          /\ history' = [history EXCEPT !.cued =
                             IF callback[1] = "playing" /\ callback[3] = @ THEN @ ELSE NoEntry]
  BY DEF EventDrained
<1>2. /\ callback[1] \in {"playing", "query_next", "stop"}
      /\ callback[2] \in Playlists \union {NoPlaylist}
      /\ callback[3] \in Entries \union {NoEntry}
  BY CallbackAssumption
<1> DEFINE e == [action |-> callback[1], playlist |-> callback[2], entry |-> callback[3],
                 at |-> clock]
<1>3. e \in Events
  BY <1>2 DEF Events
<1>4. worker' \in Workers
  <2> HIDE DEF e
  <2>1. worker' = [worker EXCEPT !.event = e]
    BY <1>1 DEF e
  <2> QED  BY <1>3, <2>1 DEF Workers
<1>5. history' \in Histories
  BY <1>1 DEF Histories
<1>6. left' \in [Bounded -> Nat]
  BY SpendType DEF EventDrained, Bounded
<1>7. at' \in [Threads -> Points]
  BY GotoType DEF EventDrained, Threads, Points, WorkerPoints
<1> QED  BY <1>4, <1>5, <1>6, <1>7 DEF EventDrained, world, locks

LEMMA PersistTyped ==
  ASSUME Typed, NEW delivered \in BOOLEAN, NEW save \in Points, NEW next \in Points,
         PersistOccurrence(delivered, save, next)
  PROVE  Typed'
<1> USE DEF Typed
<1>1. event.entry \in Entries \union {NoEntry}
  BY DEF Workers, Events, event
<1> DEFINE o == [present |-> TRUE, entry |-> event.entry, delivered |-> delivered]
<1>2. o \in Occurrences
  BY <1>1 DEF Occurrences
<1>3. state' \in States
  <2>1. state' = state \/ state' = [state EXCEPT !.occurrence = o]
    BY DEF PersistOccurrence
  <2> HIDE DEF o
  <2> QED  BY <1>2, <2>1 DEF States, Occurrences
<1>4. at' \in [Threads -> Points]
  BY GotoType DEF PersistOccurrence, Threads
<1> QED  BY <1>3, <1>4 DEF PersistOccurrence, world, locks

(* The worker's steps after the cutoff. *)
LEMMA WorkerTyped ==
  ASSUME Typed, HandlesEvent
  PROVE  Typed'
<1> USE DEF Typed
<1>p. {"idle", "decide", "hand", "forget", "act", "resume_save", "boundary", "verdict", "resolve",
       "enter", "prepare", "prepare_save", "deliver", "finish_save"} \subseteq Points
  BY DEF Points, WorkerPoints, SavePoints
<1>e. /\ event \in Events /\ worker.boundary \in Boundaries
      /\ event.entry \in Entries \union {NoEntry} /\ event.playlist \in Playlists \union {NoPlaylist}
  BY DEF Workers, Events, event
<1>w. \A point \in Points : Goto("worker", point) => at' \in [Threads -> Points]
  BY GotoType DEF Threads
<1>1. CASE Shared("worker")
  BY <1>1, SharedTyped DEF Threads
<1>2. CASE Decide
  <2>1. worker' \in Workers /\ owed' \in Owed
    BY <1>2 DEF Decide, Workers, Owed
  <2>2. at' \in [Threads -> Points]
    BY <1>2, <1>p, <1>w DEF Decide
  <2> QED  BY <1>2, <2>1, <2>2 DEF Decide, world, locks
<1>3. CASE WorkerHandsBack
  BY <1>3, HandBackTyped DEF WorkerHandsBack, Threads
<1>4. CASE AlreadyHandedBack
  BY <1>p, <1>4, PassesTyped DEF AlreadyHandedBack, Threads
<1>5. CASE Resume
  <2>1. owed' \in Owed
    BY <1>5 DEF Resume, Owed
  <2>2. worker' \in Workers
    <3> DEFINE b == IF IsRecorded
                    THEN [met |-> TRUE, entry |-> event.entry, finished |-> FALSE]
                    ELSE IF owed.forgetBoundary THEN NoBoundary ELSE worker.boundary
    <3>1. b \in Boundaries
      BY <1>e, InitialValues DEF Boundaries
    <3>2. worker' = [worker EXCEPT !.boundary = b]
      BY <1>5 DEF Resume
    <3> HIDE DEF b
    <3> QED  BY <3>1, <3>2 DEF Workers
  <2>3. state' \in States
    BY <1>5 DEF Resume, States
  <2>4. at' \in [Threads -> Points]
    BY <1>5, <1>p, <1>w DEF Resume
  <2> QED  BY <1>5, <2>1, <2>2, <2>3, <2>4 DEF Resume, world, locks
<1>6. CASE Act
  <2>1. worker' \in Workers
    <3> DEFINE b == CASE event.action = "stop" -> [NoBoundary EXCEPT !.finished = worker.boundary.finished]
             [] event.action = "query_next" -> [worker.boundary EXCEPT !.finished = TRUE]
             [] event.action = "playing" ->
                    [met |-> TRUE, entry |-> event.entry, finished |-> FALSE]
    <3>1. b \in Boundaries
      BY <1>e, InitialValues DEF Boundaries, Events
    <3>2. worker' = [worker EXCEPT !.boundary = b]
      BY <1>6 DEF Act
    <3> HIDE DEF b
    <3> QED  BY <3>1, <3>2 DEF Workers
  <2>2. at' \in [Threads -> Points]
    BY <1>6, <1>p, <1>w DEF Act
  <2> QED  BY <1>6, <2>1, <2>2 DEF Act, world, locks
<1>7. CASE ReadBoundary
  <2>1. worker' \in Workers
    <3>1. state.mode \in Modes /\ Lost \in BOOLEAN
      BY DEF States, Lost
    <3> DEFINE l == Lost
               m == state.mode
    <3>2. worker' = [worker EXCEPT !.mode = m, !.lost = l]
      BY <1>7 DEF ReadBoundary
    <3> HIDE DEF l, m
    <3> QED  BY <3>1, <3>2 DEF Workers, l, m
  <2>2. at' \in [Threads -> Points]
    BY <1>7, <1>p, <1>w DEF ReadBoundary
  <2> QED  BY <1>7, <2>1, <2>2 DEF ReadBoundary, world, locks
<1>8. CASE Resolve
  <2>1. worker' \in Workers
    BY <1>8 DEF Resolve, Workers
  <2>2. at' \in [Threads -> Points]
    BY <1>8, <1>p, <1>w DEF Resolve
  <2> QED  BY <1>8, <2>1, <2>2 DEF Resolve, world, locks
<1>9. CASE Enter
  <2>1. worker.match \in Copies \union {NoCopy} /\ NoOccurrence \in Occurrences
    BY DEF Workers, NoOccurrence, Occurrences
  <2>2. state' \in States
    BY <1>9, <1>e, <2>1 DEF Enter, States, Modes, Occurrences
  <2>3. owed' \in Owed
    BY <1>9 DEF Enter, Owed
  <2>4. at' \in [Threads -> Points]
    BY <1>9, <1>p, <1>w DEF Enter
  <2> QED  BY <1>9, <2>2, <2>3, <2>4 DEF Enter, world, locks
<1>10. CASE Prepare
  BY <1>10, <1>p, PersistTyped DEF Prepare
<1>11. CASE SendRequest
  <2>1. worker' \in Workers
    BY <1>11, BoundAssumption DEF SendRequest, AttemptsLeft, Workers
  <2>2. history' \in Histories
    BY <1>11, <1>e DEF SendRequest, Histories
  <2> QED  BY <1>11, <2>1, <2>2 DEF SendRequest, world, locks
<1>12. CASE \E stopped \in BOOLEAN : DeliveryEnds(stopped)
  BY <1>12, <1>p, PersistTyped DEF DeliveryEnds
<1>13. CASE EventEnds
  <2>1. worker' \in Workers
    BY <1>13, <1>e, InitialValues DEF EventEnds
  <2>2. at' \in [Threads -> Points]
    BY <1>13, <1>p, <1>w DEF EventEnds
  <2> QED  BY <1>13, <2>1, <2>2 DEF EventEnds, world, locks
<1> QED
  BY <1>1, <1>2, <1>3, <1>4, <1>5, <1>6, <1>7, <1>8, <1>9, <1>10, <1>11, <1>12, <1>13
  DEF HandlesEvent, PostsSkipped, PostsSent

LEMMA MemoryLostTyped ==
  ASSUME Typed, MemoryLost, left' \in [Bounded -> Nat]
  PROVE  Typed'
<1>1. "down" \in Points
  BY DEF Points, TickPoints
<1>2. history' \in Histories
  BY DEF Typed, MemoryLost, Histories
<1> QED  BY <1>1, <1>2, InitialValues DEF Typed, MemoryLost, world

LEMMA RestartTyped ==
  ASSUME Typed, RestartNormal \/ RestartOver \/ RestartUndecided
  PROVE  Typed'
<1> USE DEF Typed
<1>1. at' \in [Threads -> Points]
  BY DEF RestartNormal, RestartOver, RestartUndecided, Restarts, Points, TickPoints
<1>2. CASE RestartNormal
  BY <1>1, <1>2 DEF RestartNormal, Restarts, world, locks
<1>3. CASE RestartOver
  <2>1. owed' \in Owed /\ history' \in Histories
    BY <1>3 DEF RestartOver, Owed, Histories
  <2> QED  BY <1>1, <1>3, <2>1, InitialValues DEF RestartOver, Restarts, world, locks
<1>4. CASE RestartUndecided
  <2>1. owed' \in Owed
    BY <1>4 DEF RestartUndecided, Owed
  <2> QED  BY <1>1, <1>4, <2>1 DEF RestartUndecided, Restarts, world, locks
<1> QED  BY <1>2, <1>3, <1>4

LEMMA NextTyped == Typed /\ [Next]_vars => Typed'
<1> SUFFICES ASSUME Typed, [Next]_vars PROVE Typed'
  OBVIOUS
<1>1. CASE ClockAdvances
  BY <1>1 DEF ClockAdvances, Typed, locks
<1>2. CASE Tick
  BY <1>2, TickTyped
<1>3. CASE EventDrained
  BY <1>3, EventDrainedTyped
<1>4. CASE HandlesEvent
  BY <1>4, WorkerTyped
<1>5. CASE StopRequested
  <2>1. left' \in [Bounded -> Nat]
    BY <1>5, SpendType DEF StopRequested, Bounded, Typed
  <2> QED  BY <1>5, <2>1 DEF StopRequested, Typed, world, locks
<1>6. CASE Exit
  BY <1>6, MemoryLostTyped DEF Exit, Typed
<1>7. CASE Crash
  <2>1. left' \in [Bounded -> Nat]
    BY <1>7, SpendType DEF Crash, Bounded, Typed
  <2> QED  BY <1>7, <2>1, MemoryLostTyped DEF Crash
<1>8. CASE RestartNormal \/ RestartOver \/ RestartUndecided
  BY <1>8, RestartTyped
<1>9. CASE UNCHANGED vars
  BY <1>9 DEF vars, world, locks, Typed
<1> QED  BY <1>1, <1>2, <1>3, <1>4, <1>5, <1>6, <1>7, <1>8, <1>9 DEF Next

(* Every variable keeps its type, and no node gets more requests for an    *)
(* entry than MaxAttempts, whatever restarts come in between.              *)
THEOREM TypeCorrect == Spec => []TypeOK
<1>1. Init => Typed
  BY InitTyped
<1>2. Typed /\ [Next]_vars => Typed'
  BY NextTyped
<1>3. Typed => TypeOK
  BY TypedIsTypeOK
<1> QED  BY <1>1, <1>2, <1>3, PTL DEF Spec
-----------------------------------------------------------------------------
(* What the invariants below need to know of a step.  Telling is a step on *)
(* the way to a report, Moves any step of a thread that is neither a save  *)
(* nor a report.                                                           *)
Telling == ReportPoints \union {"hand_save_report"}

Quiet ==
    /\ UNCHANGED <<disk, state, detector, owed, at, locks, worker, history>>
    /\ left'["saves"] = left["saves"]

Moves(thread) ==
    /\ at[thread] \notin SavePoints \union ReportPoints \union {"down"}
    /\ UNCHANGED <<disk, locks>>
    /\ left'["saves"] = left["saves"]
    /\ history'.told = history.told
    /\ \E point \in Points \ {"down"} :
          /\ Goto(thread, point)
          /\ thread = "worker" => point # "report"
          /\ \/ state' = state
             \/ point \in SavePoints
             \/ thread = "worker" /\ point = "prepare" /\ state'.mode = "fallback"
          /\ at[thread] = "prepare" /\ state.mode = "fallback" => point \in SavePoints
          /\ \/ point = "hand_save_report"
             \/ /\ state'.mode = state.mode \/ owed'.report
                /\ owed.report => owed'.report
                /\ detector'.reachable => detector.reachable \/ owed'.report

Ends == MemoryLost /\ left'["saves"] = left["saves"]

Process == Ends \/ RestartNormal \/ RestartOver \/ RestartUndecided

Waits(thread) ==
    \/ SaveBegins(thread)
    \/ SaveWrites(thread)
    \/ SaveFails(thread)
    \/ ReportBegins(thread)
    \/ ReportSent(thread)

LEMMA SharedSteps ==
  ASSUME Typed, NEW thread \in Threads, Shared(thread)
  PROVE  Waits(thread) \/ Moves(thread)
<1>p. {"rest_save", "settle", "decide"} \subseteq Points \ {"down"}
  BY DEF Points, WorkerPoints, TickPoints
<1>1. CASE EnterRestingAtCutoff(thread)
  <2>1. owed'.report
    BY <1>1 DEF EnterRestingAtCutoff, Typed, Owed
  <2> QED
    BY <1>p, <1>1, <2>1 DEF EnterRestingAtCutoff, Moves, SavePoints, ReportPoints
<1>2. CASE CutoffNotReached(thread)
  BY <1>p, <1>2 DEF CutoffNotReached, Moves, SavePoints, ReportPoints
<1> QED  BY <1>1, <1>2 DEF Shared, Waits

LEMMA HandBackMoves ==
  ASSUME Typed, NEW thread \in Threads, HandBack(thread),
         at[thread] \in {"settle", "hand"}
  PROVE  Moves(thread)
<1>p. {"hand_save", "hand_save_report"} \subseteq Points \ {"down"}
  BY DEF Points, WorkerPoints, TickPoints
<1>1. owed'.report = ~detector.reachable /\ UNCHANGED detector /\ history'.told = history.told
  BY DEF HandBack, OwedAtHandBack, Typed, Histories
<1>2. CASE detector.reachable
  BY <1>p, <1>1, <1>2 DEF HandBack, Moves, SavePoints, ReportPoints
<1>3. CASE ~detector.reachable
  BY <1>p, <1>1, <1>3 DEF HandBack, Moves, SavePoints, ReportPoints
<1> QED  BY <1>2, <1>3

LEMMA TickSteps ==
  ASSUME Typed, Tick
  PROVE  \/ Waits("tick")
         \/ Moves("tick")
<1> USE DEF Moves, Goto, SavePoints, ReportPoints
<1>p. {"probe", "cutoff", "gather", "report", "clear", "fetch", "idle"} \subseteq Points \ {"down"}
  BY DEF Points, TickPoints
<1>s. \A what \in Bounded \ {"saves"} : Spend(what) => left'["saves"] = left["saves"]
  BY SpendType DEF Typed, Bounded
<1>1. CASE Shared("tick")
  BY <1>1, SharedSteps DEF Threads
<1>2. CASE \E probe \in BOOLEAN : TickBegins(probe)
  BY <1>p, <1>2 DEF TickBegins
<1>3. CASE ProbeAnswered
  <2>1. owed'.report = (owed.report \/ ~detector.reachable) /\ detector'.reachable
    BY <1>3 DEF ProbeAnswered, Answered, Typed, Owed
  <2> QED  BY <1>p, <1>3, <2>1 DEF ProbeAnswered
<1>4. CASE ProbeFailed
  <2>1. owed'.report = owed.report /\ ~detector'.reachable /\ history'.told = history.told
    BY <1>4 DEF ProbeFailed, Typed, Owed, Histories
  <2>2. left'["saves"] = left["saves"]
    BY <1>4, <1>s DEF ProbeFailed, Bounded
  <2> QED  BY <1>p, <1>4, <2>1, <2>2 DEF ProbeFailed
<1>5. CASE SettleHandsBack
  BY <1>5, HandBackMoves DEF SettleHandsBack, Threads
<1>6. CASE SettlePasses
  BY <1>p, <1>6 DEF SettlePasses, Passes
<1>7. CASE GatherReport
  BY <1>p, <1>7 DEF GatherReport, Passes
<1>8. CASE GatherNoReport
  BY <1>p, <1>8 DEF GatherNoReport, Passes
<1>9. CASE GatherNothing
  BY <1>p, <1>9 DEF GatherNothing, TickEnds
<1>10. CASE ClearOwedReport
  <2>1. owed'.report = owed.report
    BY <1>10 DEF ClearOwedReport, Typed, Owed
  <2>2. Goto("tick", "fetch") \/ Goto("tick", "idle")
    BY <1>10 DEF ClearOwedReport, TickEnds
  <2> QED  BY <1>p, <1>10, <2>1, <2>2 DEF ClearOwedReport
<1>11. CASE FetchAnswered
  <2>1. owed'.report = owed.report
    BY <1>11 DEF FetchAnswered, Typed, Owed
  <2> QED  BY <1>p, <1>11, <2>1 DEF FetchAnswered, FetchEnds, TickEnds
<1>12. CASE FetchUnanswered
  <2>1. left'["saves"] = left["saves"]
    BY <1>12, <1>s DEF FetchUnanswered, Bounded
  <2> QED  BY <1>p, <1>12, <2>1 DEF FetchUnanswered, FetchEnds, TickEnds
<1> QED
  BY <1>1, <1>2, <1>3, <1>4, <1>5, <1>6, <1>7, <1>8, <1>9, <1>10, <1>11, <1>12
  DEF Tick

LEMMA PersistMoves ==
  ASSUME Typed, NEW delivered \in BOOLEAN, NEW save \in SavePoints,
         NEW next \in Points \ {"down", "report"}, PersistOccurrence(delivered, save, next),
         at["worker"] \in {"prepare", "deliver"}
  PROVE  Moves("worker")
<1>1. save \in Points \ {"down", "report"}
  BY DEF Points, WorkerPoints, SavePoints
<1>2. CASE state.mode = "fallback"
  <2> DEFINE o == [present |-> TRUE, entry |-> event.entry, delivered |-> delivered]
  <2>1. state' = [state EXCEPT !.occurrence = o]
    BY <1>2 DEF PersistOccurrence
  <2> HIDE DEF o
  <2>2. state'.mode = state.mode
    BY <2>1 DEF Typed, States
  <2> QED
    BY <1>1, <1>2, <2>2 DEF PersistOccurrence, Moves, SavePoints, ReportPoints
<1>3. CASE state.mode # "fallback"
  BY <1>3 DEF PersistOccurrence, Moves, SavePoints, ReportPoints
<1> QED  BY <1>2, <1>3

LEMMA WorkerSteps ==
  ASSUME Typed, HandlesEvent \/ EventDrained
  PROVE  \/ Waits("worker")
         \/ Moves("worker")
<1> USE DEF Moves, Goto, SavePoints, ReportPoints
<1>p. {"idle", "cutoff", "decide", "hand", "forget", "act", "resume_save", "boundary", "verdict",
       "resolve", "enter", "prepare", "prepare_save", "deliver", "finish_save"}
         \subseteq Points \ {"down"}
  BY DEF Points, WorkerPoints, SavePoints
<1>1. CASE Shared("worker")
  BY <1>1, SharedSteps DEF Threads
<1>2. CASE Decide
  <2>1. owed'.report = owed.report
    BY <1>2 DEF Decide, Typed, Owed
  <2> QED  BY <1>p, <1>2, <2>1 DEF Decide
<1>3. CASE WorkerHandsBack
  BY <1>3, HandBackMoves DEF WorkerHandsBack, Threads
<1>4. CASE AlreadyHandedBack
  BY <1>p, <1>4 DEF AlreadyHandedBack, Passes
<1>5. CASE Resume
  <2>1. owed'.report = owed.report
    BY <1>5 DEF Resume, Typed, Owed
  <2>2. state'.mode = state.mode
    BY <1>5 DEF Resume, Typed, States
  <2>3. CASE ClosesInterrupted
    BY <1>p, <1>5, <2>1, <2>2, <2>3 DEF Resume
  <2>4. CASE ~ClosesInterrupted
    BY <1>p, <1>5, <2>1, <2>4 DEF Resume
  <2> QED  BY <2>3, <2>4
<1>6. CASE Act
  BY <1>p, <1>6 DEF Act
<1>7. CASE ReadBoundary
  BY <1>p, <1>7 DEF ReadBoundary
<1>8. CASE Resolve
  BY <1>p, <1>8 DEF Resolve
<1>9. CASE Enter
  <2>1. owed'.report /\ state'.mode = "fallback"
    BY <1>9 DEF Enter, Typed, Owed
  <2> QED  BY <1>p, <1>9, <2>1 DEF Enter
<1>10. CASE Prepare
  BY <1>10, <1>p, PersistMoves DEF Prepare
<1>11. CASE SendRequest
  <2>1. Goto("worker", "deliver") /\ history'.told = history.told
    BY <1>11 DEF SendRequest, Typed, Histories
  <2> QED  BY <1>p, <1>11, <2>1 DEF SendRequest
<1>12. CASE \E stopped \in BOOLEAN : DeliveryEnds(stopped)
  BY <1>12, <1>p, PersistMoves DEF DeliveryEnds
<1>13. CASE EventEnds
  BY <1>p, <1>13 DEF EventEnds
<1>14. CASE EventDrained
  <2>1. left'["saves"] = left["saves"]
    BY <1>14, SpendType DEF EventDrained, Typed, Bounded
  <2>2. history'.told = history.told
    BY <1>14 DEF EventDrained, Typed, Histories
  <2> QED  BY <1>p, <1>14, <2>1, <2>2 DEF EventDrained
<1> QED
  BY <1>1, <1>2, <1>3, <1>4, <1>5, <1>6, <1>7, <1>8, <1>9, <1>10, <1>11, <1>12, <1>13, <1>14
  DEF HandlesEvent, PostsSkipped, PostsSent

(* Every step is one of these. *)
LEMMA Steps ==
  ASSUME Typed, [Next]_vars
  PROVE  \/ Quiet
         \/ \E thread \in Threads : Waits(thread) \/ Moves(thread)
         \/ Process
<1>s. Spend("ends") => left'["saves"] = left["saves"]
  BY SpendType DEF Typed, Bounded
<1>1. CASE ClockAdvances
  BY <1>1 DEF ClockAdvances, Quiet
<1>2. CASE Tick
  BY <1>2, TickSteps DEF Threads
<1>3. CASE EventDrained \/ HandlesEvent
  BY <1>3, WorkerSteps DEF Threads
<1>4. CASE StopRequested
  BY <1>4, <1>s DEF StopRequested, Quiet
<1>5. CASE Exit
  BY <1>5 DEF Exit, Process, Ends
<1>6. CASE Crash
  BY <1>6, <1>s DEF Crash, Process, Ends
<1>7. CASE RestartNormal \/ RestartOver \/ RestartUndecided
  BY <1>7 DEF Process
<1>8. CASE UNCHANGED vars
  BY <1>8 DEF vars, Quiet
<1> QED  BY <1>1, <1>2, <1>3, <1>4, <1>5, <1>6, <1>7, <1>8 DEF Next
-----------------------------------------------------------------------------
(* A process that is not running remembers nothing; a record is being      *)
(* written or sent only by a thread that is at a point where it does that. *)
Memory ==
    /\ ~Up => /\ state = NormalState /\ detector = FreshDetector
              /\ saving = Nobody /\ reporting = Nobody
              /\ at["worker"] = "down"
    /\ Up => at["worker"] # "down"
    /\ at["worker"] # "report"
    /\ \A thread \in Threads :
          /\ saving[thread] # NoState => at[thread] \in SavePoints
          /\ reporting[thread] # NoState => at[thread] \in ReportPoints

LEMMA InitMemory == Init => Memory
BY DEF Init, Memory, Up, Nobody, Threads

(* Where a thread that is done with a save or a report may go on. *)
LEMMA AfterPoints ==
  ASSUME NEW thread \in Threads
  PROVE  /\ at[thread] \in SavePoints =>
              /\ After(thread) \notin SavePoints \union {"down", "report"}
              /\ at[thread] = "hand_save_report" => After(thread) = "hand_report"
         /\ at[thread] \in ReportPoints => After(thread) \notin SavePoints \union {"down", "report"}
BY DEF After, SavePoints, ReportPoints

LEMMA MemoryKept == Typed /\ Memory /\ [Next]_vars => Memory'
<1> SUFFICES ASSUME Typed, Memory, [Next]_vars PROVE Memory'
  OBVIOUS
<1>d. "down" \notin SavePoints \union ReportPoints /\ SavePoints \intersect ReportPoints = {}
  BY DEF SavePoints, ReportPoints
<1>1. CASE Quiet
  BY <1>1 DEF Quiet, Memory, Up, locks
<1>2. ASSUME NEW thread \in Threads, Waits(thread)
      PROVE  Memory'
  <2>1. CASE SaveBegins(thread)
    BY <1>d, <2>1 DEF SaveBegins, Memory, Up, Typed, Threads
  <2>a. ASSUME NEW point, point \notin SavePoints \union {"down", "report"},
               Goto(thread, point), at[thread] \in SavePoints \union ReportPoints,
               UNCHANGED <<state, detector>>,
               \A other \in Threads :
                  /\ saving'[other] # NoState => other # thread /\ saving[other] # NoState
                  /\ reporting'[other] # NoState => other # thread /\ reporting[other] # NoState
        PROVE  Memory'
    <3>1. Up /\ Up' /\ at'["worker"] \notin {"down", "report"}
      BY <1>d, <2>a DEF Goto, Memory, Up, Typed, Threads
    <3>2. \A other \in Threads \ {thread} : at'[other] = at[other]
      BY <2>a DEF Goto, Typed
    <3> QED  BY <2>a, <3>1, <3>2 DEF Memory
  <2>b. \A other \in Threads :
           /\ at[other] \in SavePoints => reporting[other] = NoState
           /\ at[other] \in ReportPoints => saving[other] = NoState
    BY <1>d DEF Memory
  <2>2. CASE SaveEnds(thread)
    BY <1>d, <2>2, <2>a, <2>b, AfterPoints DEF SaveEnds, Typed
  <2>3. CASE ReportBegins(thread)
    BY <1>d, <2>3 DEF ReportBegins, Memory, Up, Typed, Threads
  <2>4. CASE ReportSent(thread)
    BY <1>d, <2>4, <2>a, <2>b, AfterPoints DEF ReportSent, Typed
  <2> QED  BY <1>2, <2>1, <2>2, <2>3, <2>4 DEF Waits, SaveWrites, SaveFails
<1>3. ASSUME NEW thread \in Threads, Moves(thread)
      PROVE  Memory'
  BY <1>3 DEF Moves, Goto, Memory, Up, Typed, Threads, locks
<1>4. CASE Ends
  BY <1>4 DEF Ends, MemoryLost, Memory, Up, Nobody, Threads
<1>5. CASE RestartNormal \/ RestartOver \/ RestartUndecided
  BY <1>5 DEF RestartNormal, RestartOver, RestartUndecided, Restarts, Memory, Up, Nobody, Threads,
              locks
<1> QED  BY <1>1, <1>2, <1>3, <1>4, <1>5, Steps DEF Process

-----------------------------------------------------------------------------
(* A thread that waits for saveMutex_, or that is writing the state as it  *)
(* is now, makes up for whatever another thread writes before it.          *)
Saves(thread) == at[thread] \in SavePoints /\ saving[thread] \in {NoState, state}

Pending ==
    \/ \E thread \in Threads : Saves(thread)
    \/ at["worker"] = "prepare" /\ state.mode = "fallback"

(* A normal record is NormalState, whoever holds it. *)
OneNormal(record) == record.mode = "normal" => record = NormalState

FileInvariant ==
    /\ saving["tick"] = NoState \/ saving["worker"] = NoState
    /\ left["saves"] <= Budget["saves"]
    /\ OneNormal(disk) /\ OneNormal(state)
    /\ \A thread \in Threads : saving[thread] # NoState => OneNormal(saving[thread])
    /\ Up /\ NoSaveFailed => Pending \/ (disk = state /\ saving = Nobody)

LEMMA InitFile == Init => FileInvariant
<1> SUFFICES ASSUME Init PROVE FileInvariant
  OBVIOUS
<1>1. left["saves"] \in Nat /\ left["saves"] <= Budget["saves"]
  BY BoundAssumption DEF Init, Bounded
<1> QED  BY <1>1, InitialValues DEF Init, FileInvariant, OneNormal, Nobody, Threads

(* No step turns a record into a normal one other than NormalState. *)
LEMMA NormalKept ==
  ASSUME Typed, OneNormal(disk), OneNormal(state), [Next]_vars,
         \A thread \in Threads : saving[thread] # NoState => OneNormal(saving[thread])
  PROVE  /\ OneNormal(disk') /\ OneNormal(state')
         /\ \A thread \in Threads : saving'[thread] # NoState => OneNormal(saving'[thread])
<1> USE DEF OneNormal
<1>1. OneNormal(state')
  <2>1. ASSUME NEW thread \in Threads, HandBack(thread) \/ EnterRestingAtCutoff(thread)
        PROVE  OneNormal(state')
    BY <2>1 DEF HandBack, EnterRestingAtCutoff, Typed, States
  <2>2. ASSUME state' \in States, state'.mode = state.mode,
               state'.mode = "normal" => state' = state
        PROVE  OneNormal(state')
    BY <2>2
  <2>3. CASE Resume
    <3>1. CASE ClosesInterrupted
      BY <2>3, <3>1 DEF Resume, ClosesInterrupted, Typed, States
    <3> QED  BY <2>3, <3>1 DEF Resume
  <2>4. CASE Enter
    BY <2>4 DEF Enter
  <2>5. ASSUME NEW delivered, NEW save, NEW next, PersistOccurrence(delivered, save, next)
        PROVE  OneNormal(state')
    <3> DEFINE o == [present |-> TRUE, entry |-> event.entry, delivered |-> delivered]
    <3>1. state.mode = "fallback" => state' = [state EXCEPT !.occurrence = o]
      BY <2>5 DEF PersistOccurrence
    <3>2. state.mode # "fallback" => state' = state
      BY <2>5 DEF PersistOccurrence
    <3> HIDE DEF o
    <3> QED  BY <3>1, <3>2 DEF Typed, States
  <2>6. CASE UNCHANGED state
    BY <2>6
  <2>7. CASE state' = NormalState \/ state' = disk
    BY <2>7
  <2>8. CASE Shared("tick") \/ Shared("worker")
    BY <2>8, <2>1, <2>6 DEF Shared, SaveBegins, SaveWrites, SaveFails, SaveEnds, ReportBegins,
                            ReportSent, CutoffNotReached, Threads
  <2>9. CASE Tick
    BY <2>1, <2>6, <2>8, <2>9 DEF Tick, TickBegins, ProbeAnswered, ProbeFailed, SettleHandsBack,
         SettlePasses, GatherReport, GatherNoReport, GatherNothing, ClearOwedReport,
         FetchAnswered, FetchUnanswered, FetchEnds, Passes, Threads
  <2>10. CASE HandlesEvent
    BY <2>1, <2>3, <2>4, <2>5, <2>6, <2>8, <2>10
    DEF HandlesEvent, Decide, WorkerHandsBack, AlreadyHandedBack, Act, ReadBoundary, Resolve,
        Prepare, SendRequest, DeliveryEnds, PostsSkipped, PostsSent, EventEnds, Passes, Threads
  <2> QED
    BY <2>6, <2>7, <2>9, <2>10
    DEF Next, ClockAdvances, EventDrained, StopRequested, Exit, Crash, MemoryLost, RestartNormal,
        RestartOver, RestartUndecided, vars
<1>2. CASE Quiet \/ \E thread \in Threads : Moves(thread)
  BY <1>1, <1>2 DEF Quiet, Moves, locks
<1>3. ASSUME NEW thread \in Threads, Waits(thread)
      PROVE  /\ OneNormal(disk')
             /\ \A other \in Threads : saving'[other] # NoState => OneNormal(saving'[other])
  BY <1>3 DEF Waits, SaveBegins, SaveWrites, SaveFails, SaveEnds, ReportBegins, ReportSent, Typed
<1>4. CASE Process
  BY <1>1, <1>4, InitialValues DEF Process, Ends, MemoryLost, RestartNormal, RestartOver,
         RestartUndecided, Restarts, Nobody, Threads, locks, Typed
<1> QED  BY <1>1, <1>2, <1>3, <1>4, Steps

LEMMA FileKept == Typed /\ Memory /\ FileInvariant /\ [Next]_vars => FileInvariant'
<1> SUFFICES ASSUME Typed, Memory, FileInvariant, [Next]_vars PROVE FileInvariant'
  OBVIOUS
<1> DEFINE Rest == /\ saving'["tick"] = NoState \/ saving'["worker"] = NoState
                   /\ left'["saves"] <= Budget["saves"]
                   /\ Up' /\ NoSaveFailed' => Pending' \/ (disk' = state' /\ saving' = Nobody)
<1>s. left["saves"] \in Nat /\ Budget["saves"] \in Nat
  BY BoundAssumption DEF Typed, Bounded
<1>1. CASE Quiet
  BY <1>1 DEF Quiet, FileInvariant, Pending, Saves, Up, NoSaveFailed, locks
<1>2. ASSUME NEW thread \in Threads, SaveBegins(thread)
      PROVE  Rest
  <2>1. Saves(thread)'
    BY <1>2 DEF SaveBegins, Saves, Typed
  <2> QED
    BY <1>2, <2>1 DEF SaveBegins, Free, Nobody, FileInvariant, Pending, Typed, Threads
<1>3. ASSUME NEW thread \in Threads, SaveEnds(thread), NEW record,
             disk' = saving[thread] /\ UNCHANGED left
      PROVE  Rest
  <2>1. \A other \in Threads \ {thread} :
           saving[other] = NoState /\ saving'[other] = NoState /\ at'[other] = at[other]
    BY <1>3 DEF SaveEnds, FileInvariant, Threads, Goto, Typed
  <2>2. saving' = Nobody
    BY <1>3, <2>1 DEF SaveEnds, Nobody, Typed, Threads
  <2>3. CASE \E other \in Threads \ {thread} : Saves(other)
    BY <1>3, <2>1, <2>2, <2>3 DEF SaveEnds, Saves, Pending, FileInvariant, Nobody, Threads
  <2>4. CASE Saves(thread)
    BY <1>3, <2>2, <2>4 DEF SaveEnds, Saves, FileInvariant, Nobody, Threads
  <2>5. CASE at["worker"] = "prepare" /\ state.mode = "fallback"
    <3>1. thread # "worker"
      BY <1>3, <2>5 DEF SaveEnds, SavePoints
    <3> QED  BY <1>3, <2>1, <2>2, <2>5, <3>1 DEF SaveEnds, Pending, FileInvariant, Nobody, Threads
  <2>6. CASE ~Pending
    BY <1>3, <2>2, <2>6 DEF SaveEnds, FileInvariant, Nobody, Threads, Up, NoSaveFailed, Memory,
                            SavePoints
  <2> QED  BY <2>3, <2>4, <2>5, <2>6 DEF Pending
<1>4. ASSUME NEW thread \in Threads, SaveFails(thread)
      PROVE  Rest
  <2>1. left'["saves"] = left["saves"] - 1
    BY <1>4, SpendType DEF SaveFails, Typed, Bounded
  <2>2. left'["saves"] < Budget["saves"]
    BY <1>s, <2>1 DEF FileInvariant
  <2> QED
    BY <1>s, <1>4, <2>1, <2>2 DEF SaveFails, SaveEnds, FileInvariant, NoSaveFailed, Typed, Threads
<1>5. ASSUME NEW thread \in Threads, ReportBegins(thread) \/ ReportSent(thread)
      PROVE  Rest
  <2>1. \A other \in Threads : Saves(other) => Saves(other)'
    BY <1>5 DEF ReportBegins, ReportSent, Saves, Goto, Typed, SavePoints, ReportPoints
  <2>2. at["worker"] = "prepare" => at'["worker"] = "prepare"
    BY <1>5 DEF ReportBegins, ReportSent, Goto, Typed, ReportPoints, Threads
  <2>3. Up
    BY <1>5 DEF Memory, ReportBegins, ReportSent, ReportPoints, Threads, Up
  <2> QED
    BY <1>5, <2>1, <2>2, <2>3
    DEF ReportBegins, ReportSent, FileInvariant, Pending, NoSaveFailed
<1>6. ASSUME NEW thread \in Threads, Moves(thread)
      PROVE  Rest
  <2>1. PICK point \in Points \ {"down"} :
          /\ Goto(thread, point)
          /\ \/ state' = state
             \/ point \in SavePoints
             \/ thread = "worker" /\ point = "prepare" /\ state'.mode = "fallback"
          /\ at[thread] = "prepare" /\ state.mode = "fallback" => point \in SavePoints
    BY <1>6 DEF Moves
  <2>2. /\ saving' = saving /\ disk' = disk /\ left'["saves"] = left["saves"]
        /\ saving[thread] = NoState
        /\ at'[thread] = point
        /\ \A other \in Threads \ {thread} : at'[other] = at[other]
    BY <1>6, <2>1 DEF Moves, Memory, Goto, Typed, locks
  <2>3. CASE point \in SavePoints
    BY <2>2, <2>3 DEF FileInvariant, Pending, Saves
  <2>4. CASE point = "prepare" /\ state'.mode = "fallback" /\ thread = "worker"
    BY <2>2, <2>4 DEF FileInvariant, Pending
  <2>5. CASE state' = state /\ point \notin SavePoints
    <3>1. \A other \in Threads : Saves(other) => Saves(other)'
      BY <1>6, <2>2, <2>5 DEF Saves, Moves
    <3>2. at["worker"] = "prepare" /\ state.mode = "fallback" => at'["worker"] = "prepare"
      BY <2>1, <2>2, <2>5 DEF Threads
    <3> QED  BY <1>6, <2>2, <2>5, <3>1, <3>2 DEF FileInvariant, Pending, NoSaveFailed, Up, Threads, Moves, Memory
  <2> QED  BY <2>1, <2>3, <2>4, <2>5
<1>7. CASE Process
  BY <1>7, InitialValues DEF Process, Ends, MemoryLost, RestartNormal, RestartOver,
         RestartUndecided, Restarts, Nobody, Threads, locks, Memory, Up, FileInvariant, OneNormal
<1>8. CASE Rest
  BY <1>8, NormalKept DEF FileInvariant
<1> QED
  BY <1>1, <1>2, <1>3, <1>4, <1>5, <1>6, <1>7, <1>8, Steps DEF Waits, SaveWrites

(* The newest state is on disk, or a save that will put it there is under  *)
(* way, however the two threads race, as long as no write has failed.      *)
THEOREM FileKeepsUp == Spec => []FileCatchesUp
<1> DEFINE Inv == Typed /\ Memory /\ FileInvariant
<1>1. Init => Inv
  BY InitTyped, InitMemory, InitFile
<1>2. Inv /\ [Next]_vars => Inv'
  BY NextTyped, MemoryKept, FileKept
<1>3. Inv => FileCatchesUp
  BY DEF FileInvariant, FileCatchesUp, Pending, Saves
<1> QED  BY <1>1, <1>2, <1>3, PTL DEF Spec
-----------------------------------------------------------------------------
(* A report under way tells the mode as it is, or another one is to come.  *)
Tells(thread) ==
    \/ at[thread] \in Telling /\ reporting[thread] = NoState
    \/ reporting[thread] # NoState /\ reporting[thread].mode = state.mode

ReportInvariant ==
    /\ reporting["tick"] = NoState \/ reporting["worker"] = NoState
    /\ detector.reachable =>
          \/ owed.report
          \/ \E thread \in Threads : Tells(thread)
          \/ history.told = state.mode /\ reporting = Nobody

LEMMA InitReport == Init => ReportInvariant
BY DEF Init, ReportInvariant, FreshDetector, Nobody, Threads

LEMMA ReportKept == Typed /\ Memory /\ ReportInvariant /\ [Next]_vars => ReportInvariant'
<1> SUFFICES ASSUME Typed, Memory, ReportInvariant, [Next]_vars PROVE ReportInvariant'
  OBVIOUS
<1>1. CASE Quiet
  BY <1>1 DEF Quiet, ReportInvariant, Tells, locks
<1>2. ASSUME NEW thread \in Threads, SaveBegins(thread)
      PROVE  ReportInvariant'
  BY <1>2 DEF SaveBegins, ReportInvariant, Tells
<1>3. ASSUME NEW thread \in Threads, SaveEnds(thread)
      PROVE  ReportInvariant'
  <2>1. \A other \in Threads : Tells(other) => Tells(other)'
    <3>1. at[thread] \in Telling => After(thread) \in Telling
      BY <1>3, AfterPoints DEF SaveEnds, Telling, SavePoints, ReportPoints
    <3> QED  BY <1>3, <3>1 DEF SaveEnds, Tells, Goto, Typed
  <2> QED  BY <1>3, <2>1 DEF SaveEnds, ReportInvariant
<1>4. ASSUME NEW thread \in Threads, ReportBegins(thread)
      PROVE  ReportInvariant'
  <2>1. Tells(thread)'
    BY <1>4 DEF ReportBegins, Tells, Typed, Telling
  <2> QED
    BY <1>4, <2>1 DEF ReportBegins, Free, Nobody, ReportInvariant, Typed, Threads
<1>5. ASSUME NEW thread \in Threads, ReportSent(thread)
      PROVE  ReportInvariant'
  <2>1. \A other \in Threads \ {thread} :
           /\ reporting[other] = NoState /\ reporting'[other] = NoState
           /\ at'[other] = at[other]
    BY <1>5 DEF ReportSent, ReportInvariant, Threads, Goto, Typed
  <2>2. reporting' = Nobody
    BY <1>5, <2>1 DEF ReportSent, Nobody, Typed, Threads
  <2>3. CASE \E other \in Threads \ {thread} : Tells(other)
    BY <1>5, <2>1, <2>2, <2>3 DEF ReportSent, Tells, ReportInvariant, Nobody, Threads
  <2>4. CASE reporting[thread].mode = state.mode
    <3>1. history'.told = state'.mode
      BY <1>5, <2>4 DEF ReportSent, Typed, Histories
    <3> QED  BY <2>2, <3>1 DEF ReportInvariant, Nobody, Threads
  <2>5. CASE owed.report \/ ~detector.reachable
    BY <1>5, <2>2, <2>5 DEF ReportSent, ReportInvariant, Nobody, Threads
  <2>6. reporting # Nobody
    BY <1>5 DEF ReportSent, Nobody
  <2> QED  BY <1>5, <2>3, <2>4, <2>5, <2>6 DEF ReportInvariant, Tells, ReportSent
<1>6. ASSUME NEW thread \in Threads, Moves(thread)
      PROVE  ReportInvariant'
  <2>1. PICK point \in Points \ {"down"} :
          /\ Goto(thread, point)
          /\ \/ point = "hand_save_report"
             \/ /\ state'.mode = state.mode \/ owed'.report
                /\ owed.report => owed'.report
                /\ detector'.reachable => detector.reachable \/ owed'.report
    BY <1>6 DEF Moves
  <2>2. /\ reporting' = reporting /\ history'.told = history.told
        /\ reporting[thread] = NoState
        /\ at[thread] \notin Telling
        /\ at'[thread] = point
        /\ \A other \in Threads \ {thread} : at'[other] = at[other]
    BY <1>6, <2>1 DEF Moves, Memory, Goto, Typed, locks, Telling, SavePoints
  <2>3. CASE point = "hand_save_report"
    BY <2>2, <2>3 DEF ReportInvariant, Tells, Telling
  <2>4. CASE owed'.report
    BY <2>2, <2>4 DEF ReportInvariant
  <2>5. CASE ~owed'.report /\ point # "hand_save_report"
    <3>1. \A other \in Threads : Tells(other) => Tells(other)'
      BY <2>1, <2>2, <2>5 DEF Tells
    <3> QED  BY <2>1, <2>2, <2>5, <3>1 DEF ReportInvariant
  <2> QED  BY <2>3, <2>4, <2>5
<1>7. CASE Process
  BY <1>7 DEF Process, Ends, MemoryLost, FreshDetector, RestartNormal, RestartOver,
         RestartUndecided, Restarts, Nobody, Threads, locks, Memory, Up, ReportInvariant
<1> QED
  BY <1>1, <1>2, <1>3, <1>4, <1>5, <1>6, <1>7, Steps DEF Waits, SaveWrites, SaveFails

(* No change of mode goes untold once the coordinator answers, whichever   *)
(* thread made it and whichever thread reports.                            *)
THEOREM ChangesAreReported == Spec => []EveryChangeIsReported
<1> DEFINE Inv == Typed /\ Memory /\ ReportInvariant
<1>1. Init => Inv
  BY InitTyped, InitMemory, InitReport
<1>2. Inv /\ [Next]_vars => Inv'
  BY NextTyped, MemoryKept, ReportKept
<1>3. Inv => EveryChangeIsReported
  BY DEF ReportInvariant, EveryChangeIsReported, Tells, Telling, Memory
<1> QED  BY <1>1, <1>2, <1>3, PTL DEF Spec
-----------------------------------------------------------------------------
(* What the tick thread cannot do: move the worker, enter fallback, extend *)
(* a cutoff, or record an occurrence.                                      *)
LEMMA TickLeaves ==
  ASSUME Typed, Tick
  PROVE  /\ UNCHANGED worker
         /\ at'["worker"] = at["worker"]
         /\ saving'["worker"] = saving["worker"]
         /\ \/ state' = state
            \/ state' = NormalState /\ ~Normal
            \/ state' = [state EXCEPT !.mode = "resting"] /\ state.mode = "fallback"
<1> USE DEF Goto
<1>1. ASSUME NEW point, at' = [at EXCEPT !["tick"] = point]
      PROVE  at'["worker"] = at["worker"]
  BY <1>1 DEF Typed, Threads
<1>2. CASE Shared("tick")
  BY <1>1, <1>2 DEF Shared, SaveBegins, SaveWrites, SaveFails, SaveEnds, ReportBegins, ReportSent,
         EnterRestingAtCutoff, CutoffNotReached, ReachesCutoff, Typed, Threads, locks
<1>3. CASE SettleHandsBack
  BY <1>1, <1>3 DEF SettleHandsBack, HandBack, locks
<1>4. CASE ClearOwedReport
  BY <1>1, <1>4 DEF ClearOwedReport, TickEnds, locks
<1> QED
  BY <1>1, <1>2, <1>3, <1>4 DEF Tick, TickBegins, ProbeAnswered, ProbeFailed, SettlePasses,
     GatherReport, GatherNoReport, GatherNothing, FetchAnswered, FetchUnanswered, FetchEnds,
     TickEnds, Passes, locks

(* The worker goes on to enter fallback only in normal, and the tick does  *)
(* not leave normal.                                                       *)
EnteringIsNew ==
    /\ at["worker"] = "resolve" /\ worker.mode = "normal" => Normal
    /\ at["worker"] = "enter" => Normal

LEMMA InitEntering == Init => EnteringIsNew
BY DEF Init, EnteringIsNew, Threads

(* The worker's own steps on the way to fallback. *)
LEMMA WorkerEntering ==
  ASSUME Typed, EnteringIsNew, HandlesEvent \/ EventDrained
  PROVE  /\ EnteringIsNew'
         /\ ~Normal /\ ~Normal' => state'.copy = state.copy
<1> USE DEF Goto
<1>g. ASSUME NEW point, at' = [at EXCEPT !["worker"] = point]
      PROVE  at'["worker"] = point
  BY <1>g DEF Typed, Threads
<1>1. CASE Shared("worker")
  <2>1. at'["worker"] \notin {"resolve", "enter"}
    BY <1>g, <1>1 DEF Shared, SaveBegins, SaveWrites, SaveFails, SaveEnds, ReportBegins, ReportSent,
         EnterRestingAtCutoff, CutoffNotReached, After, SavePoints, ReportPoints
  <2>2. state'.copy = state.copy
    BY <1>1 DEF Shared, SaveBegins, SaveWrites, SaveFails, SaveEnds, ReportBegins, ReportSent,
         EnterRestingAtCutoff, CutoffNotReached, Typed, States
  <2> QED  BY <2>1, <2>2 DEF EnteringIsNew
<1>2. CASE WorkerHandsBack
  BY <1>g, <1>2 DEF WorkerHandsBack, HandBack, EnteringIsNew, Normal, NormalState
<1>3. CASE Resume
  <2>1. state'.copy = state.copy
    BY <1>3 DEF Resume, Typed, States
  <2>2. at'["worker"] \in {"resume_save", "act"}
    BY <1>g, <1>3 DEF Resume
  <2> QED  BY <2>1, <2>2 DEF EnteringIsNew
<1>4. CASE ReadBoundary
  <2>1. worker'.mode = state.mode
    BY <1>4 DEF ReadBoundary, Typed, Workers
  <2>2. at'["worker"] = "resolve"
    BY <1>g, <1>4 DEF ReadBoundary
  <2> QED  BY <1>4, <2>1, <2>2 DEF ReadBoundary, EnteringIsNew, Normal
<1>5. CASE Resolve
  <2>1. at'["worker"] \in {"verdict", "enter", "prepare"}
    BY <1>g, <1>5 DEF Resolve
  <2>2. at'["worker"] = "enter" => Normal
    BY <1>g, <1>5 DEF Resolve, EntersFallback, EnteringIsNew
  <2> QED  BY <1>5, <2>1, <2>2 DEF Resolve, EnteringIsNew, Normal
<1>6. CASE Enter
  BY <1>g, <1>6 DEF Enter, EnteringIsNew
<1>7. ASSUME NEW delivered, NEW save, NEW next, PersistOccurrence(delivered, save, next),
             {save, next} \intersect {"resolve", "enter"} = {}
      PROVE  /\ EnteringIsNew'
             /\ state'.copy = state.copy
  <2> DEFINE o == [present |-> TRUE, entry |-> event.entry, delivered |-> delivered]
  <2>1. state' = [state EXCEPT !.occurrence = o] \/ state' = state
    BY <1>7 DEF PersistOccurrence
  <2> HIDE DEF o
  <2>2. state'.copy = state.copy
    BY <2>1 DEF Typed, States
  <2>3. at'["worker"] \in {save, next}
    BY <1>g, <1>7 DEF PersistOccurrence
  <2> QED  BY <1>7, <2>2, <2>3 DEF EnteringIsNew
<1>8. CASE Prepare \/ \E stopped \in BOOLEAN : DeliveryEnds(stopped)
  BY <1>7, <1>8 DEF Prepare, DeliveryEnds
<1>9. CASE SendRequest
  BY <1>9 DEF SendRequest, EnteringIsNew
<1>10. CASE Decide \/ AlreadyHandedBack \/ Act \/ EventEnds \/ EventDrained
  <2>1. at'["worker"] \notin {"resolve", "enter"} /\ UNCHANGED state
    BY <1>g, <1>10 DEF Decide, AlreadyHandedBack, Passes, Act, EventEnds, EventDrained
  <2> QED  BY <2>1 DEF EnteringIsNew
<1> QED
  BY <1>1, <1>2, <1>3, <1>4, <1>5, <1>6, <1>8, <1>9, <1>10
  DEF HandlesEvent, PostsSkipped, PostsSent

LEMMA EnteringKept ==
  ASSUME Typed, Memory, EnteringIsNew, [Next]_vars
  PROVE  /\ EnteringIsNew'
         /\ ~Normal /\ ~Normal' => state'.copy = state.copy
<1>1. CASE Tick
  BY <1>1, TickLeaves DEF EnteringIsNew, Normal, NormalState, Typed, States
<1>2. CASE HandlesEvent \/ EventDrained
  BY <1>2, WorkerEntering
<1>3. CASE Exit \/ Crash
  BY <1>3 DEF Exit, Crash, MemoryLost, EnteringIsNew, Normal, NormalState, Threads
<1>4. CASE RestartNormal \/ RestartOver \/ RestartUndecided
  BY <1>4 DEF RestartNormal, RestartOver, RestartUndecided, Restarts, EnteringIsNew, Normal,
              NormalState, Memory, Threads
<1>5. CASE ClockAdvances \/ StopRequested \/ UNCHANGED vars
  BY <1>5 DEF ClockAdvances, StopRequested, vars, EnteringIsNew, Normal
<1> QED  BY <1>1, <1>2, <1>3, <1>4, <1>5 DEF Next

(* As long as it is the executor this player is held to one copy's cutoff, *)
(* whatever is installed and whichever restarts and stops come in between. *)
THEOREM CutoffKept == Spec => CutoffNeverExtended
<1> DEFINE Inv == Typed /\ Memory /\ EnteringIsNew
<1>1. Init => Inv
  BY InitTyped, InitMemory, InitEntering
<1>2. Inv /\ [Next]_vars => Inv'
  BY NextTyped, MemoryKept, EnteringKept
<1>3. Inv /\ [Next]_vars => [(~Normal /\ ~Normal') => state'.copy = state.copy]_vars
  BY EnteringKept
<1> QED  BY <1>1, <1>2, <1>3, PTL DEF Spec, CutoffNeverExtended
-----------------------------------------------------------------------------
(* A record of this fallback that names the entry the worker is serving. *)
Names(record) ==
    /\ record.mode = "fallback"
    /\ record.copy = state.copy
    /\ record.occurrence.present
    /\ record.occurrence.entry = event.entry

(* From the moment the occurrence is recorded the worker's entry is named  *)
(* by every record a save may put on disk, unless fallback is over.        *)
RecordInvariant ==
    state.mode = "fallback" =>
        /\ at["worker"] = "prepare_save" =>
              /\ Names(state)
              /\ saving["worker"] = NoState \/ Names(saving["worker"])
        /\ at["worker"] = "deliver" /\ NoSaveFailed =>
              /\ Names(state) /\ Names(disk)
              /\ saving["tick"] = NoState \/ Names(saving["tick"])

LEMMA InitRecord == Init => RecordInvariant
BY DEF Init, RecordInvariant, NormalState

LEMMA TickRecord ==
  ASSUME Typed, FileInvariant, RecordInvariant, Tick
  PROVE  RecordInvariant'
<1>1. \/ state' = state
      \/ state'.mode # "fallback"
  BY TickLeaves DEF NormalState, Typed, States
<1>2. UNCHANGED worker /\ at'["worker"] = at["worker"] /\ saving'["worker"] = saving["worker"]
  BY TickLeaves
<1>3. NoSaveFailed' => NoSaveFailed
  <2>1. left'["saves"] \in Nat /\ left["saves"] \in Nat /\ Budget["saves"] \in Nat
    BY NextTyped, BoundAssumption DEF Typed, Next, Bounded
  <2>2. left'["saves"] <= left["saves"]
    BY <2>1, TickSteps, SpendType DEF Moves, Waits, SaveBegins, SaveWrites, SaveFails, ReportBegins, ReportSent,
       Typed, Bounded
  <2> QED  BY <2>1, <2>2 DEF FileInvariant, NoSaveFailed
<1>4. \/ UNCHANGED disk
      \/ disk' = saving["tick"] /\ saving["tick"] # NoState
  BY TickSteps DEF Moves, Waits, SaveBegins, SaveWrites, SaveFails, SaveEnds, ReportBegins, ReportSent
<1>5. saving'["tick"] \in {NoState, state, saving["tick"]}
  BY TickSteps DEF Moves, Waits, SaveBegins, SaveWrites, SaveFails, SaveEnds, ReportBegins,
     ReportSent, locks, Typed, Threads
<1> QED  BY <1>1, <1>2, <1>3, <1>4, <1>5 DEF RecordInvariant, Names, event

LEMMA WorkerRecord ==
  ASSUME Typed, Memory, FileInvariant, RecordInvariant, HandlesEvent \/ EventDrained
  PROVE  RecordInvariant'
<1> USE DEF Goto
<1>g. ASSUME NEW point, at' = [at EXCEPT !["worker"] = point]
      PROVE  at'["worker"] = point
  BY <1>g DEF Typed, Threads
<1>1. ASSUME NEW point, at' = [at EXCEPT !["worker"] = point],
             point \notin {"prepare_save", "deliver"}
      PROVE  RecordInvariant'
  BY <1>1, <1>g DEF RecordInvariant
<1>2. CASE SaveBegins("worker")
  <2>1. saving'["worker"] = state
    BY <1>2 DEF SaveBegins, Typed, Threads
  <2>2. at["worker"] # "deliver"
    BY <1>2 DEF SaveBegins, SavePoints
  <2> QED  BY <1>2, <2>1, <2>2 DEF SaveBegins, RecordInvariant, Names, event
<1>3. CASE SaveWrites("worker")
  <2>1. CASE at["worker"] = "prepare_save"
    <3>1. /\ at'["worker"] = "deliver"
          /\ disk' = saving["worker"] /\ saving["worker"] # NoState
          /\ saving'["tick"] = NoState
          /\ UNCHANGED <<state, worker, left>>
      BY <1>3, <1>g, <2>1 DEF SaveWrites, SaveEnds, After, FileInvariant, Typed, Threads
    <3> QED  BY <2>1, <3>1 DEF RecordInvariant, Names, event
  <2>2. CASE at["worker"] # "prepare_save"
    <3>1. After("worker") \notin {"prepare_save", "deliver"}
      BY <1>3, <2>2 DEF SaveWrites, SaveEnds, After, SavePoints
    <3> QED  BY <1>1, <1>3, <3>1 DEF SaveWrites, SaveEnds
  <2> QED  BY <2>1, <2>2
<1>4. CASE SaveFails("worker")
  <2>1. ~NoSaveFailed'
    <3>1. left'["saves"] = left["saves"] - 1 /\ left["saves"] \in Nat /\ Budget["saves"] \in Nat
      BY <1>4, SpendType, BoundAssumption DEF SaveFails, Typed, Bounded
    <3> QED  BY <3>1 DEF FileInvariant, NoSaveFailed
  <2>2. at'["worker"] # "prepare_save"
    BY <1>4, <1>g DEF SaveFails, SaveEnds, After, SavePoints
  <2> QED  BY <2>1, <2>2 DEF RecordInvariant
<1>5. CASE ReportBegins("worker")
  BY <1>5 DEF ReportBegins, RecordInvariant, Names, event, ReportPoints, NoSaveFailed
<1>6. CASE ReportSent("worker") \/ EnterRestingAtCutoff("worker") \/ CutoffNotReached("worker")
  <2>1. at["worker"] \in ReportPoints => After("worker") \notin {"prepare_save", "deliver"}
    BY DEF ReportPoints, After
  <2> QED  BY <1>1, <1>6, <2>1 DEF ReportSent, EnterRestingAtCutoff, CutoffNotReached
<1>7. CASE Decide \/ WorkerHandsBack \/ AlreadyHandedBack \/ Resume \/ Act \/ ReadBoundary
             \/ Resolve \/ Enter \/ EventEnds \/ EventDrained
  BY <1>1, <1>7 DEF Decide, WorkerHandsBack, HandBack, AlreadyHandedBack, Passes, Resume, Act,
     ReadBoundary, Resolve, Enter, EventEnds, EventDrained
<1>8. CASE Prepare
  <2>1. CASE state.mode = "fallback"
    <3>1. state'.occurrence.entry = event.entry /\ state'.occurrence.present
      <4> DEFINE o == [present |-> TRUE, entry |-> event.entry, delivered |-> FALSE]
      <4>1. state' = [state EXCEPT !.occurrence = o]
        BY <1>8, <2>1 DEF Prepare, PersistOccurrence
      <4>2. o.entry = event.entry /\ o.present
        OBVIOUS
      <4> HIDE DEF o
      <4> QED  BY <4>1, <4>2 DEF Typed, States
    <3>2. at'["worker"] = "prepare_save" /\ UNCHANGED <<worker, saving>>
      BY <1>8, <1>g, <2>1 DEF Prepare, PersistOccurrence, locks
    <3>3. saving["worker"] = NoState
      BY <1>8 DEF Prepare, Memory, SavePoints, Threads
    <3> QED  BY <3>1, <3>2, <3>3 DEF RecordInvariant, Names, event
  <2>2. CASE state.mode # "fallback"
    BY <1>8, <2>2 DEF Prepare, PersistOccurrence, RecordInvariant
  <2> QED  BY <2>1, <2>2
<1>9. CASE SendRequest
  <2>1. event' = event
    BY <1>9 DEF SendRequest, event, Typed, Workers
  <2> QED
    BY <1>9, <2>1 DEF SendRequest, RecordInvariant, Names, NoSaveFailed, locks
<1>10. CASE \E stopped \in BOOLEAN : DeliveryEnds(stopped)
  <2>1. at'["worker"] \in {"finish_save", "verdict"}
    BY <1>g, <1>10 DEF DeliveryEnds, PersistOccurrence
  <2> QED  BY <2>1 DEF RecordInvariant
<1> QED
  BY <1>2, <1>3, <1>4, <1>5, <1>6, <1>7, <1>8, <1>9, <1>10
  DEF HandlesEvent, PostsSkipped, PostsSent, Shared

LEMMA RecordKept ==
  ASSUME Typed, Memory, FileInvariant, RecordInvariant, [Next]_vars
  PROVE  RecordInvariant'
<1>1. CASE Tick
  BY <1>1, TickRecord
<1>2. CASE HandlesEvent \/ EventDrained
  BY <1>2, WorkerRecord
<1>3. CASE Exit \/ Crash \/ RestartNormal \/ RestartOver \/ RestartUndecided
  BY <1>3 DEF Exit, Crash, MemoryLost, RestartNormal, RestartOver, RestartUndecided, Restarts,
              RecordInvariant, Threads
<1>4. CASE ClockAdvances
  BY <1>4 DEF ClockAdvances, locks, RecordInvariant, Names, event, NoSaveFailed
<1>5. CASE StopRequested
  <2>1. left'["saves"] = left["saves"]
    BY <1>5, SpendType DEF StopRequested, Typed, Bounded
  <2> QED  BY <1>5, <2>1 DEF StopRequested, locks, RecordInvariant, Names, event, NoSaveFailed
<1>6. CASE UNCHANGED vars
  BY <1>6 DEF vars, locks, RecordInvariant, Names, event, NoSaveFailed
<1> QED  BY <1>1, <1>2, <1>3, <1>4, <1>5, <1>6 DEF Next

(* No activation leaves before the occurrence it is for is on disk, as     *)
(* long as no write has failed, so a restart knows what may have been sent. *)
THEOREM RecordedFirst == Spec => RecordedBeforeItLeaves
<1> DEFINE Inv == Typed /\ Memory /\ FileInvariant /\ RecordInvariant
<1>1. Init => Inv
  BY InitTyped, InitMemory, InitFile, InitRecord
<1>2. Inv /\ [Next]_vars => Inv'
  BY NextTyped, MemoryKept, FileKept, RecordKept
<1>3. Inv /\ [Next]_vars => [(SendRequest /\ state.mode = "fallback" /\ NoSaveFailed)
          => disk.mode = "fallback" /\ disk.occurrence.entry = event.entry]_vars
  BY DEF RecordInvariant, Names, SendRequest
<1> QED  BY <1>1, <1>2, <1>3, PTL DEF Spec, RecordedBeforeItLeaves
-----------------------------------------------------------------------------
(* The thread that handed back is on its way to the report of that.        *)
Handing(thread) == at[thread] \in {"hand_save_report", "hand_report"}

(* A loss or a hand-back that was not reported is remembered: posts wait   *)
(* for the report, or a thread is about to send it; and the tick lets the  *)
(* posts go only with a report behind it.                                  *)
TellInvariant ==
    /\ ~Up => ~history.unreported
    /\ at["tick"] \in {"report", "clear"} => detector.reachable
    /\ at["tick"] = "clear" /\ history.unreported => Handing("worker")
    /\ history.unreported =>
          /\ owed.reportBeforePosts \/ \E thread \in Threads : Handing(thread)
          /\ detector.reachable => owed.report \/ \E thread \in Threads : at[thread] \in Telling

LEMMA InitTell == Init => TellInvariant
BY DEF Init, TellInvariant, Threads, Up

(* A step that leaves what was told alone, between points where nothing is *)
(* told.                                                                   *)
LEMMA TellFrame ==
  ASSUME Typed, TellInvariant, NEW thread \in Threads,
         NEW point, point \notin Telling \union {"down", "report", "clear"}, Goto(thread, point),
         at[thread] \notin Telling \union {"down"}, UNCHANGED <<detector, history.unreported>>,
         owed.report => owed'.report, owed.reportBeforePosts => owed'.reportBeforePosts
  PROVE  TellInvariant'
<1>1. /\ at'[thread] = point
      /\ \A other \in Threads \ {thread} : at'[other] = at[other]
  BY DEF Goto, Typed
<1>2. \A other \in Threads : /\ Handing(other) => Handing(other)'
                             /\ at[other] \in Telling => at'[other] \in Telling
  BY <1>1 DEF Handing, Telling, ReportPoints
<1> QED  BY <1>1, <1>2 DEF TellInvariant, Up, Threads

LEMMA SharedTell ==
  ASSUME Typed, Memory, TellInvariant, NEW thread \in Threads, Shared(thread)
  PROVE  TellInvariant'
<1>1. CASE SaveBegins(thread)
  BY <1>1 DEF SaveBegins, TellInvariant, Handing, Up
<1>2. CASE SaveEnds(thread)
  <2>1. CASE at[thread] = "hand_save_report"
    <3>1. /\ at'[thread] = "hand_report"
          /\ \A other \in Threads \ {thread} : at'[other] = at[other]
      BY <1>2, <2>1, AfterPoints DEF SaveEnds, Goto, Typed
    <3>2. \A other \in Threads : /\ Handing(other) => Handing(other)'
                                 /\ at[other] \in Telling => at'[other] \in Telling
      BY <3>1 DEF Handing, Telling, ReportPoints
    <3> QED  BY <1>2, <2>1, <3>1, <3>2 DEF SaveEnds, TellInvariant, Up, Threads
  <2>2. CASE at[thread] # "hand_save_report"
    <3>1. After(thread) \notin Telling \union {"down", "report", "clear"}
      BY <1>2, <2>2 DEF SaveEnds, After, SavePoints, Telling, ReportPoints
    <3>2. at[thread] \notin Telling \union {"down"}
      BY <1>2, <2>2 DEF SaveEnds, SavePoints, Telling, ReportPoints
    <3> QED  BY <1>2, <3>1, <3>2, TellFrame DEF SaveEnds
  <2> QED  BY <2>1, <2>2
<1>3. CASE ReportBegins(thread)
  <2>1. owed'.reportBeforePosts = owed.reportBeforePosts /\ at[thread] \in Telling
    BY <1>3 DEF ReportBegins, Typed, Owed, Telling
  <2> QED  BY <1>3, <2>1 DEF ReportBegins, TellInvariant, Handing, Up
<1>4. CASE ReportSent(thread)
  <2>1. ~history'.unreported
    BY <1>4 DEF ReportSent, Typed, Histories
  <2>2. at'["tick"] \in {"report", "clear"} => at["tick"] \in {"report", "clear"}
    BY <1>4 DEF ReportSent, Goto, After, Typed, ReportPoints, Threads
  <2> QED  BY <1>4, <2>1, <2>2 DEF ReportSent, TellInvariant
<1>5. CASE EnterRestingAtCutoff(thread)
  <2>1. owed'.report /\ owed'.reportBeforePosts = owed.reportBeforePosts
    BY <1>5 DEF EnterRestingAtCutoff, Typed, Owed
  <2> QED
    BY <1>5, <2>1, TellFrame DEF EnterRestingAtCutoff, Telling, ReportPoints
<1>6. CASE CutoffNotReached(thread)
  BY <1>6, TellFrame DEF CutoffNotReached, Telling, ReportPoints
<1> QED  BY <1>1, <1>2, <1>3, <1>4, <1>5, <1>6 DEF Shared, SaveWrites, SaveFails

LEMMA HandBackTell ==
  ASSUME Typed, Memory, TellInvariant, NEW thread \in Threads, HandBack(thread),
         at[thread] \in {"settle", "hand"}
  PROVE  TellInvariant'
<1>1. /\ history'.unreported /\ UNCHANGED detector
      /\ owed'.reportBeforePosts = ~detector.reachable /\ owed'.report = ~detector.reachable
  BY DEF HandBack, OwedAtHandBack, Typed, Histories
<1>2. /\ at'[thread] = IF detector.reachable THEN "hand_save_report" ELSE "hand_save"
      /\ \A other \in Threads \ {thread} : at'[other] = at[other]
  BY DEF HandBack, Goto, Typed
<1>3. Up /\ Up'
  BY <1>2 DEF Memory, Up, Threads
<1>4. at'["tick"] \in {"report", "clear"} => thread = "worker" /\ at["tick"] = at'["tick"]
  BY <1>2 DEF Threads
<1>5. CASE detector.reachable
  <2>1. Handing(thread)' /\ at'[thread] \in Telling
    BY <1>2, <1>5 DEF Handing, Telling
  <2> QED  BY <1>1, <1>3, <1>4, <1>5, <2>1 DEF TellInvariant
<1>6. CASE ~detector.reachable
  BY <1>1, <1>3, <1>4, <1>6 DEF TellInvariant
<1> QED  BY <1>5, <1>6

LEMMA TickTell ==
  ASSUME Typed, Memory, TellInvariant, Tick
  PROVE  TellInvariant'
<1> USE DEF Telling, ReportPoints
<1>1. CASE Shared("tick")
  BY <1>1, SharedTell DEF Threads
<1>2. CASE \E probe \in BOOLEAN : TickBegins(probe)
  BY <1>2, TellFrame DEF TickBegins, Threads
<1>w. ASSUME NEW point, point \notin {"down", "report", "clear"}, Goto("tick", point),
             at["tick"] = "probe"
      PROVE  /\ Up' /\ at'["tick"] = point /\ at'["worker"] = at["worker"]
             /\ \A other \in Threads : /\ Handing(other) => Handing(other)'
                                       /\ at[other] \in Telling => at'[other] \in Telling
  BY <1>w DEF Goto, Typed, Threads, Up, Handing
<1>3. CASE ProbeAnswered
  <2>1. /\ detector.reachable \/ owed'.report
        /\ owed.report => owed'.report
        /\ owed'.reportBeforePosts = owed.reportBeforePosts
    BY <1>3 DEF ProbeAnswered, Typed, Owed
  <2> QED  BY <1>3, <1>w, <2>1 DEF ProbeAnswered, TellInvariant
<1>4. CASE ProbeFailed
  <2>1. /\ ~detector'.reachable
        /\ owed.reportBeforePosts => owed'.reportBeforePosts
        /\ history'.unreported => history.unreported \/ owed'.reportBeforePosts
    BY <1>4 DEF ProbeFailed, Typed, Owed, Histories
  <2> QED  BY <1>4, <1>w, <2>1 DEF ProbeFailed, TellInvariant
<1>5. CASE SettleHandsBack
  BY <1>5, HandBackTell DEF SettleHandsBack, Threads
<1>6. CASE SettlePasses
  BY <1>6, TellFrame DEF SettlePasses, Passes, Threads
<1>7. CASE GatherReport
  BY <1>7 DEF GatherReport, Passes, Goto, TellInvariant, Handing, Typed, Threads, Up
<1>8. CASE GatherNoReport
  <2>1. history.unreported => Handing("worker")
    BY <1>8 DEF GatherNoReport, Passes, TellInvariant, Handing, Memory, Threads
  <2> QED
    BY <1>8, <2>1 DEF GatherNoReport, Passes, Goto, TellInvariant, Handing, Typed, Threads, Up
<1>9. CASE GatherNothing
  BY <1>9, TellFrame DEF GatherNothing, TickEnds, Threads
<1>10. CASE ClearOwedReport
  <2>1. owed'.report = owed.report
    BY <1>10 DEF ClearOwedReport, Typed, Owed
  <2>2. PICK point \in {"fetch", "idle"} : Goto("tick", point)
    BY <1>10 DEF ClearOwedReport, TickEnds
  <2>3. at'["tick"] = point /\ at'["worker"] = at["worker"]
    BY <2>2 DEF Goto, Typed, Threads
  <2> QED
    BY <1>10, <2>1, <2>3 DEF ClearOwedReport, TellInvariant, Handing, Threads, Up
<1>11. CASE FetchAnswered
  <2>1. owed'.report = owed.report /\ owed'.reportBeforePosts = owed.reportBeforePosts
    BY <1>11 DEF FetchAnswered, Typed, Owed
  <2> QED  BY <1>11, <2>1, TellFrame DEF FetchAnswered, FetchEnds, TickEnds, Threads
<1>12. CASE FetchUnanswered
  BY <1>12, TellFrame DEF FetchUnanswered, FetchEnds, TickEnds, Threads
<1> QED
  BY <1>1, <1>2, <1>3, <1>4, <1>5, <1>6, <1>7, <1>8, <1>9, <1>10, <1>11, <1>12
  DEF Tick

LEMMA WorkerTell ==
  ASSUME Typed, Memory, TellInvariant, HandlesEvent \/ EventDrained
  PROVE  TellInvariant'
<1> USE DEF Telling, ReportPoints
<1>f. ASSUME NEW point, point \notin Telling \union {"down", "report", "clear"}, Goto("worker", point),
             at["worker"] \notin Telling \union {"down"},
             UNCHANGED <<detector, history.unreported>>,
             owed.report => owed'.report, owed.reportBeforePosts => owed'.reportBeforePosts
      PROVE  TellInvariant'
  BY <1>f, TellFrame DEF Threads
<1>1. CASE Shared("worker")
  BY <1>1, SharedTell DEF Threads
<1>2. CASE Decide
  <2>1. owed'.report = owed.report /\ owed'.reportBeforePosts = owed.reportBeforePosts
    BY <1>2 DEF Decide, Typed, Owed
  <2> QED  BY <1>2, <1>f, <2>1 DEF Decide
<1>3. CASE WorkerHandsBack
  BY <1>3, HandBackTell DEF WorkerHandsBack, Threads
<1>4. CASE Resume
  <2>1. owed'.report = owed.report /\ owed'.reportBeforePosts = owed.reportBeforePosts
    BY <1>4 DEF Resume, Typed, Owed
  <2> QED  BY <1>4, <1>f, <2>1 DEF Resume
<1>5. CASE Enter
  <2>1. owed'.report /\ owed'.reportBeforePosts = owed.reportBeforePosts
    BY <1>5 DEF Enter, Typed, Owed
  <2> QED  BY <1>5, <1>f, <2>1 DEF Enter
<1>6. CASE SendRequest
  <2>1. UNCHANGED <<at, detector, owed, history.unreported>>
    BY <1>6 DEF SendRequest, Typed, Histories
  <2> QED  BY <2>1 DEF TellInvariant, Handing, Up
<1>7. CASE EventDrained
  <2>1. UNCHANGED history.unreported
    BY <1>7 DEF EventDrained, Typed, Histories
  <2> QED  BY <1>7, <1>f, <2>1 DEF EventDrained
<1>8. CASE AlreadyHandedBack \/ Act \/ ReadBoundary \/ Resolve \/ EventEnds
  BY <1>8, <1>f DEF AlreadyHandedBack, Passes, Act, ReadBoundary, Resolve, EventEnds
<1>9. CASE Prepare \/ \E stopped \in BOOLEAN : DeliveryEnds(stopped)
  BY <1>9, <1>f DEF Prepare, DeliveryEnds, PersistOccurrence
<1> QED
  BY <1>1, <1>2, <1>3, <1>4, <1>5, <1>6, <1>7, <1>8, <1>9
  DEF HandlesEvent, PostsSkipped, PostsSent

LEMMA TellKept == Typed /\ Memory /\ TellInvariant /\ [Next]_vars => TellInvariant'
<1> SUFFICES ASSUME Typed, Memory, TellInvariant, [Next]_vars PROVE TellInvariant'
  OBVIOUS
<1>1. CASE Tick
  BY <1>1, TickTell
<1>2. CASE HandlesEvent \/ EventDrained
  BY <1>2, WorkerTell
<1>3. CASE Exit \/ Crash
  <2>1. ~history'.unreported
    BY <1>3 DEF Exit, Crash, MemoryLost, Typed, Histories
  <2> QED  BY <1>3, <2>1 DEF Exit, Crash, MemoryLost, TellInvariant, Threads
<1>4. CASE RestartNormal \/ RestartOver \/ RestartUndecided
  <2>1. ~history'.unreported
    BY <1>4 DEF RestartNormal, RestartOver, RestartUndecided, Restarts, TellInvariant, Typed,
                Histories
  <2> QED
    BY <1>4, <2>1 DEF RestartNormal, RestartOver, RestartUndecided, Restarts, TellInvariant, Threads
<1>5. CASE ClockAdvances \/ StopRequested \/ UNCHANGED vars
  BY <1>5 DEF ClockAdvances, StopRequested, vars, TellInvariant, Handing, Up
<1> QED  BY <1>1, <1>2, <1>3, <1>4, <1>5 DEF Next

(* After a loss or a hand-back the report comes before the next post,      *)
(* except while the tick that handed back is still on its way to send it.  *)
THEOREM ReportComesFirst == Spec => NoPostBeforeTheReport
<1> DEFINE Inv == Typed /\ Memory /\ TellInvariant
<1>1. Init => Inv
  BY InitTyped, InitMemory, InitTell
<1>2. Inv /\ [Next]_vars => Inv'
  BY NextTyped, MemoryKept, TellKept
<1>3. Inv /\ [Next]_vars => [PostsSent => ~history.unreported \/ TickOwesItsReport]_vars
  BY DEF PostsSent, EventEnds, Suspends, PostsSuspended, TellInvariant, Handing, Threads,
         TickOwesItsReport
<1> QED  BY <1>1, <1>2, <1>3, PTL DEF Spec, NoPostBeforeTheReport
-----------------------------------------------------------------------------
(* What a step does to the state and to the records of it.                 *)
LEMMA StateSteps ==
  ASSUME Typed, [Next]_vars
  PROVE  \/ state' = state
         \/ state' = NormalState
         \/ \E thread \in Threads : EnterRestingAtCutoff(thread)
         \/ Enter
         \/ RestartUndecided
         \/ /\ state.mode = "fallback" /\ state'.mode = "fallback"
            /\ state'.copy = state.copy
            /\ state'.occurrence.present
            /\ \/ at["worker"] = "forget" /\ state'.occurrence.entry = state.occurrence.entry
               \/ /\ at["worker"] \in {"prepare", "deliver"}
                  /\ state'.occurrence.entry = event.entry
<1> DEFINE Recorded ==
            /\ state.mode = "fallback" /\ state'.mode = "fallback"
            /\ state'.copy = state.copy
            /\ state'.occurrence.present
            /\ \/ at["worker"] = "forget" /\ state'.occurrence.entry = state.occurrence.entry
               \/ /\ at["worker"] \in {"prepare", "deliver"}
                  /\ state'.occurrence.entry = event.entry
<1>1. ASSUME NEW thread \in Threads, Shared(thread)
      PROVE  UNCHANGED state \/ EnterRestingAtCutoff(thread)
  BY <1>1 DEF Shared, SaveBegins, SaveWrites, SaveFails, SaveEnds, ReportBegins, ReportSent,
              CutoffNotReached
<1>2. CASE Resume
  <2>1. CASE ClosesInterrupted
    BY <1>2, <2>1 DEF Resume, ClosesInterrupted, Typed, States
  <2> QED  BY <1>2, <2>1 DEF Resume
<1>3. ASSUME NEW delivered, NEW save, NEW next, PersistOccurrence(delivered, save, next),
             at["worker"] \in {"prepare", "deliver"}
      PROVE  state' = state \/ Recorded
  <2> DEFINE o == [present |-> TRUE, entry |-> event.entry, delivered |-> delivered]
  <2>1. state.mode = "fallback" => state' = [state EXCEPT !.occurrence = o]
    BY <1>3 DEF PersistOccurrence
  <2>2. state.mode # "fallback" => state' = state
    BY <1>3 DEF PersistOccurrence
  <2>3. o.present /\ o.entry = event.entry
    OBVIOUS
  <2> HIDE DEF o
  <2> QED  BY <1>3, <2>1, <2>2, <2>3 DEF Typed, States
<1> HIDE DEF Recorded
<1>4. CASE Tick
  BY <1>1, <1>4 DEF Tick, TickBegins, ProbeAnswered, ProbeFailed, SettleHandsBack, HandBack,
         SettlePasses, GatherReport, GatherNoReport, GatherNothing, ClearOwedReport,
         FetchAnswered, FetchUnanswered, FetchEnds, Passes, Threads
<1>5. CASE HandlesEvent
  <2>1. CASE Prepare \/ \E stopped \in BOOLEAN : DeliveryEnds(stopped)
    BY <1>3, <2>1 DEF Prepare, DeliveryEnds, Recorded
  <2>2. CASE Resume
    BY <1>2, <2>2 DEF Recorded
  <2> QED
    BY <1>1, <1>5, <2>1, <2>2
    DEF HandlesEvent, Decide, WorkerHandsBack, HandBack, AlreadyHandedBack, Act, ReadBoundary,
        Resolve, SendRequest, PostsSkipped, PostsSent, EventEnds, Passes, Threads
<1>6. CASE ClockAdvances \/ EventDrained \/ StopRequested \/ UNCHANGED vars
  BY <1>6 DEF ClockAdvances, EventDrained, StopRequested, vars
<1>7. CASE Exit \/ Crash \/ RestartNormal \/ RestartOver
  BY <1>7 DEF Exit, Crash, MemoryLost, RestartNormal, RestartOver
<1> QED
  BY <1>4, <1>5, <1>6, <1>7 DEF Next, Recorded

LEMMA RecordSteps ==
  ASSUME Typed, [Next]_vars
  PROVE  /\ \/ disk' = disk
            \/ disk' = NormalState /\ RestartOver
            \/ /\ state' = state
               /\ \E thread \in Threads : saving[thread] # NoState /\ disk' = saving[thread]
         /\ \A thread \in Threads :
               \/ saving'[thread] \in {NoState, saving[thread]}
               \/ saving'[thread] = state /\ state' = state
<1>1. CASE Quiet \/ \E thread \in Threads : Moves(thread)
  BY <1>1 DEF Quiet, Moves, locks
<1>2. ASSUME NEW thread \in Threads, Waits(thread)
      PROVE  /\ state' = state
             /\ disk' = disk \/ (saving[thread] # NoState /\ disk' = saving[thread])
             /\ \A other \in Threads : saving'[other] \in {NoState, saving[other], state}
  BY <1>2 DEF Waits, SaveBegins, SaveWrites, SaveFails, SaveEnds, ReportBegins, ReportSent, Typed
<1>3. CASE Process
  BY <1>3 DEF Process, Ends, MemoryLost, RestartNormal, RestartOver, RestartUndecided, Restarts,
              locks, Nobody
<1> QED  BY <1>1, <1>2, <1>3, Steps

(* A failure is not undone. *)
LEMMA FailureStays ==
  ASSUME Typed, FileInvariant, [Next]_vars, NoSaveFailed'
  PROVE  NoSaveFailed
<1>1. left["saves"] \in Nat /\ Budget["saves"] \in Nat
  BY BoundAssumption DEF Typed, Bounded
<1>2. \/ left'["saves"] = left["saves"]
      \/ left'["saves"] = left["saves"] - 1
  BY Steps, SpendType DEF Quiet, Moves, Waits, SaveBegins, SaveWrites, SaveFails, ReportBegins,
     ReportSent, Process, Ends, RestartNormal, RestartOver, RestartUndecided, Restarts, Typed, Bounded
<1> QED  BY <1>1, <1>2 DEF FileInvariant, NoSaveFailed

(* Time does not go back, and a program that is over stays over.           *)
LEMMA TimeSteps ==
  ASSUME Typed, [Next]_vars
  PROVE  /\ clock <= clock'
         /\ \A copy \in Copies : Over(copy, clock) => Over(copy, clock')
<1>1. clock \in Nat /\ (clock' = clock \/ clock' = clock + 1)
  <2>1. UNCHANGED clock \/ ClockAdvances
    BY DEF Next, Tick, HandlesEvent, Shared, SaveBegins, SaveWrites, SaveFails, SaveEnds,
       ReportBegins, ReportSent, EnterRestingAtCutoff, CutoffNotReached, TickBegins, ProbeAnswered,
       ProbeFailed, SettleHandsBack, SettlePasses, GatherReport, GatherNoReport, GatherNothing,
       ClearOwedReport, FetchAnswered, FetchUnanswered, FetchEnds, Passes, HandBack, Decide,
       WorkerHandsBack, AlreadyHandedBack, Resume, Act, ReadBoundary, Resolve, Enter, Prepare,
       PersistOccurrence, SendRequest, DeliveryEnds, PostsSkipped, PostsSent, EventEnds,
       EventDrained, StopRequested, Exit, Crash, MemoryLost, RestartNormal, RestartOver,
       RestartUndecided, Restarts, world, vars
  <2> QED  BY <2>1 DEF ClockAdvances, Typed
<1> QED  BY <1>1, CopyAssumption DEF Over

(* What the tick thread does to what is owed to a callback. *)
LEMMA TickOwes ==
  ASSUME Typed, Tick
  PROVE  \/ /\ owed'.decision = owed.decision
            /\ owed'.forgetBoundary = owed.forgetBoundary
            /\ history'.cued = history.cued
            /\ state' = NormalState => state' = state
         \/ /\ owed.decision
            /\ state' = NormalState
            /\ ~owed'.decision
            /\ history'.cued = NoEntry
<1> USE DEF Typed, Owed, Histories
<1>1. CASE Shared("tick")
  <2>1. state' = NormalState => state' = state
    BY <1>1 DEF Shared, SaveBegins, SaveWrites, SaveFails, SaveEnds, ReportBegins, ReportSent,
         EnterRestingAtCutoff, CutoffNotReached, NormalState, States
  <2> QED
    BY <1>1, <2>1 DEF Shared, SaveBegins, SaveWrites, SaveFails, SaveEnds, ReportBegins, ReportSent,
         EnterRestingAtCutoff, CutoffNotReached
<1>2. CASE SettleHandsBack
  BY <1>2 DEF SettleHandsBack, HandBack, OwedAtHandBack
<1>3. CASE ProbeAnswered \/ ProbeFailed
  BY <1>3 DEF ProbeAnswered, ProbeFailed
<1>4. CASE ClearOwedReport
  BY <1>4 DEF ClearOwedReport
<1>5. CASE FetchAnswered
  BY <1>5 DEF FetchAnswered, FetchEnds
<1> QED
  BY <1>1, <1>2, <1>3, <1>4, <1>5 DEF Tick, TickBegins, SettlePasses, GatherReport,
     GatherNoReport, GatherNothing, FetchUnanswered, FetchEnds, Passes
-----------------------------------------------------------------------------
(* A record that is no longer normal is of a program, and one at rest is   *)
(* of a program that is over.                                              *)
OfProgram(record, time) ==
    /\ record.mode # "normal" => record.copy \in Copies
    /\ record.mode = "resting" => Over(record.copy, time)

TimeInvariant ==
    /\ tick.now <= clock
    /\ event.at <= clock
    /\ OfProgram(state, clock) /\ OfProgram(disk, clock)
    /\ \A thread \in Threads : saving[thread] # NoState => OfProgram(saving[thread], clock)
    /\ at["worker"] \in {"enter", "prepare", "prepare_save", "deliver"} =>
          worker.match \in Copies /\ event.entry \in Entries

LEMMA InitTime == Init => TimeInvariant
<1> SUFFICES ASSUME Init PROVE TimeInvariant
  OBVIOUS
<1>1. clock = 0 /\ tick.now = 0 /\ event.at = 0
  BY DEF Init, IdleTick, IdleWorker, NoEvent, event
<1>2. OfProgram(NormalState, clock)
  BY DEF OfProgram, NormalState
<1> QED  BY <1>1, <1>2 DEF Init, TimeInvariant, Nobody, Threads

(* Where the worker takes a program and an entry to serve. *)
LEMMA MatchKept ==
  ASSUME Typed, TimeInvariant, [Next]_vars
  PROVE  at'["worker"] \in {"enter", "prepare", "prepare_save", "deliver"} =>
            worker'.match \in Copies /\ worker'.event.entry \in Entries
<1> DEFINE Serving == {"enter", "prepare", "prepare_save", "deliver"}
<1> USE DEF Goto
<1>g. ASSUME NEW point, at' = [at EXCEPT !["worker"] = point]
      PROVE  at'["worker"] = point
  BY <1>g DEF Typed, Threads
<1>1. CASE Tick
  BY <1>1, TickLeaves DEF TimeInvariant, event
<1>2. CASE Shared("worker")
  <2>1. UNCHANGED worker
    BY <1>2 DEF Shared, SaveBegins, SaveWrites, SaveFails, SaveEnds, ReportBegins, ReportSent,
                EnterRestingAtCutoff, CutoffNotReached
  <2>2. at'["worker"] \in Serving => at["worker"] \in Serving
    BY <1>2, <1>g DEF Shared, SaveBegins, SaveWrites, SaveFails, SaveEnds, ReportBegins,
         ReportSent, EnterRestingAtCutoff, CutoffNotReached, After, SavePoints, ReportPoints
  <2> QED  BY <2>1, <2>2 DEF TimeInvariant, event
<1>3. CASE Decide \/ WorkerHandsBack \/ AlreadyHandedBack \/ Resume \/ Act \/ ReadBoundary
             \/ EventEnds \/ EventDrained
  <2>1. at'["worker"] \notin Serving
    BY <1>3, <1>g DEF Decide, WorkerHandsBack, HandBack, AlreadyHandedBack, Passes, Resume, Act,
       ReadBoundary, EventEnds, EventDrained
  <2> QED  BY <2>1
<1>4. CASE Resolve
  <2>1. worker'.event = worker.event /\ worker'.match = IF Executes THEN installed ELSE NoCopy
    BY <1>4 DEF Resolve, Typed, Workers
  <2>2. Executes => installed \in Copies /\ event.entry \in Entries
    BY CopyAssumption DEF Executes, Startable, Typed
  <2>3. ~Executes => at'["worker"] = "verdict"
    BY <1>4, <1>g DEF Resolve
  <2> QED  BY <2>1, <2>2, <2>3 DEF event
<1>5. CASE Enter \/ Prepare \/ \E stopped \in BOOLEAN : DeliveryEnds(stopped)
  <2>1. at["worker"] \in Serving /\ UNCHANGED worker
    BY <1>5 DEF Enter, Prepare, DeliveryEnds, PersistOccurrence
  <2> QED  BY <2>1 DEF TimeInvariant, event
<1>6. CASE SendRequest
  <2>1. at["worker"] \in Serving /\ worker'.match = worker.match /\ worker'.event = worker.event
    BY <1>6 DEF SendRequest, Typed, Workers
  <2> QED  BY <2>1 DEF TimeInvariant, event
<1>7. CASE ClockAdvances \/ StopRequested \/ UNCHANGED vars
  BY <1>7 DEF ClockAdvances, StopRequested, vars, TimeInvariant, event
<1>8. CASE Exit \/ Crash \/ RestartNormal \/ RestartOver \/ RestartUndecided
  BY <1>8 DEF Exit, Crash, MemoryLost, RestartNormal, RestartOver, RestartUndecided, Restarts,
              Threads
<1> QED
  BY <1>1, <1>2, <1>3, <1>4, <1>5, <1>6, <1>7, <1>8
  DEF Next, HandlesEvent, PostsSkipped, PostsSent

(* The times the threads took from the clock. *)
LEMMA TimesKept ==
  ASSUME Typed, TimeInvariant, [Next]_vars
  PROVE  tick'.now <= clock' /\ worker'.event.at <= clock'
<1>c. clock \in Nat /\ clock' \in Nat /\ clock <= clock' /\ tick.now \in Nat /\ event.at \in Nat
  BY TimeSteps, NextTyped DEF Typed, Ticks, Workers, Events, event
<1>1. tick'.now \in {tick.now, clock, 0}
  <2>1. CASE Tick
    <3>1. CASE Shared("tick")
      BY <3>1 DEF Shared, SaveBegins, SaveWrites, SaveFails, SaveEnds, ReportBegins, ReportSent,
                  EnterRestingAtCutoff, CutoffNotReached, TimeUsed, Typed, Ticks
    <3>2. CASE ClearOwedReport
      BY <3>2 DEF ClearOwedReport, TickEnds, IdleTick, Typed, Ticks
    <3> QED
      BY <2>1, <3>1, <3>2 DEF Tick, TickBegins, ProbeAnswered, ProbeFailed, SettleHandsBack, HandBack,
         SettlePasses, GatherReport, GatherNoReport, GatherNothing,
         FetchAnswered, FetchUnanswered, FetchEnds, TickEnds, IdleTick, Passes
  <2>2. CASE HandlesEvent
    <3>1. CASE Shared("worker")
      BY <3>1 DEF Shared, SaveBegins, SaveWrites, SaveFails, SaveEnds, ReportBegins, ReportSent,
                  EnterRestingAtCutoff, CutoffNotReached, TimeUsed
    <3> QED
      BY <2>2, <3>1 DEF HandlesEvent, Decide, WorkerHandsBack, HandBack, AlreadyHandedBack, Resume,
         Act, ReadBoundary, Resolve, Enter, Prepare, PersistOccurrence, SendRequest, DeliveryEnds,
         PostsSkipped, PostsSent, EventEnds, Passes
  <2> QED
    BY <2>1, <2>2 DEF Next, ClockAdvances, EventDrained, StopRequested, Exit, Crash, MemoryLost,
       IdleTick, RestartNormal, RestartOver, RestartUndecided, Restarts, vars
<1>2. worker'.event.at \in {event.at, clock, 0}
  <2>1. CASE Tick
    BY <2>1, TickLeaves DEF event
  <2>2. CASE EventDrained
    <3>1. PICK callback \in Callbacks :
            worker' = [worker EXCEPT !.event = [action |-> callback[1],
                             playlist |-> callback[2], entry |-> callback[3], at |-> clock]]
      BY <2>2 DEF EventDrained
    <3> DEFINE e == [action |-> callback[1], playlist |-> callback[2], entry |-> callback[3],
                     at |-> clock]
    <3>2. e.at = clock
      OBVIOUS
    <3>3. worker' = [worker EXCEPT !.event = e]
      BY <3>1
    <3> HIDE DEF e
    <3> QED  BY <3>2, <3>3 DEF Typed, Workers
  <2>3. CASE HandlesEvent
    <3>1. CASE Shared("worker")
      BY <3>1 DEF Shared, SaveBegins, SaveWrites, SaveFails, SaveEnds, ReportBegins, ReportSent,
                  EnterRestingAtCutoff, CutoffNotReached, event
    <3>2. CASE Decide \/ Resume \/ Act \/ ReadBoundary \/ Resolve \/ SendRequest
      BY <3>2 DEF Decide, Resume, Act, ReadBoundary, Resolve, SendRequest, Typed, Workers, event
    <3> QED
      BY <2>3, <3>1, <3>2 DEF HandlesEvent, WorkerHandsBack, HandBack, AlreadyHandedBack,
         Enter, Prepare, PersistOccurrence, DeliveryEnds, PostsSkipped, PostsSent,
         EventEnds, Passes, IdleWorker, NoEvent, event
  <2> QED
    BY <2>1, <2>2, <2>3 DEF Next, ClockAdvances, StopRequested, Exit, Crash, MemoryLost,
       IdleWorker, NoEvent, RestartNormal, RestartOver, RestartUndecided, Restarts, vars, event
<1> QED  BY <1>c, <1>1, <1>2 DEF TimeInvariant

LEMMA TimeKept == Typed /\ TimeInvariant /\ [Next]_vars => TimeInvariant'
<1> SUFFICES ASSUME Typed, TimeInvariant, [Next]_vars PROVE TimeInvariant'
  OBVIOUS
<1>1. ASSUME NEW record, OfProgram(record, clock)
      PROVE  OfProgram(record, clock')
  BY <1>1, TimeSteps DEF OfProgram
<1>2. OfProgram(state', clock')
  <2>1. ASSUME NEW thread \in Threads, EnterRestingAtCutoff(thread)
        PROVE  OfProgram(state', clock')
    <3>1. state'.mode = "resting" /\ state'.copy = state.copy /\ clock' = clock
      BY <2>1 DEF EnterRestingAtCutoff, Typed, States, world
    <3>2. state.copy \in Copies /\ Over(state.copy, TimeOf(thread))
      BY <2>1 DEF EnterRestingAtCutoff, ReachesCutoff, TimeInvariant, OfProgram
    <3>3. TimeOf(thread) \in Nat /\ TimeOf(thread) <= clock
      BY DEF TimeOf, TimeInvariant, event, Typed, Ticks, Workers, Events
    <3>4. Over(state.copy, clock)
      <4>1. Expiry[state.copy] \in Nat /\ clock \in Nat
        BY <3>2, CopyAssumption DEF Typed
      <4> QED  BY <3>2, <3>3, <4>1 DEF Over
    <3> QED  BY <3>1, <3>2, <3>4 DEF OfProgram
  <2>2. CASE Enter
    <3>1. state'.mode = "fallback" /\ state'.copy = worker.match
      BY <2>2 DEF Enter
    <3>2. worker.match \in Copies
      BY <2>2 DEF Enter, TimeInvariant
    <3> QED  BY <3>1, <3>2 DEF OfProgram
  <2>3. CASE RestartUndecided
    BY <1>1, <2>3 DEF RestartUndecided, TimeInvariant
  <2>4. CASE state' = NormalState
    BY <2>4 DEF OfProgram, NormalState
  <2>5. CASE state' = state
    BY <1>1, <2>5 DEF TimeInvariant
  <2>6. CASE state.mode = "fallback" /\ state'.mode = "fallback" /\ state'.copy = state.copy
    BY <2>6 DEF TimeInvariant, OfProgram
  <2> QED  BY <2>1, <2>2, <2>3, <2>4, <2>5, <2>6, StateSteps
<1>3. OfProgram(disk', clock')
  BY <1>1, RecordSteps DEF TimeInvariant, OfProgram, NormalState
<1>4. \A thread \in Threads : saving'[thread] # NoState => OfProgram(saving'[thread], clock')
  BY <1>1, <1>2, RecordSteps DEF TimeInvariant
<1> QED  BY <1>2, <1>3, <1>4, MatchKept, TimesKept DEF TimeInvariant, event
-----------------------------------------------------------------------------
(* Where an occurrence is being served, from the boundary to the nodes.    *)
ServePoints == {"boundary", "resolve", "enter", "prepare", "prepare_save", "deliver"}

HandPoints == {"hand_save", "hand_save_report", "hand_report"}

Met(entry) == worker.boundary = [met |-> TRUE, entry |-> entry, finished |-> FALSE]

Playing == event.action = "playing"

Decided == ~owed.decision /\ ~owed.forgetBoundary

(* The callback that comes to a boundary has decided what the process is:  *)
(* from there on the tick does not hand back, and nothing is to be         *)
(* forgotten.                                                              *)
ServeInvariant ==
    /\ ~Up => Decided
    /\ owed.decision => ~Normal
    /\ event.action # "stop" => event.playlist # NoPlaylist
    /\ at["worker"] \in HandPoints => ~owed.decision
    /\ at["worker"] = "forget" /\ Playing => ~owed.decision
    /\ at["worker"] \in {"resume_save", "act"} /\ Playing => Decided
    /\ at["worker"] \in ServePoints => Decided /\ Playing /\ Met(event.entry)
    /\ at["worker"] = "resolve" /\ worker.mode # "normal" => ~Normal
    /\ at["worker"] = "enter" => worker.mode = "normal"
    /\ at["worker"] \in {"prepare", "prepare_save", "deliver"} =>
          /\ ~Normal
          /\ worker.mode # "resting"
          /\ worker.mode = "normal" => state.copy = worker.match

LEMMA InitServe == Init => ServeInvariant
BY DEF Init, ServeInvariant, NothingOwed, Decided, NoEvent, IdleWorker, event, HandPoints,
       ServePoints, Threads

LEMMA TickServe ==
  ASSUME Typed, ServeInvariant, Tick
  PROVE  ServeInvariant'
<1>1. /\ UNCHANGED worker
      /\ at'["worker"] = at["worker"]
      /\ \/ state' = state
         \/ state' = NormalState
         \/ state' = [state EXCEPT !.mode = "resting"] /\ state.mode = "fallback"
  BY TickLeaves
<1>2. Up /\ Up'
  BY TickSteps DEF Waits, SaveBegins, SaveWrites, SaveFails, SaveEnds, ReportBegins, ReportSent,
                   After, Moves, Goto, Up, Typed, Threads, SavePoints, ReportPoints
<1>3. CASE /\ owed'.decision = owed.decision
           /\ owed'.forgetBoundary = owed.forgetBoundary
           /\ state' = NormalState => state' = state
  <2>1. \/ state' = state
        \/ ~Normal /\ ~Normal' /\ state'.copy = state.copy
    BY <1>1, <1>3 DEF Normal, Typed, States
  <2> QED  BY <1>1, <1>2, <1>3, <2>1
           DEF ServeInvariant, Decided, Playing, Met, Normal, event
<1>4. CASE owed.decision /\ state' = NormalState /\ ~owed'.decision
  BY <1>1, <1>2, <1>4 DEF ServeInvariant, Decided, Playing, Met, Normal, event, ServePoints
<1> QED  BY <1>3, <1>4, TickOwes

LEMMA WorkerServe ==
  ASSUME Typed, Memory, EnteringIsNew, ServeInvariant, HandlesEvent \/ EventDrained
  PROVE  ServeInvariant'
<1> USE DEF Goto
<1>u. Up => Up'
  BY WorkerSteps DEF Waits, SaveBegins, SaveWrites, SaveFails, SaveEnds, ReportBegins, ReportSent,
                     Moves, Goto, Up, Typed, Threads
<1>v. Up
  BY WorkerSteps DEF Waits, SaveBegins, SaveWrites, SaveFails, SaveEnds, ReportBegins, ReportSent,
                     Moves, Up, Memory, Threads, SavePoints, ReportPoints
<1>g. ASSUME NEW point, at' = [at EXCEPT !["worker"] = point]
      PROVE  at'["worker"] = point
  BY <1>g DEF Typed, Threads
(* A step that keeps the worker's event, boundary and mode. *)
<1>k. ASSUME worker'.event = worker.event, worker'.boundary = worker.boundary,
             worker'.mode = worker.mode, worker'.match = worker.match,
             owed'.decision = owed.decision, owed'.forgetBoundary = owed.forgetBoundary,
             \/ state' = state
             \/ ~Normal /\ ~Normal' /\ state'.copy = state.copy,
             \/ at'["worker"] = at["worker"]
             \/ at'["worker"] \notin {"forget", "resume_save", "act"} \union HandPoints \union ServePoints
             \/ at["worker"] = "prepare" /\ at'["worker"] \in {"prepare_save", "deliver"}
             \/ at["worker"] = "prepare_save" /\ at'["worker"] = "deliver"
             \/ at["worker"] = "resume_save" /\ at'["worker"] = "act"
             \/ at["worker"] \in HandPoints /\ at'["worker"] \in HandPoints \union {"forget"}
      PROVE  ServeInvariant'
  <2>1. event' = event
    BY <1>k DEF event
  <2> QED
    BY <1>u, <1>v, <1>k, <2>1 DEF ServeInvariant, Decided, Playing, Met, Normal, ServePoints, HandPoints
<1>1. CASE SaveBegins("worker")
  BY <1>1, <1>k DEF SaveBegins
<1>2. CASE SaveEnds("worker")
  BY <1>2, <1>g, <1>k DEF SaveEnds, After, SavePoints, HandPoints, ServePoints
<1>3. CASE ReportBegins("worker")
  BY <1>3, <1>k DEF ReportBegins, Typed, Owed
<1>4. CASE ReportSent("worker")
  BY <1>4, <1>g, <1>k DEF ReportSent, After, ReportPoints, Memory, HandPoints, ServePoints
<1>5. CASE EnterRestingAtCutoff("worker")
  <2>1. ~Normal /\ ~Normal' /\ state'.copy = state.copy
    BY <1>5 DEF EnterRestingAtCutoff, ReachesCutoff, Normal, Typed, States
  <2>2. at'["worker"] = "rest_save"
    BY <1>5, <1>g DEF EnterRestingAtCutoff
  <2> QED
    BY <1>5, <1>k, <2>1, <2>2 DEF EnterRestingAtCutoff, Typed, Owed, HandPoints, ServePoints
<1>6. CASE CutoffNotReached("worker")
  <2>1. at'["worker"] = "decide"
    BY <1>6, <1>g DEF CutoffNotReached
  <2> QED  BY <1>6, <1>k, <2>1 DEF CutoffNotReached, HandPoints, ServePoints
<1>7. CASE Decide
  <2>1. at'["worker"] = (IF EndsFallback THEN "hand" ELSE "forget")
    BY <1>7, <1>g DEF Decide
  <2>2. worker'.event = worker.event /\ worker'.boundary = worker.boundary
    BY <1>7 DEF Decide, Typed, Workers
  <2>3. owed'.decision = (owed.decision /\ ~ResumesSavedState)
    BY <1>7 DEF Decide, Typed, Owed
  <2>4. ~EndsFallback /\ Playing => ~owed'.decision
    BY <2>3 DEF ResumesSavedState, ServeInvariant, Playing
  <2>5. UNCHANGED state
    BY <1>7 DEF Decide
  <2> QED
    BY <1>u, <1>v, <2>1, <2>2, <2>3, <2>4, <2>5
    DEF ServeInvariant, Playing, event, Normal, HandPoints, ServePoints
<1>8. CASE WorkerHandsBack
  <2>1. at'["worker"] \in HandPoints /\ ~owed'.decision /\ UNCHANGED worker
    BY <1>8, <1>g DEF WorkerHandsBack, HandBack, OwedAtHandBack, HandPoints
  <2> QED
    BY <1>u, <1>v, <2>1 DEF ServeInvariant, event, HandPoints, ServePoints
<1>9. CASE AlreadyHandedBack
  <2>1. at'["worker"] = "forget" /\ ~owed.decision /\ UNCHANGED <<worker, owed, state>>
    BY <1>9, <1>g DEF AlreadyHandedBack, Passes, ServeInvariant
  <2> QED
    BY <1>u, <1>v, <2>1 DEF ServeInvariant, event, Playing, Normal, HandPoints, ServePoints
<1>10. CASE Resume
  <2>1. at["worker"] = "forget" /\ at'["worker"] \in {"resume_save", "act"}
    BY <1>10, <1>g DEF Resume
  <2>2. worker'.event = worker.event
    BY <1>10 DEF Resume, Typed, Workers
  <2>3. owed'.decision = owed.decision /\ ~owed'.forgetBoundary
    BY <1>10 DEF Resume, Typed, Owed
  <2>4. state'.mode = state.mode
    BY <1>10 DEF Resume, Typed, States
  <2> QED
    BY <1>u, <1>v, <2>1, <2>2, <2>3, <2>4
    DEF ServeInvariant, event, Playing, Normal, HandPoints, ServePoints, Decided
<1>11. CASE Act
  <2>1. at["worker"] = "act" /\ at'["worker"] = (IF IsNewOccurrence THEN "boundary" ELSE "verdict")
    BY <1>11, <1>g DEF Act
  <2>2. worker'.event = worker.event /\ UNCHANGED <<state, owed>>
    BY <1>11 DEF Act, Typed, Workers
  <2>3. IsNewOccurrence => Playing /\ Met(event.entry)'
    <3> SUFFICES ASSUME IsNewOccurrence PROVE Playing /\ Met(event.entry)'
      OBVIOUS
    <3> DEFINE b == [met |-> TRUE, entry |-> event.entry, finished |-> FALSE]
    <3>1. Playing
      BY DEF IsNewOccurrence, Playing
    <3>2. worker' = [worker EXCEPT !.boundary = b]
      BY <1>11, <3>1 DEF Act, Playing
    <3>3. worker'.boundary = b
      <4> HIDE DEF b
      <4> QED  BY <3>2 DEF Typed, Workers
    <3> QED  BY <2>2, <3>1, <3>3 DEF Met, event
  <2> QED
    BY <1>u, <1>v, <2>1, <2>2, <2>3
    DEF ServeInvariant, event, Playing, Normal, HandPoints, ServePoints, Decided
<1>12. CASE ReadBoundary
  <2>1. at["worker"] = "boundary" /\ at'["worker"] = "resolve"
    BY <1>12, <1>g DEF ReadBoundary
  <2>2. /\ worker'.event = worker.event /\ worker'.boundary = worker.boundary
        /\ worker'.mode = state.mode /\ UNCHANGED <<state, owed>>
    BY <1>12 DEF ReadBoundary, Typed, Workers
  <2> QED
    BY <1>u, <1>v, <2>1, <2>2
    DEF ServeInvariant, event, Playing, Met, Normal, HandPoints, ServePoints, Decided
<1>13. CASE Resolve
  <2>1. /\ at["worker"] = "resolve"
        /\ at'["worker"] = IF ~Executes THEN "verdict"
                           ELSE IF EntersFallback THEN "enter" ELSE "prepare"
    BY <1>13, <1>g DEF Resolve
  <2>2. /\ worker'.event = worker.event /\ worker'.boundary = worker.boundary
        /\ worker'.mode = worker.mode /\ UNCHANGED <<state, owed>>
    BY <1>13 DEF Resolve, Typed, Workers
  <2>3. Executes => worker.mode # "resting"
    BY DEF Executes
  <2> QED
    BY <1>u, <1>v, <2>1, <2>2, <2>3
    DEF ServeInvariant, EntersFallback, event, Playing, Met, Normal, HandPoints, ServePoints, Decided
<1>14. CASE Enter
  <2>1. at["worker"] = "enter" /\ at'["worker"] = "prepare"
    BY <1>14, <1>g DEF Enter
  <2>2. /\ UNCHANGED worker /\ state'.mode = "fallback" /\ state'.copy = worker.match
        /\ owed'.decision = owed.decision /\ owed'.forgetBoundary = owed.forgetBoundary
    BY <1>14 DEF Enter, Typed, Owed
  <2> QED
    BY <1>u, <1>v, <2>1, <2>2
    DEF ServeInvariant, event, Playing, Met, Normal, HandPoints, ServePoints, Decided
<1>15. CASE Prepare \/ \E stopped \in BOOLEAN : DeliveryEnds(stopped)
  <2>1. /\ UNCHANGED <<worker, owed>>
        /\ \/ at["worker"] = "prepare" /\ at'["worker"] \in {"prepare_save", "deliver"}
           \/ at'["worker"] \in {"finish_save", "verdict"}
        /\ at["worker"] \in {"prepare", "deliver"}
    BY <1>15, <1>g DEF Prepare, DeliveryEnds, PersistOccurrence
  <2>2. ~Normal
    BY <2>1 DEF ServeInvariant
  <2>3. state'.mode = state.mode /\ state'.copy = state.copy
    <3>1. ASSUME NEW delivered, NEW save, NEW next, PersistOccurrence(delivered, save, next)
          PROVE  state'.mode = state.mode /\ state'.copy = state.copy
      <4> DEFINE o == [present |-> TRUE, entry |-> event.entry, delivered |-> delivered]
      <4>1. state' = [state EXCEPT !.occurrence = o] \/ state' = state
        BY <3>1 DEF PersistOccurrence
      <4> HIDE DEF o
      <4> QED  BY <4>1 DEF Typed, States
    <3> QED  BY <1>15, <3>1 DEF Prepare, DeliveryEnds
  <2> QED  BY <1>k, <2>1, <2>2, <2>3 DEF Normal, HandPoints, ServePoints
<1>16. CASE SendRequest
  <2>1. /\ worker'.event = worker.event /\ worker'.boundary = worker.boundary
        /\ worker'.mode = worker.mode /\ worker'.match = worker.match
    BY <1>16 DEF SendRequest, Typed, Workers
  <2> QED  BY <1>16, <1>k, <2>1 DEF SendRequest
<1>17. CASE EventEnds
  <2>1. at'["worker"] = "idle" /\ event' = NoEvent /\ UNCHANGED <<state, owed>>
    BY <1>17, <1>g DEF EventEnds, IdleWorker, event
  <2> QED
    BY <1>u, <1>v, <2>1 DEF ServeInvariant, NoEvent, Normal, HandPoints, ServePoints
<1>18. CASE EventDrained
  <2>1. PICK callback \in Callbacks :
            worker' = [worker EXCEPT !.event = [action |-> callback[1],
                             playlist |-> callback[2], entry |-> callback[3], at |-> clock]]
    BY <1>18 DEF EventDrained
  <2>2. callback[1] # "stop" => callback[2] # NoPlaylist
    BY CallbackAssumption
  <2> DEFINE e == [action |-> callback[1], playlist |-> callback[2], entry |-> callback[3],
                   at |-> clock]
  <2>3. e.action = callback[1] /\ e.playlist = callback[2] /\ worker' = [worker EXCEPT !.event = e]
    BY <2>1
  <2>4. event'.action # "stop" => event'.playlist # NoPlaylist
    <3> HIDE DEF e
    <3> QED  BY <2>2, <2>3 DEF event, Typed, Workers
  <2>5. at'["worker"] = "cutoff" /\ UNCHANGED <<state, owed>>
    BY <1>18, <1>g DEF EventDrained
  <2> QED
    BY <1>u, <1>v, <2>4, <2>5 DEF ServeInvariant, Normal, HandPoints, ServePoints
<1> QED
  BY <1>1, <1>2, <1>3, <1>4, <1>5, <1>6, <1>7, <1>8, <1>9, <1>10, <1>11, <1>12, <1>13, <1>14,
     <1>15, <1>16, <1>17, <1>18
  DEF HandlesEvent, Shared, SaveWrites, SaveFails, PostsSkipped, PostsSent

LEMMA ServeKept ==
  ASSUME Typed, Memory, EnteringIsNew, ServeInvariant, [Next]_vars
  PROVE  ServeInvariant'
<1>1. CASE Tick
  BY <1>1, TickServe
<1>2. CASE HandlesEvent \/ EventDrained
  BY <1>2, WorkerServe
<1>3. CASE Exit \/ Crash
  BY <1>3 DEF Exit, Crash, MemoryLost, ServeInvariant, Threads, NothingOwed, Decided, NoEvent,
              IdleWorker, event, HandPoints, ServePoints
<1>4. CASE RestartNormal \/ RestartOver \/ RestartUndecided
  <2>1. ~Up /\ at'["worker"] = "idle" /\ Up' /\ UNCHANGED worker
    BY <1>4 DEF RestartNormal, RestartOver, RestartUndecided, Restarts, Threads, Up
  <2>2. owed'.decision => ~Normal'
    BY <1>4, <2>1 DEF RestartNormal, RestartOver, RestartUndecided, Normal, ServeInvariant,
                      Decided, Typed, Owed
  <2> QED  BY <2>1, <2>2 DEF ServeInvariant, event, HandPoints, ServePoints
<1>5. CASE ClockAdvances \/ StopRequested \/ UNCHANGED vars
  BY <1>5 DEF ClockAdvances, StopRequested, vars, ServeInvariant, Decided, Normal, Playing, Met,
              event, Up
<1> QED  BY <1>1, <1>2, <1>3, <1>4, <1>5 DEF Next
-----------------------------------------------------------------------------
(* A record of the fallback that is on.                                    *)
OfThisFallback(record) == record.mode # "normal" /\ record.copy = state.copy

(* The worker found fallback on when it came to the boundary.              *)
FoundFallback ==
    /\ at["worker"] \in {"resolve", "prepare", "prepare_save", "deliver"}
    /\ worker.mode = "fallback"

(* The worker has entered fallback and has not saved it yet.               *)
EnteredUnsaved == at["worker"] \in {"prepare", "prepare_save"} /\ worker.mode = "normal"

SavedInvariant ==
    NoSaveFailed /\ (FoundFallback \/ (state.mode = "fallback" /\ ~EnteredUnsaved)) =>
        /\ OfThisFallback(disk)
        /\ \A thread \in Threads : saving[thread] # NoState => OfThisFallback(saving[thread])

LEMMA InitSaved == Init => SavedInvariant
BY DEF Init, SavedInvariant, FoundFallback, NormalState, Threads

(* Saves under way keep to the fallback that is on while it is kept.       *)
LEMMA SavedFrame ==
  ASSUME Typed, SavedInvariant, [Next]_vars,
         FoundFallback \/ (state.mode = "fallback" /\ ~EnteredUnsaved),
         NoSaveFailed, ~Normal, state'.copy = state.copy, ~RestartOver
  PROVE  /\ OfThisFallback(disk)'
         /\ \A thread \in Threads : saving'[thread] # NoState => OfThisFallback(saving[thread])'
BY RecordSteps DEF SavedInvariant, OfThisFallback, Normal

LEMMA SavedKept ==
  ASSUME Typed, Memory, FileInvariant, EnteringIsNew, RecordInvariant, ServeInvariant,
         SavedInvariant, [Next]_vars
  PROVE  SavedInvariant'
<1> DEFINE On == FoundFallback \/ (state.mode = "fallback" /\ ~EnteredUnsaved)
<1> USE DEF Goto
<1>f. NoSaveFailed' => NoSaveFailed
  BY FailureStays
<1>n. On => ~Normal
  BY DEF ServeInvariant, FoundFallback, Normal
<1>g. ASSUME NEW point, at' = [at EXCEPT !["worker"] = point]
      PROVE  at'["worker"] = point
  BY <1>g DEF Typed, Threads
<1>0. ASSUME On, state'.copy = state.copy, Up
      PROVE  SavedInvariant'
  <2>1. ~RestartOver
    BY <1>0 DEF RestartOver, Restarts
  <2> QED  BY <1>0, <1>f, <1>n, <2>1, SavedFrame DEF SavedInvariant
<1>e. ASSUME ~On' PROVE SavedInvariant'
  BY <1>e DEF SavedInvariant
<1>1. CASE Tick
  <2>1. Up
    BY <1>1, TickSteps DEF Waits, SaveBegins, SaveWrites, SaveFails, SaveEnds, ReportBegins, ReportSent,
                     Moves, Up, Threads, SavePoints, ReportPoints
  <2>2. UNCHANGED worker /\ at'["worker"] = at["worker"]
    BY <1>1, TickLeaves
  <2>3. CASE state' = NormalState /\ state' # state
    <3>1. owed.decision
      BY <1>1, <2>3, TickOwes
    <3> QED
      BY <1>e, <2>2, <2>3, <3>1 DEF ServeInvariant, ServePoints, Decided, FoundFallback, NormalState
  <2>4. CASE state'.copy = state.copy /\ (state'.mode = "fallback" => state' = state)
    BY <1>0, <1>e, <2>1, <2>2, <2>4 DEF FoundFallback, EnteredUnsaved
  <2> QED  BY <1>1, <2>3, <2>4, TickLeaves DEF Typed, States
<1>w. HandlesEvent \/ EventDrained => Up
  BY WorkerSteps DEF Waits, SaveBegins, SaveWrites, SaveFails, SaveEnds, ReportBegins, ReportSent,
                     Moves, Up, Memory, Threads, SavePoints, ReportPoints
<1>2. CASE SaveWrites("worker") /\ at["worker"] = "prepare_save"
  <2>1. /\ at'["worker"] = "deliver"
        /\ disk' = saving["worker"] /\ saving["worker"] # NoState
        /\ \A thread \in Threads : saving'[thread] = NoState
        /\ UNCHANGED <<state, worker>>
    BY <1>2, <1>g DEF SaveWrites, SaveEnds, After, FileInvariant, Typed, Threads
  <2>2. CASE state.mode = "fallback"
    BY <1>2, <2>1, <2>2 DEF RecordInvariant, Names, SavedInvariant, OfThisFallback
  <2>3. CASE state.mode # "fallback" /\ On
    BY <1>0, <1>2, <1>w, <2>1, <2>3 DEF HandlesEvent, Shared
  <2>4. CASE state.mode # "fallback" /\ ~On
    BY <1>2, <1>e, <2>1, <2>4 DEF FoundFallback
  <2> QED  BY <2>2, <2>3, <2>4
<1>3. CASE SaveFails("worker")
  <2>1. ~NoSaveFailed'
    <3>1. left'["saves"] = left["saves"] - 1 /\ left["saves"] \in Nat /\ Budget["saves"] \in Nat
      BY <1>3, SpendType, BoundAssumption DEF SaveFails, Typed, Bounded
    <3> QED  BY <3>1 DEF FileInvariant, NoSaveFailed
  <2> QED  BY <2>1 DEF SavedInvariant
<1>4. CASE SaveBegins("worker") \/ (SaveWrites("worker") /\ at["worker"] # "prepare_save")
             \/ ReportBegins("worker") \/ ReportSent("worker") \/ CutoffNotReached("worker")
  <2>1. UNCHANGED <<state, worker>> /\ Up
    BY <1>4, <1>w DEF HandlesEvent, Shared, SaveBegins, SaveWrites, SaveEnds, ReportBegins,
                      ReportSent, CutoffNotReached
  <2>2. \/ at'["worker"] = at["worker"]
        \/ at'["worker"] \notin {"resolve", "prepare", "prepare_save", "deliver"}
             /\ at["worker"] \notin {"prepare", "prepare_save"}
    BY <1>4, <1>g DEF SaveBegins, SaveWrites, SaveEnds, ReportBegins, ReportSent, CutoffNotReached,
                      After, SavePoints, ReportPoints
  <2> QED  BY <1>0, <1>e, <2>1, <2>2 DEF FoundFallback, EnteredUnsaved
<1>5. CASE EnterRestingAtCutoff("worker") \/ WorkerHandsBack
  <2>1. state'.mode # "fallback"
    BY <1>5 DEF EnterRestingAtCutoff, WorkerHandsBack, HandBack, NormalState, Typed, States
  <2>2. at'["worker"] \notin {"resolve", "prepare", "prepare_save", "deliver"}
    BY <1>5, <1>g DEF EnterRestingAtCutoff, WorkerHandsBack, HandBack
  <2> QED  BY <1>e, <2>1, <2>2 DEF FoundFallback
<1>6. CASE Decide \/ AlreadyHandedBack \/ Resume \/ Act \/ EventEnds \/ EventDrained
  <2>1. /\ at'["worker"] \notin {"resolve", "prepare", "prepare_save", "deliver"}
        /\ at["worker"] \notin {"prepare", "prepare_save"}
    BY <1>6, <1>g DEF Decide, AlreadyHandedBack, Passes, Resume, Act, EventEnds, EventDrained
  <2>2. state'.copy = state.copy /\ state'.mode = state.mode
    BY <1>6 DEF Decide, AlreadyHandedBack, Passes, Resume, Act, EventEnds, EventDrained, Typed, States
  <2> QED
    BY <1>0, <1>e, <1>6, <1>w, <2>1, <2>2
    DEF FoundFallback, EnteredUnsaved, HandlesEvent, PostsSkipped, PostsSent
<1>7. CASE ReadBoundary
  <2>1. at["worker"] = "boundary" /\ at'["worker"] = "resolve" /\ UNCHANGED state
    BY <1>7, <1>g DEF ReadBoundary
  <2>2. worker'.mode = state.mode
    BY <1>7 DEF ReadBoundary, Typed, Workers
  <2> QED
    BY <1>0, <1>e, <1>7, <1>w, <2>1, <2>2 DEF FoundFallback, EnteredUnsaved, HandlesEvent
<1>8. CASE Resolve
  <2>1. at["worker"] = "resolve" /\ UNCHANGED state /\ worker'.mode = worker.mode
    BY <1>8 DEF Resolve, Typed, Workers
  <2> QED
    BY <1>0, <1>e, <1>8, <1>w, <2>1 DEF FoundFallback, EnteredUnsaved, HandlesEvent
<1>9. CASE Enter
  <2>1. at'["worker"] = "prepare" /\ worker'.mode = "normal"
    BY <1>9, <1>g DEF Enter, ServeInvariant
  <2> QED  BY <1>e, <2>1 DEF FoundFallback, EnteredUnsaved
<1>10. CASE Prepare \/ \E stopped \in BOOLEAN : DeliveryEnds(stopped)
  <2>1. state'.mode = state.mode /\ state'.copy = state.copy
    <3>1. ASSUME NEW delivered, NEW save, NEW next, PersistOccurrence(delivered, save, next)
          PROVE  state'.mode = state.mode /\ state'.copy = state.copy
      <4> DEFINE o == [present |-> TRUE, entry |-> event.entry, delivered |-> delivered]
      <4>1. state' = [state EXCEPT !.occurrence = o] \/ state' = state
        BY <3>1 DEF PersistOccurrence
      <4> HIDE DEF o
      <4> QED  BY <4>1 DEF Typed, States
    <3> QED  BY <1>10, <3>1 DEF Prepare, DeliveryEnds
  <2>2. /\ UNCHANGED worker
        /\ \/ /\ at["worker"] = "prepare"
              /\ at'["worker"] = IF state.mode = "fallback" THEN "prepare_save" ELSE "deliver"
           \/ at["worker"] = "deliver" /\ at'["worker"] \in {"finish_save", "verdict"}
    BY <1>10, <1>g DEF Prepare, DeliveryEnds, PersistOccurrence
  <2> QED
    BY <1>0, <1>e, <1>10, <1>w, <2>1, <2>2
    DEF FoundFallback, EnteredUnsaved, HandlesEvent, ServeInvariant
<1>11. CASE SendRequest
  <2>1. UNCHANGED <<state, at>> /\ worker'.mode = worker.mode
    BY <1>11 DEF SendRequest, Typed, Workers
  <2> QED
    BY <1>0, <1>e, <1>11, <1>w, <2>1 DEF FoundFallback, EnteredUnsaved, HandlesEvent
<1>12. CASE HandlesEvent \/ EventDrained
  BY <1>2, <1>3, <1>4, <1>5, <1>6, <1>7, <1>8, <1>9, <1>10, <1>11, <1>12
  DEF HandlesEvent, Shared, PostsSkipped, PostsSent
<1>13. CASE Exit \/ Crash \/ RestartNormal \/ RestartOver
  <2>1. state' = NormalState /\ at'["worker"] \in {"down", "idle"}
    BY <1>13 DEF Exit, Crash, MemoryLost, RestartNormal, RestartOver, Restarts, Memory, Threads
  <2> QED  BY <1>e, <2>1 DEF FoundFallback, NormalState
<1>14. CASE RestartUndecided
  <2>1. saving' = Nobody /\ disk' = disk /\ state' = disk /\ disk.mode # "normal"
    BY <1>14 DEF RestartUndecided, Restarts, Memory, locks
  <2> QED  BY <2>1 DEF SavedInvariant, OfThisFallback, Nobody
<1>15. CASE ClockAdvances \/ StopRequested \/ UNCHANGED vars
  <2>1. UNCHANGED <<state, at, worker, disk, saving>>
    BY <1>15 DEF ClockAdvances, StopRequested, vars, locks
  <2> QED
    BY <1>f, <2>1 DEF SavedInvariant, FoundFallback, EnteredUnsaved, OfThisFallback
<1> QED  BY <1>1, <1>12, <1>13, <1>14, <1>15 DEF Next
-----------------------------------------------------------------------------
(* A process that starts from the record knows that the entry was cued, or *)
(* never serves it: the record is at rest, or its program is over.         *)
KnowsOf(record, entry, time) ==
    /\ record.mode # "normal"
    /\ record.mode = "fallback" /\ ~Over(record.copy, time) =>
          record.occurrence.present /\ record.occurrence.entry = entry

Remembers(record, entry) ==
    record.mode = "fallback" => record.occurrence.present /\ record.occurrence.entry = entry

(* The entry that was cued last is known to every record, and to the       *)
(* worker: as the boundary it met, or by the record it still has to        *)
(* decide on.  Where it is served again nothing more leaves.               *)
OnceInvariant ==
    NoSaveFailed /\ history.cued # NoEntry =>
    /\ KnowsOf(disk, history.cued, clock)
    /\ Up => KnowsOf(state, history.cued, clock) /\ ~owed.forgetBoundary
    /\ \A thread \in Threads :
          saving[thread] # NoState => KnowsOf(saving[thread], history.cued, clock)
    /\ at["worker"] \notin {"idle", "down"} => Playing /\ event.entry = history.cued
    /\ \/ Met(history.cued)
       \/ at["worker"] = "down"
       \/ owed.decision /\ Remembers(state, history.cued)
       \/ /\ at["worker"] = "forget" /\ worker.decision = "resumed"
          /\ Remembers(state, history.cued)
       \/ at["worker"] \in {"resume_save", "act"} /\ state.mode = "resting"
    /\ at["worker"] = "boundary" => state.mode = "resting"
    /\ at["worker"] = "resolve" => worker.mode = "resting"
    /\ at["worker"] \in {"enter", "prepare", "prepare_save", "deliver"} => worker.attempts # 0

LEMMA InitOnce == Init => OnceInvariant
BY DEF Init, OnceInvariant

(* The records, in a step that cues nothing new.                           *)
LEMMA KnownKept ==
  ASSUME Typed, Memory, FileInvariant, EnteringIsNew, TimeInvariant, OnceInvariant, [Next]_vars,
         NoSaveFailed, history.cued # NoEntry, history'.cued = history.cued, Up,
         at["worker"] \in {"prepare", "deliver"} => event.entry = history.cued,
         state' # NormalState
  PROVE  /\ KnowsOf(disk', history'.cued, clock')
         /\ KnowsOf(state', history'.cued, clock')
         /\ \A thread \in Threads :
               saving'[thread] # NoState => KnowsOf(saving'[thread], history'.cued, clock')
<1> DEFINE c == history.cued
<1>1. ASSUME NEW record, KnowsOf(record, c, clock), OfProgram(record, clock)
      PROVE  KnowsOf(record, c, clock')
  BY <1>1, TimeSteps DEF KnowsOf, OfProgram
<1>2. /\ KnowsOf(disk, c, clock) /\ OfProgram(disk, clock)
      /\ KnowsOf(state, c, clock) /\ OfProgram(state, clock)
      /\ \A thread \in Threads : saving[thread] # NoState =>
            KnowsOf(saving[thread], c, clock) /\ OfProgram(saving[thread], clock)
  BY DEF OnceInvariant, TimeInvariant
<1>3. ~Normal
  BY <1>2 DEF KnowsOf, Normal
<1>4. ~RestartOver /\ ~RestartUndecided
  BY DEF RestartOver, RestartUndecided, Restarts
<1>5. KnowsOf(state', c, clock')
  <2>1. CASE \E thread \in Threads : EnterRestingAtCutoff(thread)
    BY <2>1 DEF EnterRestingAtCutoff, KnowsOf, Typed, States
  <2>2. CASE Enter
    BY <1>3, <2>2 DEF Enter, EnteringIsNew
  <2>3. CASE state' = state
    BY <1>1, <1>2, <2>3
  <2>4. CASE /\ state.mode = "fallback" /\ state'.mode = "fallback"
            /\ state'.copy = state.copy
            /\ state'.occurrence.present
            /\ \/ at["worker"] = "forget" /\ state'.occurrence.entry = state.occurrence.entry
               \/ /\ at["worker"] \in {"prepare", "deliver"}
                  /\ state'.occurrence.entry = event.entry
    <3>1. KnowsOf(state, c, clock')
      BY <1>1, <1>2
    <3> QED  BY <2>4, <3>1 DEF KnowsOf
  <2> QED  BY <1>4, <2>1, <2>2, <2>3, <2>4, StateSteps
<1>6. KnowsOf(disk', c, clock')
  BY <1>1, <1>2, <1>4, RecordSteps
<1>7. \A thread \in Threads : saving'[thread] # NoState => KnowsOf(saving'[thread], c, clock')
  BY <1>1, <1>2, <1>5, RecordSteps
<1> QED  BY <1>5, <1>6, <1>7

LEMMA TickOnce ==
  ASSUME Typed, Memory, FileInvariant, EnteringIsNew, TimeInvariant, OnceInvariant, Tick
  PROVE  OnceInvariant'
<1>1. SUFFICES ASSUME NoSaveFailed', history'.cued # NoEntry
               PROVE  OnceInvariant'
  BY DEF OnceInvariant
<1>2. NoSaveFailed
  BY <1>1, FailureStays DEF Next
<1>3. /\ owed'.decision = owed.decision
      /\ owed'.forgetBoundary = owed.forgetBoundary
      /\ history'.cued = history.cued
      /\ state' = NormalState => state' = state
  BY <1>1, TickOwes
<1>4. Up
  BY TickSteps DEF Waits, SaveBegins, SaveWrites, SaveFails, SaveEnds, ReportBegins, ReportSent,
                   Moves, Up, Threads, SavePoints, ReportPoints
<1>5. UNCHANGED worker /\ at'["worker"] = at["worker"] /\ event' = event
  BY TickLeaves DEF event
<1>6. KnowsOf(state, history.cued, clock)
  BY <1>1, <1>2, <1>3, <1>4 DEF OnceInvariant
<1>7. state' # NormalState
  BY <1>3, <1>6 DEF KnowsOf, NormalState
<1>8. \/ state' = state
      \/ state'.mode = "resting"
  BY <1>7, TickLeaves DEF Typed, States
<1>9. /\ KnowsOf(disk', history'.cued, clock')
      /\ KnowsOf(state', history'.cued, clock')
      /\ \A thread \in Threads :
               saving'[thread] # NoState => KnowsOf(saving'[thread], history'.cued, clock')
  <2>1. at["worker"] \in {"prepare", "deliver"} => event.entry = history.cued
    BY <1>1, <1>2, <1>3 DEF OnceInvariant
  <2> QED  BY <1>1, <1>2, <1>3, <1>4, <1>7, <2>1, KnownKept DEF Next
<1> QED
  BY <1>1, <1>2, <1>3, <1>4, <1>5, <1>8, <1>9 DEF OnceInvariant, Remembers, Met, Playing

LEMMA WorkerOnce ==
  ASSUME Typed, Memory, FileInvariant, EnteringIsNew, RecordInvariant, TimeInvariant,
         ServeInvariant, SavedInvariant, OnceInvariant, HandlesEvent \/ EventDrained
  PROVE  OnceInvariant'
<1> USE DEF Goto
<1> DEFINE c == history.cued
<1>g. ASSUME NEW point, at' = [at EXCEPT !["worker"] = point]
      PROVE  at'["worker"] = point
  BY <1>g DEF Typed, Threads
<1>f. NoSaveFailed' => NoSaveFailed
  BY FailureStays DEF Next
<1>v. Up /\ at["worker"] # "down"
  BY WorkerSteps DEF Waits, SaveBegins, SaveWrites, SaveFails, SaveEnds, ReportBegins, ReportSent,
                     Moves, Up, Memory, Threads, SavePoints, ReportPoints
<1>s. ASSUME NoSaveFailed', history'.cued # NoEntry, history'.cued = c
      PROVE  /\ NoSaveFailed /\ c # NoEntry
             /\ KnowsOf(state, c, clock) /\ ~Normal /\ ~owed.forgetBoundary
             /\ at["worker"] # "idle" => Playing /\ event.entry = c
             /\ at["worker"] = "boundary" => state.mode = "resting"
             /\ at["worker"] = "resolve" => worker.mode = "resting"
             /\ at["worker"] \in {"enter", "prepare", "prepare_save", "deliver"} => worker.attempts # 0
             /\ \/ Met(c)
                \/ owed.decision /\ Remembers(state, c)
                \/ /\ at["worker"] = "forget" /\ worker.decision = "resumed"
                   /\ Remembers(state, c)
                \/ at["worker"] \in {"resume_save", "act"} /\ state.mode = "resting"
  BY <1>f, <1>s, <1>v DEF OnceInvariant, KnowsOf, Normal
(* The records follow from KnownKept; the rest is each step's own. *)
<1>k. ASSUME NoSaveFailed', history'.cued # NoEntry, history'.cued = c,
             state' # NormalState, ~owed'.forgetBoundary,
             at'["worker"] # "idle" => Playing' /\ event'.entry = c,
             \/ Met(c)'
             \/ owed'.decision /\ Remembers(state', c)
             \/ /\ at'["worker"] = "forget" /\ worker'.decision = "resumed"
                /\ Remembers(state', c)
             \/ at'["worker"] \in {"resume_save", "act"} /\ state'.mode = "resting",
             at'["worker"] = "boundary" => state'.mode = "resting",
             at'["worker"] = "resolve" => worker'.mode = "resting",
             at'["worker"] \in {"enter", "prepare", "prepare_save", "deliver"} => worker'.attempts # 0
      PROVE  OnceInvariant'
  <2>1. at["worker"] \in {"prepare", "deliver"} => event.entry = history.cued
    BY <1>k, <1>s
  <2>2. /\ KnowsOf(disk', history'.cued, clock')
        /\ KnowsOf(state', history'.cued, clock')
        /\ \A thread \in Threads :
               saving'[thread] # NoState => KnowsOf(saving'[thread], history'.cued, clock')
    BY <1>f, <1>v, <1>k, <2>1, KnownKept DEF Next
  <2> QED  BY <1>k, <2>2 DEF OnceInvariant, Met, Playing
<1>e. ASSUME history'.cued = NoEntry PROVE OnceInvariant'
  BY <1>e DEF OnceInvariant
<1>n. ASSUME ~NoSaveFailed' PROVE OnceInvariant'
  BY <1>n DEF OnceInvariant
(* A step that keeps the worker's locals and the state. *)
<1>l. ASSUME UNCHANGED worker, history'.cued = c,
             owed'.decision = owed.decision, owed'.forgetBoundary = owed.forgetBoundary,
             state' = state \/ state'.mode = "resting",
             \/ at'["worker"] = at["worker"]
             \/ at["worker"] \in {"prepare", "prepare_save"} /\ at'["worker"] \in {"prepare_save", "deliver"}
             \/ at["worker"] = "resume_save" /\ at'["worker"] = "act"
             \/ /\ at["worker"] \notin {"forget", "resume_save", "act", "idle"}
                /\ at'["worker"] \notin {"boundary", "resolve", "enter", "prepare", "prepare_save",
                                         "deliver", "idle"}
      PROVE  OnceInvariant'
  <2>1. CASE NoSaveFailed' /\ history'.cued # NoEntry
    <3>1. event' = event /\ (Met(c)' <=> Met(c)) /\ (Playing' <=> Playing)
      BY <1>l DEF event, Met, Playing
    <3>2. state' # NormalState
      BY <1>l, <1>s, <2>1 DEF Normal, NormalState
    <3>3. Remembers(state, c) => Remembers(state', c)
      BY <1>l DEF Remembers
    <3> QED  BY <1>k, <1>l, <1>s, <2>1, <3>1, <3>2, <3>3
  <2> QED  BY <1>e, <1>n, <2>1
<1>1. CASE SaveBegins("worker")
  BY <1>1, <1>l DEF SaveBegins
<1>2. CASE SaveEnds("worker")
  BY <1>2, <1>g, <1>l DEF SaveEnds, After, SavePoints
<1>3. CASE ReportBegins("worker")
  BY <1>3, <1>l DEF ReportBegins, Typed, Owed
<1>4. CASE ReportSent("worker")
  <2>1. history'.cued = c
    BY <1>4 DEF ReportSent, Typed, Histories
  <2> QED  BY <1>4, <1>g, <1>l, <2>1 DEF ReportSent, After, ReportPoints
<1>5. CASE EnterRestingAtCutoff("worker")
  <2>1. state'.mode = "resting" /\ owed'.decision = owed.decision
          /\ owed'.forgetBoundary = owed.forgetBoundary
    BY <1>5 DEF EnterRestingAtCutoff, Typed, States, Owed
  <2> QED  BY <1>5, <1>g, <1>l, <2>1 DEF EnterRestingAtCutoff
<1>6. CASE CutoffNotReached("worker")
  BY <1>6, <1>g, <1>l DEF CutoffNotReached
<1>7. CASE Decide
  <2>1. CASE NoSaveFailed' /\ history'.cued # NoEntry
    <3>1. /\ at["worker"] = "decide" /\ at'["worker"] = (IF EndsFallback THEN "hand" ELSE "forget")
          /\ UNCHANGED <<state, history>>
      BY <1>7, <1>g DEF Decide
    <3>2. /\ worker'.event = worker.event /\ worker'.boundary = worker.boundary
          /\ ResumesSavedState => worker'.decision = "resumed"
      BY <1>7 DEF Decide, ResumesSavedState, Typed, Workers
    <3>3. owed'.decision = (owed.decision /\ ~ResumesSavedState)
          /\ owed'.forgetBoundary = owed.forgetBoundary
      BY <1>7 DEF Decide, Typed, Owed
    <3>4. owed.decision /\ ResumesSavedState => at'["worker"] = "forget" /\ worker'.decision = "resumed"
      BY <3>1, <3>2 DEF ResumesSavedState
    <3>5. /\ Playing' /\ event'.entry = c
          /\ Met(c) => Met(c)'
          /\ Remembers(state, c) => Remembers(state', c)
      BY <1>s, <2>1, <3>1, <3>2 DEF Playing, event, Met
    <3>6. \/ Met(c)'
          \/ owed'.decision /\ Remembers(state', c)
          \/ /\ at'["worker"] = "forget" /\ worker'.decision = "resumed"
             /\ Remembers(state', c)
      BY <1>s, <2>1, <3>1, <3>3, <3>4, <3>5
    <3>7. state' # NormalState /\ ~owed'.forgetBoundary
      BY <1>s, <2>1, <3>1, <3>3 DEF Normal, NormalState
    <3> QED  BY <1>k, <2>1, <3>1, <3>5, <3>6, <3>7
  <2> QED  BY <1>e, <1>n, <2>1
<1>8. CASE WorkerHandsBack
  <2>1. history'.cued = NoEntry
    BY <1>8 DEF WorkerHandsBack, HandBack, Typed, Histories
  <2> QED  BY <1>e, <2>1
<1>9. CASE AlreadyHandedBack
  <2>1. Normal /\ history' = history
    BY <1>9 DEF AlreadyHandedBack, Passes
  <2> QED  BY <1>e, <1>n, <1>s, <2>1
<1>10. CASE Resume
  <2>1. CASE NoSaveFailed' /\ history'.cued # NoEntry
    <3>1. /\ at["worker"] = "forget" /\ UNCHANGED history
          /\ at'["worker"] = (IF ClosesInterrupted THEN "resume_save" ELSE "act")
      BY <1>10, <1>g DEF Resume
    <3>2. worker'.event = worker.event
      BY <1>10 DEF Resume, Typed, Workers
    <3>3. ~owed'.forgetBoundary /\ ~owed.forgetBoundary /\ ~owed.decision
      BY <1>10, <1>s, <2>1, <3>1 DEF Resume, Typed, Owed, ServeInvariant
    <3>4. state'.mode = state.mode
      BY <1>10 DEF Resume, Typed, States
    <3>5. IsRecorded => Met(c)'
      <4> DEFINE b == [met |-> TRUE, entry |-> event.entry, finished |-> FALSE]
      <4>1. IsRecorded => worker' = [worker EXCEPT !.boundary = b]
        BY <1>10 DEF Resume
      <4>2. b = [met |-> TRUE, entry |-> c, finished |-> FALSE]
        BY <1>s, <2>1, <3>1
      <4> HIDE DEF b
      <4> QED  BY <3>1, <4>1, <4>2 DEF Met, Typed, Workers
    <3>6. ~IsRecorded => worker'.boundary = worker.boundary
      BY <1>10, <3>3 DEF Resume, Typed, Workers
    <3>7. Met(c)' \/ state'.mode = "resting"
      <4>1. CASE IsRecorded
        BY <3>5, <4>1
      <4>2. CASE ~IsRecorded /\ Met(c)
        BY <3>1, <3>6, <4>2 DEF Met
      <4>3. CASE worker.decision = "resumed" /\ Remembers(state, c) /\ ~IsRecorded
        <5>1. state.mode # "fallback"
          BY <1>s, <2>1, <3>1, <4>3 DEF Remembers, IsRecorded
        <5> QED  BY <1>s, <2>1, <3>1, <3>4, <5>1 DEF Normal, Typed, States, Modes
      <4> QED  BY <1>s, <2>1, <3>1, <3>3, <4>1, <4>2, <4>3
    <3> QED
      BY <1>k, <1>s, <2>1, <3>1, <3>2, <3>3, <3>4, <3>7 DEF Playing, event, Normal, NormalState
  <2> QED  BY <1>10, <1>e, <1>n, <2>1
<1>11. CASE Act
  <2>1. CASE NoSaveFailed' /\ history'.cued # NoEntry
    <3>1. /\ at["worker"] = "act" /\ UNCHANGED <<state, owed, history>>
          /\ at'["worker"] = (IF IsNewOccurrence THEN "boundary" ELSE "verdict")
      BY <1>11, <1>g DEF Act
    <3>2. worker'.event = worker.event
      BY <1>11 DEF Act, Typed, Workers
    <3>3. Playing /\ event.entry = c /\ ~owed.decision
      BY <1>s, <2>1, <3>1 DEF ServeInvariant, Decided
    <3>4. Met(c)'
      <4> DEFINE b == [met |-> TRUE, entry |-> event.entry, finished |-> FALSE]
      <4>1. worker' = [worker EXCEPT !.boundary = b]
        BY <1>11, <3>3 DEF Act, Playing
      <4>2. b = [met |-> TRUE, entry |-> c, finished |-> FALSE]
        BY <3>3
      <4> HIDE DEF b
      <4> QED  BY <3>1, <4>1, <4>2 DEF Met, Typed, Workers
    <3>5. IsNewOccurrence => ~Met(c)
      BY <3>3 DEF IsNewOccurrence, Met
    <3>6. IsNewOccurrence => state.mode = "resting"
      BY <1>s, <2>1, <3>1, <3>3, <3>5
    <3> QED
      BY <1>k, <1>s, <2>1, <3>1, <3>2, <3>3, <3>4, <3>6 DEF Playing, event, Normal, NormalState
  <2> QED  BY <1>11, <1>e, <1>n, <2>1
<1>12. CASE ReadBoundary
  <2>1. CASE NoSaveFailed' /\ history'.cued # NoEntry
    <3>1. /\ at["worker"] = "boundary" /\ at'["worker"] = "resolve"
          /\ UNCHANGED <<state, owed, history>>
      BY <1>12, <1>g DEF ReadBoundary
    <3>2. /\ worker'.event = worker.event /\ worker'.boundary = worker.boundary
          /\ worker'.mode = state.mode
      BY <1>12 DEF ReadBoundary, Typed, Workers
    <3> QED
      BY <1>k, <1>s, <2>1, <3>1, <3>2 DEF Met, Playing, event, Normal, NormalState
  <2> QED  BY <1>12, <1>e, <1>n, <2>1
<1>13. CASE Resolve
  <2>1. CASE NoSaveFailed' /\ history'.cued # NoEntry
    <3>1. at["worker"] = "resolve" /\ UNCHANGED <<state, owed, history>>
      BY <1>13 DEF Resolve
    <3>2. worker'.event = worker.event /\ worker'.boundary = worker.boundary
      BY <1>13 DEF Resolve, Typed, Workers
    <3>3. at'["worker"] = "verdict"
      BY <1>13, <1>g, <1>s, <2>1, <3>1 DEF Resolve, Executes
    <3> QED
      BY <1>k, <1>s, <2>1, <3>1, <3>2, <3>3 DEF Met, Playing, event, Normal, NormalState
  <2> QED  BY <1>13, <1>e, <1>n, <2>1
<1>14. CASE Enter
  <2>1. Normal /\ history' = history
    BY <1>14 DEF Enter, EnteringIsNew
  <2> QED  BY <1>e, <1>n, <1>s, <2>1
<1>15. CASE Prepare \/ \E stopped \in BOOLEAN : DeliveryEnds(stopped)
  <2>1. CASE NoSaveFailed' /\ history'.cued # NoEntry
    <3>1. /\ UNCHANGED <<worker, owed, history>>
          /\ \/ at["worker"] = "prepare" /\ at'["worker"] \in {"prepare_save", "deliver"}
             \/ at["worker"] = "deliver" /\ at'["worker"] \in {"finish_save", "verdict"}
      BY <1>15, <1>g DEF Prepare, DeliveryEnds, PersistOccurrence
    <3>2. ~owed.decision /\ Met(c)
      BY <1>s, <2>1, <3>1 DEF ServeInvariant, ServePoints, Decided
    <3>3. state' # NormalState
      <4>1. ASSUME NEW delivered, NEW save, NEW next, PersistOccurrence(delivered, save, next)
            PROVE  state'.mode = state.mode
        <5> DEFINE o == [present |-> TRUE, entry |-> event.entry, delivered |-> delivered]
        <5>1. state' = [state EXCEPT !.occurrence = o] \/ state' = state
          BY <4>1 DEF PersistOccurrence
        <5> HIDE DEF o
        <5> QED  BY <5>1 DEF Typed, States
      <4>2. ~Normal
        BY <1>s, <2>1, <3>1
      <4>3. CASE Prepare
        <5>1. PersistOccurrence(FALSE, "prepare_save", "deliver")
          BY <4>3 DEF Prepare
        <5>2. state'.mode = state.mode
          BY <4>1, <5>1, Zenon
        <5> QED  BY <4>2, <5>2 DEF Normal, NormalState
      <4>4. CASE \E stopped \in BOOLEAN : DeliveryEnds(stopped)
        BY <4>1, <4>2, <4>4 DEF DeliveryEnds, Normal, NormalState
      <4> QED  BY <1>15, <4>3, <4>4
    <3> QED  BY <1>k, <1>s, <2>1, <3>1, <3>2, <3>3 DEF Met, Playing, event
  <2> QED  BY <1>e, <1>n, <2>1, <1>15 DEF Prepare, DeliveryEnds, PersistOccurrence
<1>16. CASE SendRequest
  <2>1. /\ at["worker"] = "deliver" /\ UNCHANGED <<at, world, disk, state, owed, saving>>
        /\ history'.cued = event.entry
        /\ worker'.event = worker.event /\ worker'.boundary = worker.boundary
        /\ worker'.attempts = worker.attempts + 1 /\ worker.attempts \in Nat
    BY <1>16 DEF SendRequest, Typed, Workers, Histories, locks
  <2>2. CASE NoSaveFailed'
    <3> DEFINE e == event.entry
    <3>1. NoSaveFailed
      BY <1>f, <2>2
    <3>2. ~Normal /\ Decided /\ Playing /\ Met(e)
      BY <2>1 DEF ServeInvariant, ServePoints
    <3>3. ASSUME NEW record, Names(record) \/ (OfThisFallback(record) /\ Over(state.copy, clock))
          PROVE  KnowsOf(record, e, clock)
      BY <3>3 DEF Names, OfThisFallback, KnowsOf
    <3>4. CASE state.mode = "fallback"
      <4>1. Names(state) /\ Names(disk) /\ (saving["tick"] = NoState \/ Names(saving["tick"]))
        BY <2>1, <3>1, <3>4 DEF RecordInvariant
      <4>2. saving["worker"] = NoState
        BY <2>1 DEF Memory, SavePoints, Threads
      <4>3. /\ KnowsOf(state, e, clock) /\ KnowsOf(disk, e, clock)
            /\ \A thread \in Threads : saving[thread] # NoState => KnowsOf(saving[thread], e, clock)
        BY <3>3, <4>1, <4>2 DEF Threads
      <4> QED
        BY <2>1, <3>2, <4>3 DEF OnceInvariant, Met, Playing, Decided, event, world
    <3>5. CASE state.mode # "fallback"
      <4>1. state.mode = "resting"
        BY <3>2, <3>5 DEF Normal, Typed, States, Modes
      <4>2. Over(state.copy, clock)
        BY <4>1 DEF TimeInvariant, OfProgram
      <4>3. worker.mode # "normal"
        BY <1>16, <2>1, <4>2 DEF SendRequest, ServeInvariant
      <4>4. FoundFallback
        BY <2>1, <4>3 DEF FoundFallback, ServeInvariant, Typed, Workers, Modes
      <4>5. /\ OfThisFallback(disk) /\ OfThisFallback(state)
            /\ \A thread \in Threads : saving[thread] # NoState => OfThisFallback(saving[thread])
        BY <3>1, <3>2, <4>4 DEF SavedInvariant, OfThisFallback, Normal
      <4>6. /\ KnowsOf(state, e, clock) /\ KnowsOf(disk, e, clock)
            /\ \A thread \in Threads : saving[thread] # NoState => KnowsOf(saving[thread], e, clock)
        BY <3>3, <4>2, <4>5
      <4> QED
        BY <2>1, <3>2, <4>6 DEF OnceInvariant, Met, Playing, Decided, event, world
    <3> QED  BY <3>4, <3>5
  <2> QED  BY <1>n, <2>2
<1>17. CASE EventEnds
  <2>1. CASE NoSaveFailed' /\ history'.cued # NoEntry
    <3>1. /\ at["worker"] = "verdict" /\ at'["worker"] = "idle" /\ UNCHANGED <<state, owed, history>>
          /\ worker'.boundary = worker.boundary
      BY <1>17, <1>g DEF EventEnds, IdleWorker
    <3> QED  BY <1>k, <1>s, <2>1, <3>1 DEF Met, Normal, NormalState
  <2> QED  BY <1>e, <1>n, <2>1
<1>18. CASE EventDrained
  <2>1. CASE NoSaveFailed' /\ history'.cued # NoEntry
    <3>1. PICK callback \in Callbacks :
          /\ worker' = [worker EXCEPT !.event = [action |-> callback[1],
                             playlist |-> callback[2], entry |-> callback[3], at |-> clock]]
          /\ history' = [history EXCEPT !.cued =
                             IF callback[1] = "playing" /\ callback[3] = @ THEN @ ELSE NoEntry]
      BY <1>18 DEF EventDrained
    <3>2. callback[1] = "playing" /\ callback[3] = c /\ history'.cued = c
      BY <2>1, <3>1 DEF Typed, Histories
    <3> DEFINE e == [action |-> callback[1], playlist |-> callback[2], entry |-> callback[3],
                     at |-> clock]
    <3>3. e.action = "playing" /\ e.entry = c /\ worker' = [worker EXCEPT !.event = e]
      BY <3>1, <3>2
    <3>4. Playing' /\ event'.entry = c /\ worker'.boundary = worker.boundary
      <4> HIDE DEF e
      <4> QED  BY <3>3 DEF Playing, event, Typed, Workers
    <3>5. at["worker"] = "idle" /\ at'["worker"] = "cutoff" /\ UNCHANGED <<state, owed>>
      BY <1>18, <1>g DEF EventDrained
    <3> QED  BY <1>k, <1>s, <2>1, <3>2, <3>4, <3>5 DEF Met, Normal, NormalState
  <2> QED  BY <1>e, <1>n, <2>1
<1> QED
  BY <1>1, <1>2, <1>3, <1>4, <1>5, <1>6, <1>7, <1>8, <1>9, <1>10, <1>11, <1>12, <1>13, <1>14,
     <1>15, <1>16, <1>17, <1>18
  DEF HandlesEvent, Shared, SaveWrites, SaveFails, PostsSkipped, PostsSent

LEMMA OnceKept ==
  ASSUME Typed, Memory, FileInvariant, EnteringIsNew, RecordInvariant, TimeInvariant,
         ServeInvariant, SavedInvariant, OnceInvariant, [Next]_vars
  PROVE  OnceInvariant'
<1>f. NoSaveFailed' => NoSaveFailed
  BY FailureStays
<1>1. CASE Tick
  BY <1>1, TickOnce
<1>2. CASE HandlesEvent \/ EventDrained
  BY <1>2, WorkerOnce
<1>3. CASE Exit \/ Crash
  <2>1. /\ ~Up' /\ at'["worker"] = "down" /\ saving' = Nobody /\ UNCHANGED <<disk, clock>>
        /\ history'.cued = history.cued
    BY <1>3 DEF Exit, Crash, MemoryLost, Up, Threads, world, Typed, Histories
  <2> QED  BY <1>f, <2>1 DEF OnceInvariant, Nobody
<1>4. CASE RestartNormal
  <2>1. disk.mode = "normal" /\ UNCHANGED <<history, left>>
    BY <1>4 DEF RestartNormal, Restarts
  <2> QED  BY <1>f, <2>1 DEF OnceInvariant, KnowsOf
<1>5. CASE RestartOver
  <2>1. history'.cued = NoEntry
    BY <1>5 DEF RestartOver, Typed, Histories
  <2> QED  BY <2>1 DEF OnceInvariant
<1>6. CASE RestartUndecided
  <2>1. /\ at'["worker"] = "idle" /\ state' = disk /\ disk' = disk /\ saving' = Nobody
        /\ UNCHANGED <<history, clock>> /\ ~Over(disk.copy, clock)
    BY <1>6 DEF RestartUndecided, Restarts, Memory, Threads, world, locks
  <2>2. owed'.decision /\ ~owed'.forgetBoundary
    BY <1>6 DEF RestartUndecided, Restarts, ServeInvariant, Decided, Typed, Owed
  <2> QED
    BY <1>f, <2>1, <2>2 DEF OnceInvariant, KnowsOf, Remembers, Nobody
<1>7. CASE ClockAdvances
  <2>1. UNCHANGED <<at, worker, disk, state, saving, owed, history>>
    BY <1>7 DEF ClockAdvances, locks
  <2>2. event' = event
    BY <2>1 DEF event
  <2>3. CASE NoSaveFailed /\ history.cued # NoEntry
    <3>1. ASSUME NEW record, KnowsOf(record, history.cued, clock), OfProgram(record, clock)
          PROVE  KnowsOf(record, history.cued, clock')
      BY <3>1, TimeSteps DEF KnowsOf, OfProgram
    <3>2. /\ KnowsOf(disk, history.cued, clock')
          /\ Up => KnowsOf(state, history.cued, clock')
          /\ \A thread \in Threads :
                saving[thread] # NoState => KnowsOf(saving[thread], history.cued, clock')
      BY <2>3, <3>1 DEF OnceInvariant, TimeInvariant
    <3> QED  BY <2>1, <2>2, <2>3, <3>2 DEF OnceInvariant, Remembers, Met, Playing, Up
  <2> QED  BY <1>f, <2>1, <2>3 DEF OnceInvariant
<1>8. CASE StopRequested \/ UNCHANGED vars
  <2>1. UNCHANGED <<at, worker, disk, state, saving, owed, history, clock>>
    BY <1>8 DEF StopRequested, vars, locks, world
  <2> QED
    BY <1>f, <2>1 DEF OnceInvariant, KnowsOf, Remembers, Met, Playing, Up, event
<1> QED  BY <1>1, <1>2, <1>3, <1>4, <1>5, <1>6, <1>7, <1>8 DEF Next

(* The first request for an entry FPP stays on is the only first one:      *)
(* neither a repeated callback nor a crash or a stop at any point makes    *)
(* this player cue it again, as long as no write has failed.               *)
THEOREM CuedOnce == Spec => NoEntryCuedTwice
<1> DEFINE Inv == /\ Typed /\ Memory /\ FileInvariant /\ EnteringIsNew /\ RecordInvariant
                  /\ TimeInvariant /\ ServeInvariant /\ SavedInvariant /\ OnceInvariant
<1>1. Init => Inv
  BY InitTyped, InitMemory, InitFile, InitEntering, InitRecord, InitTime, InitServe, InitSaved,
     InitOnce
<1>2. Inv /\ [Next]_vars => Inv'
  BY NextTyped, MemoryKept, FileKept, EnteringKept, RecordKept, TimeKept, ServeKept, SavedKept,
     OnceKept
<1>3. Inv /\ [Next]_vars =>
         [(SendRequest /\ worker.attempts = 0 /\ NoSaveFailed) => history.cued # event.entry]_vars
  BY CallbackAssumption DEF SendRequest, OnceInvariant, TimeInvariant
<1> QED  BY <1>1, <1>2, <1>3, PTL DEF Spec, NoEntryCuedTwice
=============================================================================
