------------------------ MODULE BrightnessPersistence ------------------------
(***************************************************************************)
(* The brightness of one player and the two files that carry it over a     *)
(* restart: the engine (native/src/brightness.cpp), its store              *)
(* (native/src/brightness_store.cpp) and the runtime's flushes of it       *)
(* (native/src/runtime.cpp).                                               *)
(*                                                                         *)
(* Threads: "web" serves the weather gate route and flushes before it      *)
(* answers; "worker" publishes and flushes what is dirty, and after the    *)
(* worker's end stands for the adapter's teardown, which flushes once      *)
(* more.  A step is what one of them does under one hold of engineMutex_   *)
(* or one file operation, so the process may die between any two of them.  *)
(*                                                                         *)
(* A stamp numbers the changes of the engine; the code has no such number, *)
(* and the properties compare by it which of two captures is the later.    *)
(***************************************************************************)
EXTENDS FadingValue

CONSTANTS
    Absent, Invalid,     \* a file that is missing, and one that does not parse
    NoState,             \* a thread is not flushing
    SafeCeiling,         \* the ShowMeshSafeCeilingPercent setting
    Targets,             \* the levels commands ask for
    Durations,           \* the durations of their fades
    PeerStates,          \* the full states that MultiSync may deliver
    MaxGateRevision,     \* kMaxWeatherGateRevision
    Ahead,               \* kMaxOrderingKeyAheadOfNowMillis
    MaxClock,            \* bound: the last instant
    Windows,             \* the <<start, end>> of scheduled gain fades
    GateRevisions,       \* the revisions the coordinator writes the gate at
    Budgets              \* bounds: commands, gate writes, peers' states,
                         \* crashes and stops, faults (a file operation
                         \* that fails, a file that is corrupted), and
                         \* instants that pass; a behaviour has one of them

Bounded == {"commands", "gates", "peers", "ends", "faults", "instants"}

ASSUME SettingAssumption ==
    /\ SafeCeiling \in Level
    /\ Targets \subseteq Level
    /\ Durations \subseteq Nat
    /\ Windows \subseteq Nat \X Nat
    /\ GateRevisions \subseteq 0 .. MaxGateRevision
    /\ MaxGateRevision \in Nat
    /\ Ahead \in Nat

(* The codec refuses a gate revision above the largest one. *)
ASSUME PeerAssumption ==
    PeerStates \subseteq [changedAt : Nat, value : [{"ceiling", "gain"} -> Fade],
                          closed : BOOLEAN, gateRevision : 0 .. MaxGateRevision]

ASSUME BoundAssumption ==
    /\ MaxClock \in Nat \ {0}
    /\ Budgets \subseteq [Bounded -> Nat]

VARIABLES
    clock,
    engine,      \* engine_; after the end of a process, what it last held
    primary, backup,
    phase,       \* the process: running, stopping or down
    worker,      \* where the worker's pass is
    dirty,       \* brightnessDirty_
    published,   \* publishedBrightnessRevision_
    flushed,     \* flushedBrightnessRevision_, Never until the first flush
    stored,      \* storedGateClosed_ and storedGateRevision_
    flush,       \* what each thread is writing, under brightnessFlushMutex_
    left,        \* what is left of the budget
    history      \* read by properties alone

files == <<primary, backup>>
memory == <<dirty, published, flushed, stored>>
vars == <<clock, engine, files, phase, worker, memory, flush, left, history>>

Threads == {"web", "worker"}

Values == {"ceiling", "gain"}

Never == -1

Spend(what) ==
    /\ left[what] > 0
    /\ left' = [left EXCEPT ![what] = @ - 1]

Up == phase # "down"

Valid(file) == file \notin {Absent, Invalid}
-----------------------------------------------------------------------------
(* The level a value has at an instant. *)
LevelOf(held, v, now) == ValueAt(held.value[v], now)

(* bumpRevision(): a local change orders after whatever it replaces. *)
Later(a, b) == IF a < b THEN b ELSE a

NextStamp == history.changes + 1

Bumped(held) ==
    [held EXCEPT !.revision = @ + 1, !.changedAt = Later(clock, @ + 1), !.stamp = NextStamp]

Change(held) ==
    /\ engine' = held
    /\ history' = [history EXCEPT !.changes = @ + 1]

FreshGate == [closed |-> FALSE, revision |-> 0, stamp |-> 0]

FreshEngine == [stamp |-> 0, revision |-> 0, changedAt |-> 0,
                value |-> [v \in Values |-> Settled(Full)],
                applied |-> [v \in Values |-> Full],
                gate |-> FreshGate]

(* captureState() *)
Captured == [engine |-> engine, persistedAt |-> clock]

NotFlushing == [at |-> "idle", record |-> NoState, again |-> FALSE]

Init ==
    /\ clock \in 1 .. MaxClock
    /\ engine = FreshEngine
    /\ primary = Absent
    /\ backup = Absent
    /\ phase = "running"
    /\ worker = "publish"
    /\ dirty = FALSE
    /\ published = 0
    /\ flushed = Never
    /\ stored = [closed |-> FALSE, revision |-> 0]
    /\ flush = [thread \in Threads |-> NotFlushing]
    /\ left \in Budgets
    /\ history = [changes |-> 0, answering |-> 0, promised |-> 0, failed |-> FALSE,
                  corrupted |-> FALSE, lost |-> FALSE]
-----------------------------------------------------------------------------
(* The ways the engine changes. *)

(* The FPP command for the ceiling, the transition gain route for the gain. *)
Command(v, target, duration) ==
    /\ phase = "running"
    /\ Spend("commands")
    /\ Change(Bumped([engine EXCEPT !.value[v] = FadeTo(@, target, duration, clock)]))
    /\ UNCHANGED <<clock, files, phase, worker, memory, flush>>

(* The transition gain route with endsAtMs and startsAtMs. *)
ScheduleGain(target, window) ==
    /\ phase = "running"
    /\ Spend("commands")
    /\ Change(Bumped([engine EXCEPT !.value["gain"] = FadeBetween(@, target, window[1], window[2], clock)]))
    /\ UNCHANGED <<clock, files, phase, worker, memory, flush>>

Capped(revision) == IF revision < MaxGateRevision THEN revision ELSE MaxGateRevision

RaisedRevision(revision) == Later(Capped(engine.gate.revision + 1), Capped(revision))

(* Writing the gate at the largest revision again need not change it. *)
SetGate(closed, revision) ==
    IF engine.gate.closed = closed /\ engine.gate.revision = RaisedRevision(revision)
    THEN engine.gate
    ELSE [closed |-> closed, revision |-> RaisedRevision(revision), stamp |-> NextStamp]

(* The weather gate route, up to the flush that it waits for. *)
GateWritten(closed, revision) ==
    /\ phase = "running"
    /\ flush["web"].at = "idle"
    /\ Spend("gates")
    /\ engine' = Bumped([engine EXCEPT !.gate = SetGate(closed, revision)])
    /\ history' = [history EXCEPT !.changes = @ + 1, !.answering = SetGate(closed, revision).stamp]
    /\ flush' = [flush EXCEPT !["web"].at = "begin"]
    /\ UNCHANGED <<clock, files, phase, worker, memory>>

ClosesGate(peer) == peer.closed /\ peer.gateRevision > engine.gate.revision

(* The checks that keep a peer's values from being adopted. *)
Acceptable(peer) ==
    /\ peer.changedAt = 0 \/ peer.changedAt >= Earliest
    /\ peer.changedAt <= clock + Ahead
    /\ \A v \in Values : WindowPlausible(peer.value[v])

(* A tie in time goes by instance and hash, that is, either way. *)
Newer(peer) == Acceptable(peer) /\ peer.changedAt > engine.changedAt

MayBeNewer(peer) == Acceptable(peer) /\ peer.changedAt >= engine.changedAt

WithPeerGate(peer) ==
    IF ClosesGate(peer)
    THEN [engine EXCEPT !.gate = [closed |-> TRUE, revision |-> Capped(peer.gateRevision), stamp |-> NextStamp],
                        !.revision = @ + 1, !.stamp = NextStamp]
    ELSE engine

WithPeerValues(peer, held) ==
    [held EXCEPT !.value = peer.value, !.changedAt = peer.changedAt, !.revision = @ + 1,
                 !.stamp = NextStamp]

(* adoptEncodedFullState(): an adopted gate is marked dirty at once. *)
AdoptState(peer, adopts) ==
    /\ Up
    /\ Spend("peers")
    /\ Newer(peer) => adopts
    /\ adopts => MayBeNewer(peer)
    /\ Change(IF adopts THEN WithPeerValues(peer, WithPeerGate(peer)) ELSE WithPeerGate(peer))
    /\ dirty' = (dirty \/ ClosesGate(peer))
    /\ UNCHANGED <<clock, files, phase, worker, published, flushed, stored, flush>>

(* applyToFrame(): the levels this frame went out with. *)
Frame ==
    /\ Up
    /\ engine' = [engine EXCEPT !.applied = [v \in Values |-> LevelOf(engine, v, clock)]]
    /\ UNCHANGED <<clock, files, phase, worker, memory, flush, left, history>>
-----------------------------------------------------------------------------
(* The worker's pass: publish what changed, then flush what is dirty. *)

(* Plausible bug: only an adopted gate is ever marked dirty. *)
NotDirtied == dirty

Dirtied == dirty \/ engine.revision # published

Publish ==
    /\ phase # "down"
    /\ worker = "publish"
    /\ dirty' = Dirtied
    /\ published' = engine.revision
    /\ worker' = "flush"
    /\ UNCHANGED <<clock, engine, files, phase, flushed, stored, flush, left, history>>

(* The mark is taken before the flush, so one that lands later is kept. *)
FlushIfDirty ==
    /\ worker = "flush"
    /\ dirty' = FALSE
    /\ IF dirty
       THEN /\ flush' = [flush EXCEPT !["worker"].at = "begin"]
            /\ worker' = "flushing"
       ELSE /\ worker' = "publish"
            /\ UNCHANGED flush
    /\ UNCHANGED <<clock, engine, files, phase, published, flushed, stored, left, history>>
-----------------------------------------------------------------------------
(* flushBrightnessState() by either thread. *)

(* Plausible bug: brightnessFlushMutex_ is not taken. *)
NoLock == TRUE

LockFree == \A thread \in Threads : flush[thread].at \in {"idle", "begin"}

AlreadyFlushed == flushed = engine.revision

(* The thread returns to what it does after a flush. *)
Return(thread) ==
    /\ flush' = [flush EXCEPT ![thread] = NotFlushing]
    /\ worker' = IF thread = "web" THEN worker
                 ELSE IF worker = "teardown" THEN "done" ELSE "publish"

(* What the web thread answers once its flush has succeeded. *)
Answered(thread) == IF thread = "web" THEN Later(history.answering, history.promised) ELSE history.promised

SkipFlush(thread) ==
    /\ flush[thread].at = "begin"
    /\ LockFree
    /\ AlreadyFlushed
    /\ Return(thread)
    /\ history' = [history EXCEPT !.promised = Answered(thread)]
    /\ UNCHANGED <<clock, engine, files, phase, memory, left>>

BeginFlush(thread) ==
    /\ flush[thread].at = "begin"
    /\ LockFree
    /\ ~AlreadyFlushed
    /\ flush' = [flush EXCEPT ![thread] = [at |-> "rotate", record |-> Captured, again |-> FALSE]]
    /\ UNCHANGED <<clock, engine, files, phase, worker, memory, left, history>>

(* writeWithBackupRotation(): only a valid primary is rotated ... *)
Rotate(thread) ==
    /\ flush[thread].at = "rotate"
    /\ flush' = [flush EXCEPT ![thread].at = "write"]
    /\ IF Valid(primary) THEN backup' = primary /\ primary' = Absent ELSE UNCHANGED files
    /\ UNCHANGED <<clock, engine, phase, worker, memory, left, history>>

(* ... and a rename that fails is passed over. *)
RotationFails(thread) ==
    /\ flush[thread].at = "rotate"
    /\ Valid(primary)
    /\ Spend("faults")
    /\ flush' = [flush EXCEPT ![thread].at = "write"]
    /\ UNCHANGED <<clock, engine, files, phase, worker, memory, history>>

(* Plausible bug: every change is written once. *)
WritesOnce(thread) == FALSE

(* A change of the gate is written twice, so that the backup has it too. *)
WritesAgain(thread) ==
    LET gate == flush[thread].record.engine.gate
    IN  /\ ~flush[thread].again
        /\ stored # [closed |-> gate.closed, revision |-> gate.revision]

WriteOnce(thread) ==
    /\ flush[thread].at = "write"
    /\ WritesAgain(thread)
    /\ primary' = flush[thread].record
    /\ flush' = [flush EXCEPT ![thread].at = "rotate", ![thread].again = TRUE]
    /\ UNCHANGED <<clock, engine, backup, phase, worker, memory, left, history>>

WriteLast(thread) ==
    LET held == flush[thread].record.engine
    IN  /\ flush[thread].at = "write"
        /\ ~WritesAgain(thread)
        /\ primary' = flush[thread].record
        /\ stored' = [closed |-> held.gate.closed, revision |-> held.gate.revision]
        /\ flushed' = held.revision
        /\ Return(thread)
        /\ history' = [history EXCEPT !.promised = Answered(thread), !.failed = FALSE]
        /\ UNCHANGED <<clock, engine, backup, phase, dirty, published, left>>

(* The worker reports a failed flush and goes on; the route answers. *)
WriteFails(thread) ==
    /\ flush[thread].at = "write"
    /\ Spend("faults")
    /\ Return(thread)
    /\ history' = [history EXCEPT !.failed = TRUE]
    /\ UNCHANGED <<clock, engine, files, phase, memory>>

FlushStep(thread) ==
    \/ SkipFlush(thread)
    \/ BeginFlush(thread)
    \/ Rotate(thread)
    \/ RotationFails(thread)
    \/ WriteOnce(thread)
    \/ WriteLast(thread)
    \/ WriteFails(thread)
-----------------------------------------------------------------------------
(* The end of a process and the start of the next. *)

StopRequested ==
    /\ phase = "running"
    /\ flush["web"].at = "idle"
    /\ Spend("ends")
    /\ phase' = "stopping"
    /\ UNCHANGED <<clock, engine, files, worker, memory, flush, history>>

(* The worker is joined; the adapter flushes whatever is not yet on disk. *)
Teardown ==
    /\ phase = "stopping"
    /\ worker = "publish"
    /\ worker' = "teardown"
    /\ flush' = [flush EXCEPT !["worker"].at = "begin"]
    /\ UNCHANGED <<clock, engine, files, phase, memory, left, history>>

Dies ==
    /\ phase' = "down"
    /\ worker' = "publish"
    /\ flush' = [thread \in Threads |-> NotFlushing]
    /\ dirty' = FALSE
    /\ published' = 0
    /\ flushed' = Never
    /\ stored' = [closed |-> FALSE, revision |-> 0]
    /\ UNCHANGED <<clock, engine, files>>

Exit ==
    /\ worker = "done"
    /\ Dies
    /\ UNCHANGED <<left, history>>

Crash ==
    /\ Up
    /\ Spend("ends")
    /\ Dies
    /\ UNCHANGED history

(* What a bit flip, a truncation or a hand edit does to a file; lost: the *)
(* other one was not there to stand in for it.                            *)
Corrupted(file, other) ==
    /\ Valid(file)
    /\ Spend("faults")
    /\ history' = [history EXCEPT !.corrupted = TRUE, !.lost = @ \/ ~Valid(other)]

CorruptPrimary ==
    /\ Corrupted(primary, backup)
    /\ primary' = Invalid
    /\ UNCHANGED <<clock, engine, backup, phase, worker, memory, flush>>

CorruptBackup ==
    /\ Corrupted(backup, primary)
    /\ backup' = Invalid
    /\ UNCHANGED <<clock, engine, primary, phase, worker, memory, flush>>

(* The ordering key of a record is not taken over when it cannot be one. *)
KeyPlausible(held) == held.changedAt = 0 \/ held.changedAt >= Earliest

(* restoreFromPersisted() *)
RestoredEngine(record, now) ==
    LET held == record.engine
        darker == [v \in Values |-> Darker(held.applied[v], held.value[v].target)]
    IN  IF KeyPlausible(held)
        THEN [held EXCEPT !.value = [v \in Values |->
                  Restored(held.value[v], held.applied[v], record.persistedAt, now)]]
        ELSE [FreshEngine EXCEPT !.stamp = held.stamp, !.gate = held.gate, !.applied = darker,
                                 !.value = [v \in Values |-> Settled(darker[v])]]

(* settleSafeAfterUntrustedRestart(), with bumpRevision(). *)
SettledEngine(gate, now) ==
    [FreshEngine EXCEPT !.value = [v \in Values |-> Settled(IF v = "ceiling" THEN SafeCeiling ELSE Full)],
                        !.applied = [v \in Values |-> IF v = "ceiling" THEN SafeCeiling ELSE Full],
                        !.gate = gate, !.revision = 1, !.changedAt = Later(now, 1), !.stamp = NextStamp]

Restarts(now) ==
    /\ phase = "down"
    /\ phase' = "running"
    /\ clock' = now
    /\ UNCHANGED <<files, worker, dirty, published, flushed, flush, left>>

Remembers(gate) == stored' = [closed |-> gate.closed, revision |-> gate.revision]

RestartTrusted(now) ==
    /\ Restarts(now)
    /\ Valid(primary)
    /\ engine' = RestoredEngine(primary, now)
    /\ Remembers(primary.engine.gate)
    /\ UNCHANGED history

(* The gate is taken from the backup, the levels are not. *)
RestartFromBackup(now) ==
    /\ Restarts(now)
    /\ ~Valid(primary)
    /\ Valid(backup)
    /\ Change(SettledEngine(backup.engine.gate, now))
    /\ Remembers(backup.engine.gate)

RestartUnreadable(now) ==
    /\ Restarts(now)
    /\ ~Valid(primary)
    /\ ~Valid(backup)
    /\ Invalid \in {primary, backup}
    /\ Change(SettledEngine(FreshGate, now))
    /\ Remembers(FreshGate)

RestartFirst(now) ==
    /\ Restarts(now)
    /\ primary = Absent
    /\ backup = Absent
    /\ engine' = FreshEngine
    /\ Remembers(FreshGate)
    /\ UNCHANGED history

Restart(now) ==
    \/ RestartTrusted(now)
    \/ RestartFromBackup(now)
    \/ RestartUnreadable(now)
    \/ RestartFirst(now)

TimePasses ==
    /\ clock < MaxClock
    /\ Spend("instants")
    /\ clock' = clock + 1
    /\ UNCHANGED <<engine, files, phase, worker, memory, flush, history>>

Instants == 1 .. MaxClock

Next ==
    \/ TimePasses
    \/ Frame
    \/ \E v \in Values, target \in Targets, duration \in Durations : Command(v, target, duration)
    \/ \E target \in Targets, window \in Windows : ScheduleGain(target, window)
    \/ \E closed \in BOOLEAN, revision \in GateRevisions : GateWritten(closed, revision)
    \/ \E peer \in PeerStates, adopts \in BOOLEAN : AdoptState(peer, adopts)
    \/ Publish
    \/ FlushIfDirty
    \/ \E thread \in Threads : FlushStep(thread)
    \/ StopRequested
    \/ Teardown
    \/ Exit
    \/ Crash
    \/ CorruptPrimary
    \/ CorruptBackup
    \/ \E now \in Instants : Restart(now)

Spec == Init /\ [][Next]_vars
-----------------------------------------------------------------------------
(* Types of the state. *)
GateType == [closed : BOOLEAN, revision : 0 .. MaxGateRevision, stamp : Nat]

EngineType == [stamp : Nat, revision : Nat, changedAt : Nat, value : [Values -> Fade],
               applied : [Values -> Level], gate : GateType]

RecordType == [engine : EngineType, persistedAt : Nat]

ASSUME FileAssumption == Absent # Invalid /\ Absent \notin RecordType /\ Invalid \notin RecordType

FileType == RecordType \union {Absent, Invalid}

FlushType == [at : {"idle", "begin", "rotate", "write"}, record : RecordType \union {NoState},
              again : BOOLEAN]

HistoryType == [changes : Nat, answering : Nat, promised : Nat, failed : BOOLEAN,
                corrupted : BOOLEAN, lost : BOOLEAN]

(* Every variable holds a value of its kind; levels stay in their range    *)
(* whatever fades replace one another (brightness.h, "0-100").             *)
TypeOK ==
    /\ clock \in Instants
    /\ engine \in EngineType
    /\ primary \in FileType
    /\ backup \in FileType
    /\ phase \in {"running", "stopping", "down"}
    /\ worker \in {"publish", "flush", "flushing", "teardown", "done"}
    /\ dirty \in BOOLEAN
    /\ published \in Nat
    /\ flushed \in Nat \union {Never}
    /\ stored \in [closed : BOOLEAN, revision : 0 .. MaxGateRevision]
    /\ flush \in [Threads -> FlushType]
    /\ left \in [Bounded -> Nat]
    /\ history \in HistoryType

NobodyWrites == \A thread \in Threads : flush[thread].at \in {"idle", "begin"}

(* A flush is skipped when the engine's revision is the one last flushed   *)
(* (runtime.cpp:496).  Whenever that is so and no write is under way, the  *)
(* primary is the capture of the engine's last change: no flush of the     *)
(* other thread has put an older capture over it.                          *)
SkippedWriteIsOnDisk ==
    Up /\ AlreadyFlushed /\ NobodyWrites /\ primary # Invalid
        => Valid(primary) /\ primary.engine.stamp = engine.stamp

(* Nothing is left to write: published, not dirty and not being written. *)
NothingPending ==
    /\ Up
    /\ published = engine.revision
    /\ engine.stamp > 0
    /\ ~dirty
    /\ \A thread \in Threads : flush[thread].at = "idle"
    /\ ~history.failed
    /\ primary # Invalid

(* When the worker has published the engine's revision, nothing is marked  *)
(* dirty and the last write did not fail, the change is on disk: no change *)
(* that lands during a flush is left to the next one that happens to come. *)
PublishedChangeIsWritten ==
    NothingPending => Valid(primary) /\ primary.engine.stamp = engine.stamp

(* A gate write that was answered after a successful flush is never undone *)
(* by a restart (README.md, "a closed gate must survive a restart"),       *)
(* whatever crash or stop comes and whichever one file is corrupted.       *)
GateNeverForgotten ==
    Up /\ ~history.lost => engine.gate.stamp >= history.promised

Records == {primary, backup} \ {Absent, Invalid}

(* Every fade of the record has a window that can be placed at this time. *)
TimingKnown(record, now) ==
    /\ KeyPlausible(record.engine)
    /\ record.persistedAt <= now
    /\ \A v \in Values : WindowPlausible(record.engine.value[v]) /\ record.engine.value[v].from <= now

Brighter(v, than) == LevelOf(engine', v, clock') > than

(* A restart from the primary whose timing can be placed is not brighter   *)
(* than both what the record says was applied last, or was asked for       *)
(* without a fade, and what its fade has come to by now                    *)
(* (README.md:204-208); the fade goes on to the same target.               *)
RestartNotBrighter ==
    [][\A v \in Values :
        phase = "down" /\ phase' = "running" /\ Valid(primary) /\ TimingKnown(primary, clock')
            => LET fade == primary.engine.value[v]
                   applied == primary.engine.applied[v]
               IN  /\ ~Brighter(v, ValueAt(fade, clock'))
                   /\ ~NoWindow(fade) => ~Brighter(v, applied)]_vars

(* A step of this player's own in which a value takes up another fade. *)
FadeBegins(v) ==
    /\ phase = "running" /\ phase' = "running"
    /\ left'.peers = left.peers
    /\ engine'.value[v] # engine.value[v]
    /\ Fading(engine'.value[v])

(* Whichever way a fade is replaced or scheduled on this player, the new   *)
(* one begins at the level the value has reached (README.md, "replacement  *)
(* introduces no jump"), and only an instant change or a peer moves it.    *)
FadesBeginAtTheLevel ==
    [][\A v \in Values :
        FadeBegins(v) => LevelOf(engine', v, clock) = LevelOf(engine, v, clock)]_vars

(* The clock moves forward and every recorded fade can be placed. *)
OrderlyRestart ==
    /\ phase = "down"
    /\ phase' = "running"
    /\ clock' >= clock
    /\ Records # {}
    /\ \A record \in Records : TimingKnown(record, clock')

(* README.md:207, "It never comes back brighter than what it was already   *)
(* applying": an orderly restart that finds a record is not above all of   *)
(* the last frame, the level that was being faded to and what is on disk.  *)
NeverComesBackBrighter ==
    [][OrderlyRestart /\ ~history.corrupted
        => \A v \in Values :
               \/ ~Brighter(v, engine.applied[v])
               \/ ~Brighter(v, LevelOf(engine, v, clock'))
               \/ \E record \in Records : ~Brighter(v, LevelOf(record.engine, v, clock'))]_vars
=============================================================================
