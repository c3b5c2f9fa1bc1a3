--------------------- MODULE BrightnessPersistence_proofs ---------------------
(***************************************************************************)
(* Proofs about one player's brightness, for every number of levels, every *)
(* set of commands, fades and peers' states, and every bound.              *)
(***************************************************************************)
EXTENDS BrightnessPersistence, TLAPS

(* A quotient of what lies between two multiples of the divisor. *)
LEMMA QuotientBetween ==
  ASSUME NEW a \in Int, NEW d \in Nat \ {0}, NEW low \in Int, NEW high \in Int,
         low * d <= a, a <= high * d
  PROVE  /\ a \div d \in Int
         /\ low <= a \div d
         /\ a \div d <= high
<1> DEFINE q == a \div d
<1>1. q \in Int /\ q * d <= a /\ a < (q + 1) * d
  BY SMT
<1> HIDE DEF q
<1>2. low < q + 1
  BY <1>1, SMT
<1>3. q < high + 1
  BY <1>1, SMT
<1> QED  BY <1>1, <1>2, <1>3 DEF q

(* A fade never leaves the range of levels. *)
LEMMA ValueInRange ==
  ASSUME NEW fade \in Fade, NEW now \in Nat
  PROVE  ValueAt(fade, now) \in Level
<1> DEFINE d == fade.to - fade.from
           e == now - fade.from
           s == fade.start
           t == fade.target
<1>1. s \in Level /\ t \in Level /\ fade.from \in Nat /\ fade.to \in Nat
  BY DEF Fade
<1>2. Full \in Nat
  BY LevelAssumption
<1>3. CASE ~Fading(fade) \/ now >= fade.to \/ now <= fade.from
  BY <1>1, <1>3 DEF ValueAt, Fading
<1>4. CASE Fading(fade) /\ now < fade.to /\ now > fade.from
  <2>1. d \in Nat \ {0} /\ e \in Nat /\ e <= d
    BY <1>1, <1>4 DEF Fading
  <2>2. s \in Int /\ t \in Int /\ s >= 0 /\ s <= Full /\ t >= 0 /\ t <= Full
    BY <1>1, <1>2 DEF Level
  <2> DEFINE a == (t - s) * e
  <2>3. ValueAt(fade, now) = s + a \div d
    BY <1>1, <1>4 DEF ValueAt, Fading, Interpolated
  <2> HIDE DEF s, t, d, e
  <2>4. a \in Int /\ (0 - s) * d <= a /\ a <= (Full - s) * d
    <3>1. (0 - s) * d <= (0 - s) * e /\ (0 - s) * e <= a
      BY <2>1, <2>2, SMT
    <3>2. a <= (Full - s) * e /\ (Full - s) * e <= (Full - s) * d
      BY <1>2, <2>1, <2>2, SMT
    <3>3. a \in Int /\ (0 - s) * e \in Int /\ (0 - s) * d \in Int
          /\ (Full - s) * e \in Int /\ (Full - s) * d \in Int
      BY <1>2, <2>1, <2>2
    <3> DEFINE l == (0 - s) * d
               h == (Full - s) * d
               m == (0 - s) * e
               n == (Full - s) * e
    <3> HIDE DEF a, l, h, m, n
    <3> QED  BY <3>1, <3>2, <3>3 DEF l, h, m, n
  <2> HIDE DEF a
  <2>5. a \div d \in Int /\ 0 - s <= a \div d /\ a \div d <= Full - s
    BY <1>2, <2>1, <2>2, <2>4, QuotientBetween
  <2> QED  BY <1>2, <2>2, <2>3, <2>5 DEF Level
<1> QED  BY <1>1, <1>3, <1>4

LEMMA SettledInRange ==
  ASSUME NEW level \in Level
  PROVE  Settled(level) \in Fade
BY DEF Settled, Fade

(* Replaced and scheduled fades are fades. *)
LEMMA FadesInRange ==
  ASSUME NEW fade \in Fade, NEW target \in Level, NEW now \in Nat
  PROVE  /\ \A duration \in Nat : FadeTo(fade, target, duration, now) \in Fade
         /\ \A from, to \in Nat : FadeBetween(fade, target, from, to, now) \in Fade
<1>1. ValueAt(fade, now) \in Level
  BY ValueInRange
<1>2. Settled(target) \in Fade
  BY SettledInRange
<1> QED  BY <1>1, <1>2 DEF FadeTo, FadeBetween, Fade

(* What a restart makes of a fade is a fade. *)
LEMMA RestoredInRange ==
  ASSUME NEW fade \in Fade, NEW applied \in Level, NEW persistedAt \in Nat, NEW now \in Nat
  PROVE  Restored(fade, applied, persistedAt, now) \in Fade
<1>1. fade.target \in Level
  BY DEF Fade
<1>2. \A level \in {fade.target, applied, Darker(applied, fade.target)} : Settled(level) \in Fade
  BY <1>1, SettledInRange DEF Darker
<1>3. [fade EXCEPT !.start = applied, !.from = now] \in Fade
  BY DEF Fade
<1>4. Resumed(fade, applied, now) \in Fade
  <2>0. ValueAt(fade, now) \in Int /\ applied \in Int
    BY ValueInRange, LevelAssumption DEF Level
  <2>1. CASE ValueAt(fade, now) <= applied
    <3>1. ~(ValueAt(fade, now) > applied)
      BY <2>0, <2>1
    <3> QED  BY <2>1, <3>1 DEF Resumed
  <2>2. CASE ~(ValueAt(fade, now) <= applied)
    <3>1. ValueAt(fade, now) > applied
      BY <2>0, <2>2
    <3>2. CASE now < fade.to
      BY <1>3, <2>2, <3>1, <3>2 DEF Resumed
    <3>3. CASE ~(now < fade.to)
      BY <1>2, <2>2, <3>1, <3>3 DEF Resumed
    <3> QED  BY <3>2, <3>3
  <2> QED  BY <2>1, <2>2
<1> QED  BY <1>2, <1>4 DEF Restored

(* A resumed or settled value is not above the level last applied, unless  *)
(* it was recorded without a fade.                                         *)
LEMMA RestoredNotBrighter ==
  ASSUME NEW fade \in Fade, NEW applied \in Level, NEW persistedAt \in Nat, NEW now \in Nat,
         ~NoWindow(fade)
  PROVE  ValueAt(Restored(fade, applied, persistedAt, now), now) <= applied
<1>1. /\ fade.target \in Int /\ applied \in Int /\ ValueAt(fade, now) \in Int
      /\ fade.from \in Nat /\ fade.to \in Nat
  BY ValueInRange, LevelAssumption DEF Fade, Level
<1>2. \A level \in Int : ValueAt(Settled(level), now) = level
  BY DEF ValueAt, Settled, Fading
<1>3. ValueAt(Resumed(fade, applied, now), now) <= applied
  <2>1. CASE ValueAt(fade, now) <= applied
    <3>1. ~(ValueAt(fade, now) > applied)
      BY <1>1, <2>1
    <3>2. Resumed(fade, applied, now) = fade
      BY <2>1, <3>1 DEF Resumed
    <3> QED  BY <2>1, <3>2
  <2>2. CASE ValueAt(fade, now) > applied /\ now < fade.to
    <3> DEFINE anchored == [fade EXCEPT !.start = applied, !.from = now]
    <3>1. Resumed(fade, applied, now) = anchored
      BY <1>1, <2>2 DEF Resumed
    <3>2. anchored.start = applied /\ anchored.from = now /\ anchored.to = fade.to
      BY DEF Fade
    <3>3. ValueAt(anchored, now) = applied
      <4> HIDE DEF anchored
      <4> QED  BY <1>1, <2>2, <3>2 DEF ValueAt, Fading
    <3> QED  BY <1>1, <3>1, <3>3
  <2>3. CASE ValueAt(fade, now) > applied /\ ~(now < fade.to)
    BY <1>1, <1>2, <2>3 DEF Resumed
  <2> QED  BY <1>1, <2>1, <2>2, <2>3
<1>4. Darker(applied, fade.target) \in Int /\ Darker(applied, fade.target) <= applied
  BY <1>1 DEF Darker
<1>5. CASE WindowPlausible(fade) /\ TimingTrusted(fade, persistedAt, now)
  BY <1>3, <1>5 DEF Restored
<1>6. CASE ~(WindowPlausible(fade) /\ TimingTrusted(fade, persistedAt, now))
  BY <1>2, <1>4, <1>6 DEF Restored
<1> QED  BY <1>5, <1>6

(* A value whose fade can be placed is not above what the fade has come to. *)
LEMMA RestoredNotAboveItsFade ==
  ASSUME NEW fade \in Fade, NEW applied \in Level, NEW persistedAt \in Nat, NEW now \in Nat,
         WindowPlausible(fade), fade.from <= now, persistedAt <= now
  PROVE  ValueAt(Restored(fade, applied, persistedAt, now), now) <= ValueAt(fade, now)
<1>1. /\ fade.target \in Int /\ applied \in Int /\ ValueAt(fade, now) \in Int
      /\ fade.from \in Nat /\ fade.to \in Nat
  BY ValueInRange, LevelAssumption DEF Fade, Level
<1>2. \A level \in Int : ValueAt(Settled(level), now) = level
  BY DEF ValueAt, Settled, Fading
<1>3. CASE NoWindow(fade)
  <2>1. ValueAt(fade, now) = fade.target
    BY <1>1, <1>3 DEF ValueAt, Fading, NoWindow
  <2>2. ~TimingTrusted(fade, persistedAt, now)
    BY <1>1, <1>3 DEF TimingTrusted, NoWindow
  <2>3. Restored(fade, applied, persistedAt, now) = Settled(fade.target)
    BY <1>3, <2>2 DEF Restored
  <2> QED  BY <1>1, <1>2, <2>3, <2>1, <2>2
<1>4. CASE ~NoWindow(fade) /\ fade.from < fade.to
  <2>1. Restored(fade, applied, persistedAt, now) = Resumed(fade, applied, now)
    BY <1>4 DEF Restored, TimingTrusted
  <2>2. CASE ValueAt(fade, now) <= applied
    <3>1. ~(ValueAt(fade, now) > applied)
      BY <1>1, <2>2
    <3>2. Resumed(fade, applied, now) = fade
      BY <2>2, <3>1 DEF Resumed
    <3> QED  BY <1>1, <2>1, <3>2
  <2>3. CASE ~(ValueAt(fade, now) <= applied)
    <3>1. ValueAt(Restored(fade, applied, persistedAt, now), now) <= applied
      BY <1>4, RestoredNotBrighter
    <3>2. ValueAt(Restored(fade, applied, persistedAt, now), now) \in Int
      <4>1. Restored(fade, applied, persistedAt, now) \in Fade
        BY RestoredInRange
      <4> QED  BY <4>1, ValueInRange, LevelAssumption DEF Level
    <3> QED  BY <1>1, <2>3, <3>1, <3>2
  <2> QED  BY <2>2, <2>3
<1>5. CASE ~NoWindow(fade) /\ ~(fade.from < fade.to)
  <2>1. Restored(fade, applied, persistedAt, now) = Settled(Darker(applied, fade.target))
    BY <1>5 DEF Restored, TimingTrusted
  <2>2. ValueAt(fade, now) = fade.target
    BY <1>1, <1>5 DEF ValueAt, Fading
  <2>3. Darker(applied, fade.target) \in Int /\ Darker(applied, fade.target) <= fade.target
    BY <1>1 DEF Darker
  <2> QED  BY <1>2, <2>1, <2>2, <2>3
<1> QED  BY <1>3, <1>4, <1>5

(* A fade begun or scheduled now starts at the level reached by now. *)
LEMMA FadesContinue ==
  ASSUME NEW fade \in Fade, NEW target \in Level, NEW now \in Nat
  PROVE  /\ \A duration \in Nat :
              Fading(FadeTo(fade, target, duration, now))
                => ValueAt(FadeTo(fade, target, duration, now), now) = ValueAt(fade, now)
         /\ \A from, to \in Nat :
              Fading(FadeBetween(fade, target, from, to, now))
                => ValueAt(FadeBetween(fade, target, from, to, now), now) = ValueAt(fade, now)
<1>1. ~Fading(Settled(target))
  BY DEF Fading, Settled
<1>2. \A from, to \in Nat :
        now <= from /\ from < to
          => ValueAt([start |-> ValueAt(fade, now), target |-> target, from |-> from, to |-> to], now)
               = ValueAt(fade, now)
  <2> DEFINE level == ValueAt(fade, now)
  <2> HIDE DEF level
  <2>1. \A from, to \in Nat :
        now <= from /\ from < to
          => ValueAt([start |-> level, target |-> target, from |-> from, to |-> to], now) = level
    BY DEF ValueAt, Fading
  <2> QED  BY <2>1 DEF level
<1>3. ASSUME NEW duration \in Nat, Fading(FadeTo(fade, target, duration, now))
      PROVE  ValueAt(FadeTo(fade, target, duration, now), now) = ValueAt(fade, now)
  <2>1. duration # 0
    BY <1>1, <1>3 DEF FadeTo
  <2>2. now + duration \in Nat /\ now < now + duration
    BY <2>1
  <2> QED  BY <1>2, <2>1, <2>2 DEF FadeTo
<1>4. ASSUME NEW from \in Nat, NEW to \in Nat, Fading(FadeBetween(fade, target, from, to, now))
      PROVE  ValueAt(FadeBetween(fade, target, from, to, now), now) = ValueAt(fade, now)
  <2>1. ~(to <= now \/ to <= from)
    BY <1>1, <1>4 DEF FadeBetween
  <2> DEFINE begin == IF from < now THEN now ELSE from
  <2>2. begin \in Nat /\ now <= begin /\ begin < to
    BY <2>1
  <2>3. FadeBetween(fade, target, from, to, now)
          = [start |-> ValueAt(fade, now), target |-> target, from |-> begin, to |-> to]
    BY <2>1 DEF FadeBetween
  <2> HIDE DEF begin
  <2> QED  BY <1>2, <2>2, <2>3
<1> QED  BY <1>3, <1>4

-----------------------------------------------------------------------------
(* A thread that writes has a record to write. *)
WritersHaveRecords ==
  \A thread \in Threads : flush[thread].at \in {"rotate", "write"} => flush[thread].record \in RecordType

TypedState == TypeOK /\ WritersHaveRecords

LEMMA FreshEngineTyped == FreshEngine \in EngineType /\ FreshGate \in GateType
<1>1. Full \in Level
  BY LevelAssumption DEF Level
<1>2. Settled(Full) \in Fade
  BY <1>1, SettledInRange
<1>3. FreshGate \in GateType
  BY SettingAssumption DEF FreshGate, GateType
<1> QED  BY <1>1, <1>2, <1>3 DEF FreshEngine, EngineType

THEOREM InitTyped == Init => TypedState
<1> SUFFICES ASSUME Init PROVE TypedState
  OBVIOUS
<1>1. FreshEngine \in EngineType
  BY FreshEngineTyped
<1>2. flush \in [Threads -> FlushType]
  BY DEF Init, NotFlushing, FlushType
<1>3. left \in [Bounded -> Nat]
  BY BoundAssumption DEF Init
<1>4. stored \in [closed : BOOLEAN, revision : 0 .. MaxGateRevision]
  BY SettingAssumption DEF Init
<1>5. history \in HistoryType
  BY DEF Init, HistoryType
<1>6. WritersHaveRecords
  BY DEF Init, NotFlushing, WritersHaveRecords
<1> QED  BY <1>1, <1>2, <1>3, <1>4, <1>5, <1>6 DEF Init, TypedState, TypeOK, FileType, Instants

(* The engines that the actions leave. *)
LEMMA BumpedTyped ==
  ASSUME TypeOK, NEW held \in EngineType
  PROVE  Bumped(held) \in EngineType
<1> DEFINE changedAt == Later(clock, held.changedAt + 1)
<1>1. changedAt \in Nat /\ held.revision + 1 \in Nat
  BY DEF TypeOK, EngineType, Later, Instants
<1>2. NextStamp \in Nat
  BY DEF TypeOK, NextStamp, HistoryType
<1>3. Bumped(held) = [held EXCEPT !.revision = held.revision + 1, !.changedAt = changedAt, !.stamp = NextStamp]
  BY DEF Bumped, EngineType
<1> HIDE DEF changedAt
<1> QED  BY <1>1, <1>2, <1>3 DEF EngineType

LEMMA ChangeTyped ==
  ASSUME TypeOK, NEW held \in EngineType, Change(held)
  PROVE  engine' \in EngineType /\ history' \in HistoryType
BY DEF Change, TypeOK, HistoryType

LEMMA SpendTyped ==
  ASSUME TypeOK, NEW what \in Bounded, Spend(what)
  PROVE  left' \in [Bounded -> Nat]
BY DEF Spend, TypeOK

LEMMA GateTyped ==
  ASSUME TypeOK, NEW closed \in BOOLEAN, NEW revision \in Nat
  PROVE  /\ Capped(revision) \in 0 .. MaxGateRevision
         /\ SetGate(closed, revision) \in GateType
<1>1. \A r \in Nat : Capped(r) \in 0 .. MaxGateRevision
  BY SettingAssumption DEF Capped
<1>2. engine.gate \in GateType /\ engine.gate.revision + 1 \in Nat
  BY SettingAssumption DEF TypeOK, EngineType, GateType
<1>3. RaisedRevision(revision) \in 0 .. MaxGateRevision
  BY <1>1, <1>2, SettingAssumption DEF RaisedRevision, Later
<1>4. NextStamp \in Nat
  BY DEF TypeOK, HistoryType, NextStamp
<1> QED  BY <1>1, <1>2, <1>3, <1>4 DEF SetGate, GateType

LEMMA RestoredEngineTyped ==
  ASSUME TypeOK, NEW record \in RecordType, NEW now \in Nat
  PROVE  RestoredEngine(record, now) \in EngineType
<1> DEFINE held == record.engine
           darker == [v \in Values |-> Darker(held.applied[v], held.value[v].target)]
<1>1. held \in EngineType /\ record.persistedAt \in Nat
  BY DEF RecordType
<1>2. \A v \in Values : held.value[v] \in Fade /\ held.applied[v] \in Level /\ held.value[v].target \in Level
  BY <1>1 DEF EngineType, Fade
<1>3. CASE KeyPlausible(held)
  <2> DEFINE value == [v \in Values |-> Restored(held.value[v], held.applied[v], record.persistedAt, now)]
  <2>1. value \in [Values -> Fade]
    BY <1>1, <1>2, RestoredInRange
  <2>2. RestoredEngine(record, now) = [held EXCEPT !.value = value]
    BY <1>3 DEF RestoredEngine
  <2> HIDE DEF held, value
  <2> QED  BY <1>1, <2>1, <2>2 DEF EngineType
<1>4. CASE ~KeyPlausible(held)
  <2> DEFINE value == [v \in Values |-> Settled(darker[v])]
  <2>1. darker \in [Values -> Level]
    BY <1>2 DEF Darker
  <2>2. value \in [Values -> Fade]
    <3> HIDE DEF darker
    <3> QED  BY <2>1, SettledInRange
  <2>3. RestoredEngine(record, now)
          = [stamp |-> held.stamp, revision |-> 0, changedAt |-> 0, value |-> value, applied |-> darker,
             gate |-> held.gate]
    BY <1>4 DEF RestoredEngine, FreshEngine
  <2> HIDE DEF held, darker, value
  <2> QED  BY <1>1, <2>1, <2>2, <2>3 DEF EngineType
<1> QED  BY <1>3, <1>4

LEMMA SettledEngineTyped ==
  ASSUME TypeOK, NEW gate \in GateType, NEW now \in Nat
  PROVE  SettledEngine(gate, now) \in EngineType
<1> DEFINE level(v) == IF v = "ceiling" THEN SafeCeiling ELSE Full
<1>1. \A v \in Values : level(v) \in Level
  BY LevelAssumption, SettingAssumption DEF Level
<1>2. \A v \in Values : Settled(level(v)) \in Fade
  BY <1>1, SettledInRange
<1>3. Later(now, 1) \in Nat /\ NextStamp \in Nat
  BY DEF Later, TypeOK, HistoryType, NextStamp
<1> DEFINE levels == [v \in Values |-> level(v)]
           values == [v \in Values |-> Settled(level(v))]
<1>4. levels \in [Values -> Level] /\ values \in [Values -> Fade]
  BY <1>1, <1>2
<1>5. SettledEngine(gate, now)
        = [FreshEngine EXCEPT !.value = values, !.applied = levels, !.gate = gate, !.revision = 1,
                              !.changedAt = Later(now, 1), !.stamp = NextStamp]
  BY DEF SettledEngine
<1>6. FreshEngine \in EngineType
  BY FreshEngineTyped
<1> HIDE DEF levels, values
<1>7. [FreshEngine EXCEPT !.value = values, !.applied = levels] \in EngineType
  BY <1>4, <1>6 DEF EngineType
<1>8. [[FreshEngine EXCEPT !.value = values, !.applied = levels]
         EXCEPT !.gate = gate, !.revision = 1, !.changedAt = Later(now, 1), !.stamp = NextStamp] \in EngineType
  BY <1>3, <1>7 DEF EngineType
<1> QED  BY <1>5, <1>8

(* What an action that leaves the flushes alone has to show. *)
LEMMA WritersKept ==
  ASSUME WritersHaveRecords, flush' = flush
  PROVE  WritersHaveRecords'
BY DEF WritersHaveRecords

(* A thread that turns to something else than writing. *)
LEMMA ThreadTyped ==
  ASSUME TypedState, NEW thread \in Threads, NEW to \in FlushType,
         to.at \in {"rotate", "write"} => to.record \in RecordType,
         flush' = [flush EXCEPT ![thread] = to]
  PROVE  flush' \in [Threads -> FlushType] /\ WritersHaveRecords'
BY DEF TypedState, TypeOK, WritersHaveRecords

LEMMA ReturnTyped ==
  ASSUME TypedState, NEW thread \in Threads, Return(thread)
  PROVE  /\ flush' \in [Threads -> FlushType]
         /\ WritersHaveRecords'
         /\ worker' \in {"publish", "flush", "flushing", "teardown", "done"}
<1>1. NotFlushing \in FlushType /\ ~(NotFlushing.at \in {"rotate", "write"})
  BY DEF NotFlushing, FlushType
<1>2. flush' \in [Threads -> FlushType] /\ WritersHaveRecords'
  BY <1>1, ThreadTyped DEF Return
<1> QED  BY <1>2 DEF Return, TypedState, TypeOK

(* The changes of the engine. *)
LEMMA EngineStepTyped ==
  ASSUME TypedState, NEW held \in EngineType, Change(held), left' \in [Bounded -> Nat], dirty' \in BOOLEAN,
         UNCHANGED <<clock, files, phase, worker, published, flushed, stored, flush>>
  PROVE  TypedState'
<1>1. engine' \in EngineType /\ history' \in HistoryType
  BY ChangeTyped DEF TypedState
<1>2. WritersHaveRecords'
  BY WritersKept DEF TypedState
<1> QED  BY <1>1, <1>2 DEF TypedState, TypeOK, files

LEMMA CommandTyped ==
  ASSUME TypedState, NEW v \in Values, NEW target \in Targets, NEW duration \in Durations,
         Command(v, target, duration)
  PROVE  TypedState'
<1> DEFINE fade == FadeTo(engine.value[v], target, duration, clock)
           faded == [engine EXCEPT !.value[v] = fade]
<1>1. engine.value[v] \in Fade /\ engine \in EngineType /\ clock \in Nat
  BY DEF TypedState, TypeOK, EngineType, Instants
<1>2. fade \in Fade
  BY <1>1, FadesInRange, SettingAssumption
<1>3. faded \in EngineType
  <2> HIDE DEF fade
  <2> QED  BY <1>1, <1>2 DEF EngineType
<1>4. Bumped(faded) \in EngineType
  <2> HIDE DEF faded
  <2> QED  BY <1>3, BumpedTyped DEF TypedState
<1>5. left' \in [Bounded -> Nat]
  BY SpendTyped DEF Command, Bounded, TypedState
<1>6. Change(Bumped(faded))
  BY DEF Command
<1> HIDE DEF faded
<1> QED  BY <1>4, <1>5, <1>6, EngineStepTyped DEF Command, memory, TypedState, TypeOK

LEMMA ScheduleGainTyped ==
  ASSUME TypedState, NEW target \in Targets, NEW window \in Windows, ScheduleGain(target, window)
  PROVE  TypedState'
<1> DEFINE fade == FadeBetween(engine.value["gain"], target, window[1], window[2], clock)
           faded == [engine EXCEPT !.value["gain"] = fade]
<1>1. engine.value["gain"] \in Fade /\ engine \in EngineType /\ clock \in Nat
  BY DEF TypedState, TypeOK, EngineType, Instants, Values
<1>2. window[1] \in Nat /\ window[2] \in Nat /\ target \in Level
  BY SettingAssumption
<1>3. fade \in Fade
  BY <1>1, <1>2, FadesInRange
<1>4. faded \in EngineType
  <2> HIDE DEF fade
  <2> QED  BY <1>1, <1>3 DEF EngineType
<1>5. Bumped(faded) \in EngineType
  <2> HIDE DEF faded
  <2> QED  BY <1>4, BumpedTyped DEF TypedState
<1>6. left' \in [Bounded -> Nat]
  BY SpendTyped DEF ScheduleGain, Bounded, TypedState
<1>7. Change(Bumped(faded))
  BY DEF ScheduleGain
<1> HIDE DEF faded
<1> QED  BY <1>5, <1>6, <1>7, EngineStepTyped DEF ScheduleGain, memory, TypedState, TypeOK

LEMMA GateWrittenTyped ==
  ASSUME TypedState, NEW closed \in BOOLEAN, NEW revision \in GateRevisions, GateWritten(closed, revision)
  PROVE  TypedState'
<1> DEFINE gate == SetGate(closed, revision)
           gated == [engine EXCEPT !.gate = gate]
           to == [flush["web"] EXCEPT !.at = "begin"]
<1>1. gate \in GateType
  BY GateTyped, SettingAssumption DEF TypedState
<1>2. gated \in EngineType
  <2> HIDE DEF gate
  <2> QED  BY <1>1 DEF TypedState, TypeOK, EngineType
<1>3. Bumped(gated) \in EngineType
  <2> HIDE DEF gated
  <2> QED  BY <1>2, BumpedTyped DEF TypedState
<1>4. left' \in [Bounded -> Nat]
  BY SpendTyped DEF GateWritten, Bounded, TypedState
<1>5. engine' \in EngineType
  BY <1>3 DEF GateWritten
<1>6. history' \in HistoryType
  <2>1. gate.stamp \in Nat
    BY <1>1 DEF GateType
  <2>2. history' = [history EXCEPT !.changes = history.changes + 1, !.answering = gate.stamp]
    BY DEF GateWritten, TypedState, TypeOK, HistoryType
  <2>3. history \in HistoryType /\ history.changes + 1 \in Nat
    BY DEF TypedState, TypeOK, HistoryType
  <2> HIDE DEF gate
  <2> QED  BY <2>1, <2>2, <2>3 DEF HistoryType
<1>7. to \in FlushType /\ to.at = "begin" /\ flush' = [flush EXCEPT !["web"] = to]
  BY DEF GateWritten, TypedState, TypeOK, FlushType, Threads
<1>8. flush' \in [Threads -> FlushType] /\ WritersHaveRecords'
  <2> HIDE DEF to
  <2> QED  BY <1>7, ThreadTyped DEF Threads
<1> HIDE DEF to, gated, gate
<1> QED  BY <1>4, <1>5, <1>6, <1>8 DEF GateWritten, TypedState, TypeOK, files, memory

LEMMA AdoptStateTyped ==
  ASSUME TypedState, NEW peer \in PeerStates, NEW adopts \in BOOLEAN, AdoptState(peer, adopts)
  PROVE  TypedState'
<1> DEFINE gated == WithPeerGate(peer)
           held == IF adopts THEN WithPeerValues(peer, gated) ELSE gated
<1>1. /\ peer.changedAt \in Nat
      /\ peer.value \in [Values -> Fade]
      /\ peer.gateRevision \in Nat
  BY PeerAssumption DEF Values
<1>2. NextStamp \in Nat
  BY DEF TypedState, TypeOK, HistoryType, NextStamp
<1>3. gated \in EngineType
  <2> DEFINE gate == [closed |-> TRUE, revision |-> Capped(peer.gateRevision), stamp |-> NextStamp]
  <2>1. Capped(peer.gateRevision) \in 0 .. MaxGateRevision
    BY <1>1, GateTyped DEF TypedState
  <2>2. gate \in GateType
    BY <1>2, <2>1 DEF GateType
  <2>3. engine \in EngineType /\ engine.revision + 1 \in Nat
    BY DEF TypedState, TypeOK, EngineType
  <2>4. gated = IF ClosesGate(peer)
                THEN [engine EXCEPT !.gate = gate, !.revision = engine.revision + 1, !.stamp = NextStamp]
                ELSE engine
    BY <2>3 DEF WithPeerGate, EngineType
  <2> HIDE DEF gate, gated
  <2> QED  BY <1>2, <2>2, <2>3, <2>4 DEF EngineType
<1>4. WithPeerValues(peer, gated) \in EngineType
  <2> HIDE DEF gated
  <2>1. gated.revision + 1 \in Nat
    BY <1>3 DEF EngineType
  <2>2. WithPeerValues(peer, gated)
          = [gated EXCEPT !.value = peer.value, !.changedAt = peer.changedAt, !.revision = gated.revision + 1,
                          !.stamp = NextStamp]
    BY <1>3 DEF WithPeerValues, EngineType
  <2> QED  BY <1>1, <1>2, <1>3, <2>1, <2>2 DEF EngineType
<1>5. held \in EngineType
  BY <1>3, <1>4
<1>6. left' \in [Bounded -> Nat]
  BY SpendTyped DEF AdoptState, Bounded, TypedState
<1>7. Change(held)
  BY DEF AdoptState
<1>8. dirty' \in BOOLEAN
  BY DEF AdoptState, TypedState, TypeOK
<1>9. UNCHANGED <<clock, files, phase, worker, published, flushed, stored, flush>>
  BY DEF AdoptState
<1> HIDE DEF held
<1> QED  BY <1>5, <1>6, <1>7, <1>8, <1>9, EngineStepTyped

LEMMA FrameTyped ==
  ASSUME TypedState, Frame
  PROVE  TypedState'
<1> DEFINE levels == [v \in Values |-> LevelOf(engine, v, clock)]
<1>1. engine \in EngineType /\ clock \in Nat
  BY DEF TypedState, TypeOK, Instants
<1>2. levels \in [Values -> Level]
  BY <1>1, ValueInRange DEF LevelOf, EngineType
<1>3. engine' \in EngineType
  <2>1. engine' = [engine EXCEPT !.applied = levels]
    BY DEF Frame
  <2> HIDE DEF levels
  <2> QED  BY <1>1, <1>2, <2>1 DEF EngineType
<1>4. WritersHaveRecords'
  BY WritersKept DEF Frame, TypedState
<1> QED  BY <1>3, <1>4 DEF Frame, TypedState, TypeOK, files, memory

LEMMA WorkerPassTyped ==
  ASSUME TypedState, Publish \/ FlushIfDirty \/ Teardown
  PROVE  TypedState'
<1> DEFINE to == [flush["worker"] EXCEPT !.at = "begin"]
<1>1. to \in FlushType /\ to.at = "begin" /\ "worker" \in Threads
  BY DEF TypedState, TypeOK, FlushType, Threads
<1>2. ASSUME flush' = [flush EXCEPT !["worker"].at = "begin"]
      PROVE  flush' \in [Threads -> FlushType] /\ WritersHaveRecords'
  <2>1. flush' = [flush EXCEPT !["worker"] = to]
    BY <1>2
  <2> HIDE DEF to
  <2> QED  BY <1>1, <2>1, ThreadTyped
<1>3. CASE Publish
  <2>1. WritersHaveRecords'
    BY <1>3, WritersKept DEF Publish, TypedState
  <2>2. published' \in Nat
    BY <1>3 DEF Publish, TypedState, TypeOK, EngineType
  <2>3. dirty' \in BOOLEAN
    BY <1>3 DEF Publish, Dirtied, TypedState, TypeOK
  <2> QED  BY <1>3, <2>1, <2>2, <2>3 DEF Publish, TypedState, TypeOK, files
<1>4. CASE FlushIfDirty
  <2>1. flush' \in [Threads -> FlushType] /\ WritersHaveRecords'
    BY <1>2, <1>4, WritersKept DEF FlushIfDirty, TypedState, TypeOK
  <2>2. worker' \in {"publish", "flush", "flushing", "teardown", "done"}
    BY <1>4 DEF FlushIfDirty
  <2> QED  BY <1>4, <2>1, <2>2 DEF FlushIfDirty, TypedState, TypeOK, files
<1>5. CASE Teardown
  <2>1. flush' \in [Threads -> FlushType] /\ WritersHaveRecords'
    BY <1>2, <1>5 DEF Teardown
  <2> QED  BY <1>5, <2>1 DEF Teardown, TypedState, TypeOK, files, memory
<1> QED  BY <1>3, <1>4, <1>5

(* What a file operation leaves in the two files. *)
LEMMA FlushStepTyped ==
  ASSUME TypedState, NEW thread \in Threads, FlushStep(thread)
  PROVE  TypedState'
<1>1. /\ flush[thread] \in FlushType
      /\ flush[thread].at \in {"rotate", "write"} => flush[thread].record \in RecordType
  BY DEF TypedState, TypeOK, WritersHaveRecords
<1>2. Captured \in RecordType
  BY DEF Captured, RecordType, TypedState, TypeOK, Instants
<1>3. ASSUME NEW to \in FlushType, to.at \in {"rotate", "write"} => to.record \in RecordType,
             flush' = [flush EXCEPT ![thread] = to]
      PROVE  flush' \in [Threads -> FlushType] /\ WritersHaveRecords'
  BY <1>3, ThreadTyped
<1>4. Answered(thread) \in Nat
  BY DEF Answered, Later, TypedState, TypeOK, HistoryType
<1>5. CASE SkipFlush(thread)
  <2>1. history' \in HistoryType
    <3> DEFINE answered == Answered(thread)
    <3>1. history' = [history EXCEPT !.promised = answered]
      BY <1>5 DEF SkipFlush
    <3> HIDE DEF answered
    <3> QED  BY <1>4, <3>1 DEF TypedState, TypeOK, HistoryType, answered
  <2>2. /\ flush' \in [Threads -> FlushType]
        /\ WritersHaveRecords'
        /\ worker' \in {"publish", "flush", "flushing", "teardown", "done"}
    BY <1>5, ReturnTyped DEF SkipFlush
  <2> QED  BY <1>5, <2>1, <2>2 DEF SkipFlush, TypedState, TypeOK, files, memory
<1>6. CASE BeginFlush(thread)
  <2> DEFINE to == [at |-> "rotate", record |-> Captured, again |-> FALSE]
  <2>1. to \in FlushType /\ to.record \in RecordType
    BY <1>2 DEF FlushType
  <2>2. flush' = [flush EXCEPT ![thread] = to]
    BY <1>6 DEF BeginFlush
  <2>3. flush' \in [Threads -> FlushType] /\ WritersHaveRecords'
    <3> HIDE DEF to
    <3> QED  BY <1>3, <2>1, <2>2
  <2> QED  BY <1>6, <2>3 DEF BeginFlush, TypedState, TypeOK, files, memory
<1>7. CASE Rotate(thread) \/ RotationFails(thread)
  <2> DEFINE to == [flush[thread] EXCEPT !.at = "write"]
  <2>1. to \in FlushType /\ to.record = flush[thread].record /\ flush[thread].at = "rotate"
    BY <1>1, <1>7 DEF FlushType, Rotate, RotationFails
  <2>2. flush' = [flush EXCEPT ![thread] = to]
    BY <1>7 DEF Rotate, RotationFails
  <2>3. flush' \in [Threads -> FlushType] /\ WritersHaveRecords'
    <3> HIDE DEF to
    <3> QED  BY <1>1, <1>3, <2>1, <2>2
  <2>4. primary' \in FileType /\ backup' \in FileType
    BY <1>7 DEF Rotate, RotationFails, files, TypedState, TypeOK, FileType
  <2>5. left' \in [Bounded -> Nat]
    BY <1>7, SpendTyped DEF Rotate, RotationFails, Bounded, TypedState, TypeOK
  <2> QED  BY <1>7, <2>3, <2>4, <2>5 DEF Rotate, RotationFails, TypedState, TypeOK, memory
<1>8. CASE WriteOnce(thread)
  <2> DEFINE to == [[flush[thread] EXCEPT !.at = "rotate"] EXCEPT !.again = TRUE]
  <2>1. to \in FlushType /\ to.record = flush[thread].record /\ flush[thread].at = "write"
    BY <1>1, <1>8 DEF FlushType, WriteOnce
  <2>2. flush' = [flush EXCEPT ![thread] = to]
    BY <1>8 DEF WriteOnce, TypedState, TypeOK
  <2>3. flush' \in [Threads -> FlushType] /\ WritersHaveRecords'
    <3> HIDE DEF to
    <3> QED  BY <1>1, <1>3, <2>1, <2>2
  <2>4. primary' \in FileType
    BY <1>1, <1>8 DEF WriteOnce, FileType
  <2> QED  BY <1>8, <2>3, <2>4 DEF WriteOnce, TypedState, TypeOK, memory
<1>9. CASE WriteLast(thread)
  <2>1. flush[thread].record \in RecordType
    BY <1>1, <1>9 DEF WriteLast
  <2>2. /\ primary' \in FileType /\ flushed' \in Nat
        /\ stored' \in [closed : BOOLEAN, revision : 0 .. MaxGateRevision]
    BY <1>9, <2>1 DEF WriteLast, FileType, RecordType, EngineType, GateType
  <2>3. history' \in HistoryType
    <3> DEFINE answered == Answered(thread)
    <3>1. history' = [history EXCEPT !.promised = answered, !.failed = FALSE]
      BY <1>9 DEF WriteLast
    <3> HIDE DEF answered
    <3> QED  BY <1>4, <3>1 DEF TypedState, TypeOK, HistoryType, answered
  <2>4. /\ flush' \in [Threads -> FlushType]
        /\ WritersHaveRecords'
        /\ worker' \in {"publish", "flush", "flushing", "teardown", "done"}
    BY <1>9, ReturnTyped DEF WriteLast
  <2> QED  BY <1>9, <2>2, <2>3, <2>4 DEF WriteLast, TypedState, TypeOK
<1>10. CASE WriteFails(thread)
  <2>1. /\ flush' \in [Threads -> FlushType]
        /\ WritersHaveRecords'
        /\ worker' \in {"publish", "flush", "flushing", "teardown", "done"}
    BY <1>10, ReturnTyped DEF WriteFails
  <2>2. left' \in [Bounded -> Nat]
    BY <1>10, SpendTyped DEF WriteFails, Bounded, TypedState
  <2>3. history' \in HistoryType
    BY <1>10 DEF WriteFails, TypedState, TypeOK, HistoryType
  <2> QED  BY <1>10, <2>1, <2>2, <2>3 DEF WriteFails, TypedState, TypeOK, files, memory
<1> QED  BY <1>5, <1>6, <1>7, <1>8, <1>9, <1>10 DEF FlushStep

LEMMA EndTyped ==
  ASSUME TypedState, StopRequested \/ Exit \/ Crash
  PROVE  TypedState'
<1>1. CASE StopRequested
  <2>1. left' \in [Bounded -> Nat] /\ WritersHaveRecords'
    BY <1>1, SpendTyped, WritersKept DEF StopRequested, Bounded, TypedState
  <2> QED  BY <1>1, <2>1 DEF StopRequested, TypedState, TypeOK, files, memory
<1>2. ASSUME Dies, left' \in [Bounded -> Nat], history' = history
      PROVE  TypedState'
  <2>1. flush' \in [Threads -> FlushType] /\ WritersHaveRecords'
    BY <1>2 DEF Dies, NotFlushing, FlushType, WritersHaveRecords
  <2>2. stored' \in [closed : BOOLEAN, revision : 0 .. MaxGateRevision]
    BY <1>2, SettingAssumption DEF Dies
  <2> QED  BY <1>2, <2>1, <2>2 DEF Dies, TypedState, TypeOK, files
<1>3. CASE Exit
  BY <1>2, <1>3 DEF Exit, TypedState, TypeOK
<1>4. CASE Crash
  BY <1>2, <1>4, SpendTyped DEF Crash, Bounded, TypedState
<1> QED  BY <1>1, <1>3, <1>4

LEMMA CorruptionTyped ==
  ASSUME TypedState, CorruptPrimary \/ CorruptBackup
  PROVE  TypedState'
<1>1. left' \in [Bounded -> Nat]
  BY SpendTyped DEF CorruptPrimary, CorruptBackup, Corrupted, Bounded, TypedState
<1>2. WritersHaveRecords'
  BY WritersKept DEF CorruptPrimary, CorruptBackup, TypedState
<1>3. history' \in HistoryType
  <2>1. ASSUME NEW lost \in BOOLEAN, history' = [history EXCEPT !.corrupted = TRUE, !.lost = lost]
        PROVE  history' \in HistoryType
    BY <2>1 DEF TypedState, TypeOK, HistoryType
  <2>2. PICK other : history' = [history EXCEPT !.corrupted = TRUE, !.lost = history.lost \/ ~Valid(other)]
    BY DEF CorruptPrimary, CorruptBackup, Corrupted
  <2> QED  BY <2>1, <2>2
<1> QED  BY <1>1, <1>2, <1>3 DEF CorruptPrimary, CorruptBackup, TypedState, TypeOK, FileType, memory

LEMMA RestartTyped ==
  ASSUME TypedState, NEW now \in Instants, Restart(now)
  PROVE  TypedState'
<1>1. now \in Nat
  BY DEF Instants
<1>2. Restarts(now)
  BY DEF Restart, RestartTrusted, RestartFromBackup, RestartUnreadable, RestartFirst
<1>3. WritersHaveRecords'
  BY <1>2, WritersKept DEF Restarts, TypedState
<1>4. ASSUME engine' \in EngineType, history' \in HistoryType, NEW gate \in GateType, Remembers(gate)
      PROVE  TypedState'
  <2>1. stored' \in [closed : BOOLEAN, revision : 0 .. MaxGateRevision]
    BY <1>4 DEF Remembers, GateType
  <2> QED  BY <1>2, <1>3, <1>4, <2>1 DEF Restarts, TypedState, TypeOK, files
<1>5. \A file \in {primary, backup} :
        Valid(file) => file \in RecordType /\ file.engine.gate \in GateType
  BY DEF Valid, TypedState, TypeOK, FileType, RecordType, EngineType
<1>6. CASE RestartTrusted(now)
  <2>1. engine' \in EngineType
    BY <1>1, <1>5, <1>6, RestoredEngineTyped DEF RestartTrusted, TypedState
  <2> QED  BY <1>4, <1>5, <1>6, <2>1 DEF RestartTrusted, TypedState, TypeOK
<1>7. CASE RestartFromBackup(now)
  <2>1. engine' \in EngineType /\ history' \in HistoryType
    BY <1>1, <1>5, <1>7, SettledEngineTyped, ChangeTyped DEF RestartFromBackup, TypedState
  <2> QED  BY <1>4, <1>5, <1>7, <2>1 DEF RestartFromBackup
<1>8. CASE RestartUnreadable(now)
  <2>1. engine' \in EngineType /\ history' \in HistoryType
    BY <1>1, <1>8, FreshEngineTyped, SettledEngineTyped, ChangeTyped DEF RestartUnreadable, TypedState
  <2> QED  BY <1>4, <1>8, <2>1, FreshEngineTyped DEF RestartUnreadable
<1>9. CASE RestartFirst(now)
  BY <1>4, <1>9, FreshEngineTyped DEF RestartFirst, TypedState, TypeOK
<1> QED  BY <1>6, <1>7, <1>8, <1>9 DEF Restart

LEMMA NextTyped ==
  ASSUME TypedState, [Next]_vars
  PROVE  TypedState'
<1>1. CASE TimePasses
  <2>1. left' \in [Bounded -> Nat] /\ WritersHaveRecords'
    BY <1>1, SpendTyped, WritersKept DEF TimePasses, Bounded, TypedState
  <2>2. clock' \in Instants
    BY <1>1, BoundAssumption DEF TimePasses, TypedState, TypeOK, Instants
  <2> QED  BY <1>1, <2>1, <2>2 DEF TimePasses, TypedState, TypeOK, files, memory
<1>2. CASE UNCHANGED vars
  BY <1>2, WritersKept DEF vars, TypedState, TypeOK, files, memory
<1>3. CASE \E thread \in Threads : FlushStep(thread)
  BY <1>3, FlushStepTyped
<1> QED  BY <1>1, <1>2, <1>3, FrameTyped, CommandTyped, ScheduleGainTyped, GateWrittenTyped, AdoptStateTyped,
            WorkerPassTyped, EndTyped, CorruptionTyped, RestartTyped DEF Next

(* Every variable keeps its type, and every level stays within 0 .. Full   *)
(* whatever fades, peers and restarts follow one another.                  *)
THEOREM TypeCorrect == Spec => []TypeOK
<1>1. Init => TypedState
  BY InitTyped
<1>2. TypedState /\ [Next]_vars => TypedState'
  BY NextTyped
<1>3. TypedState => TypeOK
  BY DEF TypedState
<1> QED  BY <1>1, <1>2, <1>3, PTL DEF Spec

-----------------------------------------------------------------------------
(* A restart from a primary whose timing can be placed is not brighter     *)
(* than the record's fade has come to, nor, if a fade was recorded, than   *)
(* the level last applied.                                                 *)
THEOREM RestartStaysDark == Spec => RestartNotBrighter
<1> DEFINE Dark(v) ==
        phase = "down" /\ phase' = "running" /\ Valid(primary) /\ TimingKnown(primary, clock')
            => /\ ~Brighter(v, ValueAt(primary.engine.value[v], clock'))
               /\ ~NoWindow(primary.engine.value[v]) => ~Brighter(v, primary.engine.applied[v])
<1>1. ASSUME TypeOK, [Next]_vars, NEW v \in Values
      PROVE  Dark(v)
  <2> SUFFICES ASSUME phase = "down", phase' = "running", Valid(primary), TimingKnown(primary, clock')
               PROVE  /\ ~Brighter(v, ValueAt(primary.engine.value[v], clock'))
                      /\ ~NoWindow(primary.engine.value[v]) => ~Brighter(v, primary.engine.applied[v])
    OBVIOUS
  <2> DEFINE fade == primary.engine.value[v]
             applied == primary.engine.applied[v]
             at == primary.persistedAt
             after == ValueAt(Restored(fade, applied, at, clock'), clock')
  <2>1. PICK now \in Instants : RestartTrusted(now)
    <3>1. \E now \in Instants : Restart(now)
      BY <1>1 DEF Next, vars, TimePasses, Frame, Command, ScheduleGain, GateWritten, AdoptState, Publish,
                  FlushIfDirty, FlushStep, SkipFlush, BeginFlush, Rotate, RotationFails, WriteOnce, WriteLast,
                  WriteFails, StopRequested, Teardown, Exit, Crash, Dies, CorruptPrimary, CorruptBackup
    <3> QED  BY <3>1 DEF Restart, RestartFromBackup, RestartUnreadable, RestartFirst, Valid
  <2>2. clock' = now /\ now \in Nat /\ engine' = RestoredEngine(primary, now)
    BY <2>1 DEF RestartTrusted, Restarts, Instants
  <2>3. primary \in RecordType
    BY <1>1 DEF Valid, TypeOK, FileType
  <2>4. fade \in Fade /\ applied \in Level /\ at \in Nat
    BY <2>3 DEF RecordType, EngineType
  <2>5. KeyPlausible(primary.engine) /\ at <= clock' /\ WindowPlausible(fade) /\ fade.from <= clock'
    BY DEF TimingKnown
  <2>6. engine'.value[v] = Restored(fade, applied, at, clock')
    BY <2>2, <2>3, <2>5 DEF RestoredEngine, RecordType, EngineType
  <2>7. LevelOf(engine', v, clock') = after
    BY <2>6 DEF LevelOf
  <2>8. after <= ValueAt(fade, clock')
    <3> HIDE DEF fade, applied, at
    <3> QED  BY <2>2, <2>4, <2>5, RestoredNotAboveItsFade
  <2>9. ~NoWindow(fade) => after <= applied
    <3> HIDE DEF fade, applied, at
    <3> QED  BY <2>2, <2>4, RestoredNotBrighter
  <2>10. after \in Int /\ ValueAt(fade, clock') \in Int /\ applied \in Int
    <3> HIDE DEF fade, applied, at
    <3>1. Restored(fade, applied, at, clock') \in Fade
      BY <2>2, <2>4, RestoredInRange
    <3> QED  BY <2>2, <2>4, <3>1, ValueInRange, LevelAssumption DEF Level
  <2> HIDE DEF fade, applied, at, after
  <2>11. ~Brighter(v, ValueAt(fade, clock')) /\ (~NoWindow(fade) => ~Brighter(v, applied))
    BY <2>7, <2>8, <2>9, <2>10 DEF Brighter
  <2> QED  BY <2>11 DEF fade, applied
<1>2. TypeOK /\ [Next]_vars => [\A v \in Values : Dark(v)]_vars
  BY <1>1
<1> QED  BY <1>2, TypeCorrect, PTL DEF Spec, RestartNotBrighter

(* A fade that one of this player's own steps begins does not jump.        *)
THEOREM FadesNeverJump == Spec => FadesBeginAtTheLevel
<1>1. ASSUME TypeOK, [Next]_vars, NEW v \in Values, FadeBegins(v)
      PROVE  LevelOf(engine', v, clock) = LevelOf(engine, v, clock)
  <2>1. clock \in Nat /\ engine \in EngineType /\ \A w \in Values : engine.value[w] \in Fade
    BY <1>1 DEF TypeOK, EngineType, Instants
  <2>2. ASSUME NEW target \in Targets, NEW duration \in Durations, NEW w \in Values,
               Command(w, target, duration)
        PROVE  LevelOf(engine', v, clock) = LevelOf(engine, v, clock)
    <3> DEFINE fade == FadeTo(engine.value[w], target, duration, clock)
    <3>1. engine'.value = [engine.value EXCEPT ![w] = fade]
      BY <2>1, <2>2 DEF Command, Change, Bumped, EngineType
    <3>2. v = w /\ engine'.value[v] = fade /\ Fading(fade)
      <4> HIDE DEF fade
      <4> QED  BY <1>1, <2>1, <3>1 DEF FadeBegins, EngineType
    <3> QED  BY <2>1, <3>2, FadesContinue, SettingAssumption DEF LevelOf
  <2>3. ASSUME NEW target \in Targets, NEW window \in Windows, ScheduleGain(target, window)
        PROVE  LevelOf(engine', v, clock) = LevelOf(engine, v, clock)
    <3> DEFINE fade == FadeBetween(engine.value["gain"], target, window[1], window[2], clock)
    <3>1. engine'.value = [engine.value EXCEPT !["gain"] = fade]
      BY <2>1, <2>3 DEF ScheduleGain, Change, Bumped, EngineType
    <3>2. v = "gain" /\ engine'.value[v] = fade /\ Fading(fade)
      <4> HIDE DEF fade
      <4> QED  BY <1>1, <2>1, <3>1 DEF FadeBegins, EngineType
    <3>3. window[1] \in Nat /\ window[2] \in Nat /\ target \in Level
      BY SettingAssumption
    <3> QED  BY <2>1, <3>2, <3>3, FadesContinue DEF LevelOf
  <2>4. \/ \E w \in Values, target \in Targets, duration \in Durations : Command(w, target, duration)
        \/ \E target \in Targets, window \in Windows : ScheduleGain(target, window)
    <3>1. phase = "running" /\ phase' = "running" /\ left'.peers = left.peers
          /\ engine'.value # engine.value
      BY <1>1 DEF FadeBegins
    <3>2. ~(engine' = engine)
      BY <3>1
    <3>3. ASSUME NEW closed \in BOOLEAN, NEW revision \in GateRevisions, GateWritten(closed, revision)
          PROVE  FALSE
      <4> DEFINE gate == SetGate(closed, revision)
      <4>1. engine' = Bumped([engine EXCEPT !.gate = gate])
        BY <3>3 DEF GateWritten
      <4> HIDE DEF gate
      <4> QED  BY <2>1, <3>1, <4>1 DEF Bumped, EngineType
    <3>4. ASSUME NEW peer \in PeerStates, NEW adopts \in BOOLEAN, AdoptState(peer, adopts)
          PROVE  FALSE
      <4>1. left' = [left EXCEPT !["peers"] = @ - 1] /\ left \in [Bounded -> Nat]
        BY <1>1, <3>4 DEF AdoptState, Spend, TypeOK
      <4>2. left'["peers"] = left["peers"] - 1 /\ left["peers"] \in Nat
        BY <4>1 DEF Bounded
      <4> QED  BY <3>1, <4>2
    <3>5. ~Frame
      <4> DEFINE levels == [w \in Values |-> LevelOf(engine, w, clock)]
      <4>1. [engine EXCEPT !.applied = levels].value = engine.value
        BY <2>1 DEF EngineType
      <4> QED  BY <3>1, <4>1 DEF Frame
    <3> QED  BY <1>1, <3>1, <3>2, <3>3, <3>4, <3>5
             DEF Next, vars, TimePasses, Publish, FlushIfDirty, FlushStep, SkipFlush, BeginFlush, Rotate,
                 RotationFails, WriteOnce, WriteLast, WriteFails, StopRequested, Teardown, Exit, Crash, Dies,
                 CorruptPrimary, CorruptBackup, Restart, RestartTrusted, RestartFromBackup, RestartUnreadable,
                 RestartFirst, Restarts
  <2> QED  BY <2>2, <2>3, <2>4
<1>2. TypeOK /\ [Next]_vars
        => [\A v \in Values : FadeBegins(v) => LevelOf(engine', v, clock) = LevelOf(engine, v, clock)]_vars
  BY <1>1
<1> QED  BY <1>2, TypeCorrect, PTL DEF Spec, FadesBeginAtTheLevel

-----------------------------------------------------------------------------
(* The flushes of the two threads.  A writer holds a capture at least as   *)
(* new as whatever is on disk, so a revision that was flushed stays on     *)
(* disk; and what has been published is always about to be written, being  *)
(* written, or written, unless the last write failed.                      *)
Writing(thread) == flush[thread].at \in {"rotate", "write"}

OneWriter == \A s, t \in Threads : Writing(s) /\ Writing(t) => s = t

WriterIsAhead ==
  \A thread \in Threads :
    Writing(thread) =>
      LET record == flush[thread].record
      IN  /\ flushed < record.engine.revision
          /\ record.engine.revision <= engine.revision
          /\ record.engine.revision = engine.revision => record.engine.stamp = engine.stamp

MarksInOrder == flushed <= engine.revision /\ published <= engine.revision

DownIsQuiet ==
  ~Up => /\ worker = "publish"
         /\ flushed = Never
         /\ published = 0
         /\ \A thread \in Threads : flush[thread].at = "idle"

OnDisk == Valid(primary) /\ primary.engine.stamp = engine.stamp

FlushedIsOnDisk == Up /\ AlreadyFlushed /\ primary # Invalid => OnDisk

PublishedIsCovered ==
  Up /\ published = engine.revision /\ engine.stamp > 0 /\ dirty = FALSE =>
    \/ \E thread \in Threads : flush[thread].at = "begin"
    \/ \E thread \in Threads : Writing(thread) /\ flush[thread].record.engine.stamp = engine.stamp
    \/ /\ \A thread \in Threads : ~Writing(thread)
       /\ history.failed = TRUE \/ primary = Invalid \/ OnDisk

FlushInv ==
  /\ OneWriter
  /\ WriterIsAhead
  /\ MarksInOrder
  /\ DownIsQuiet
  /\ FlushedIsOnDisk
  /\ PublishedIsCovered

LEMMA InitFlushInv == Init => FlushInv
<1> SUFFICES ASSUME Init PROVE FlushInv
  OBVIOUS
<1>1. \A thread \in Threads : flush[thread].at = "idle"
  BY DEF Init, NotFlushing
<1>2. engine.revision = 0 /\ engine.stamp = 0 /\ flushed = -1 /\ published = 0 /\ Up
  BY DEF Init, FreshEngine, Never, Up
<1> QED  BY <1>1, <1>2 DEF FlushInv, OneWriter, WriterIsAhead, MarksInOrder, DownIsQuiet, FlushedIsOnDisk,
                            PublishedIsCovered, Writing, AlreadyFlushed

(* The numbers that the steps below compare. *)
LEMMA Numbers ==
  ASSUME TypedState
  PROVE  /\ engine.revision \in Nat /\ engine.stamp \in Nat /\ published \in Nat /\ flushed \in Int
         /\ \A thread \in Threads :
              Writing(thread) => /\ flush[thread].record \in RecordType
                                 /\ flush[thread].record.engine.revision \in Nat
                                 /\ flush[thread].record.engine.stamp \in Nat
<1>1. \A thread \in Threads : Writing(thread) => flush[thread].record \in RecordType
  BY DEF TypedState, WritersHaveRecords, Writing
<1> QED  BY <1>1 DEF TypedState, TypeOK, EngineType, RecordType, Never

(* A step that changes neither files nor marks, and gives a changed engine *)
(* a greater revision.                                                     *)
LEMMA EngineStepFlushInv ==
  ASSUME TypedState, TypedState', FlushInv, Up,
         UNCHANGED <<files, phase, published, flushed>>, history'.failed = history.failed,
         \/ flush' = flush
         \/ ~Writing("web") /\ flush' = [flush EXCEPT !["web"].at = "begin"],
         \/ engine'.revision > engine.revision
         \/ /\ engine'.revision = engine.revision /\ engine'.stamp = engine.stamp
            /\ dirty' = FALSE => dirty = FALSE
  PROVE  FlushInv'
<1>1. \A thread \in Threads :
        /\ Writing(thread)' <=> Writing(thread)
        /\ Writing(thread) => flush'[thread] = flush[thread]
        /\ flush[thread].at = "begin" => flush'[thread].at = "begin"
  BY DEF Writing, Threads, TypedState, TypeOK, FlushType
<1>2. Up'
  BY DEF Up
<1>3. primary' = primary
  BY DEF files
<1>4. OneWriter'
  BY <1>1 DEF FlushInv, OneWriter
<1>5. WriterIsAhead'
  <2> SUFFICES ASSUME NEW thread \in Threads, Writing(thread)'
               PROVE  LET record == flush'[thread].record
                      IN  /\ flushed' < record.engine.revision
                          /\ record.engine.revision <= engine'.revision
                          /\ record.engine.revision = engine'.revision => record.engine.stamp = engine'.stamp
    BY DEF WriterIsAhead
  <2>1. flush'[thread] = flush[thread] /\ Writing(thread)
    BY <1>1
  <2>2. LET record == flush[thread].record
        IN  /\ flushed < record.engine.revision
            /\ record.engine.revision <= engine.revision
            /\ record.engine.revision = engine.revision => record.engine.stamp = engine.stamp
    BY <2>1 DEF FlushInv, WriterIsAhead
  <2>3. engine'.revision \in Nat
    BY DEF TypedState, TypeOK, EngineType
  <2> QED  BY <2>1, <2>2, <2>3, Numbers
<1>6. MarksInOrder' /\ DownIsQuiet'
  <2>1. engine'.revision \in Nat
    BY DEF TypedState, TypeOK, EngineType
  <2> QED  BY <1>2, <2>1, Numbers DEF FlushInv, MarksInOrder, DownIsQuiet
<1>7. CASE engine'.revision > engine.revision
  <2>1. published' # engine'.revision /\ flushed' # engine'.revision
    <3>1. engine'.revision \in Nat
      BY DEF TypedState, TypeOK, EngineType
    <3> QED  BY <1>7, <3>1, Numbers DEF FlushInv, MarksInOrder
  <2>2. FlushedIsOnDisk' /\ PublishedIsCovered'
    BY <2>1 DEF FlushedIsOnDisk, AlreadyFlushed, PublishedIsCovered
  <2> QED  BY <1>4, <1>5, <1>6, <2>2 DEF FlushInv
<1>8. CASE /\ engine'.revision = engine.revision /\ engine'.stamp = engine.stamp
           /\ dirty' = FALSE => dirty = FALSE
  <2>1. OnDisk' <=> OnDisk
    BY <1>3, <1>8 DEF OnDisk, Valid
  <2>2. FlushedIsOnDisk'
    BY <1>3, <1>8, <2>1 DEF FlushInv, FlushedIsOnDisk, AlreadyFlushed, Up
  <2>3. PublishedIsCovered'
    <3> SUFFICES ASSUME published' = engine'.revision, engine'.stamp > 0, dirty' = FALSE
                 PROVE  \/ \E thread \in Threads : flush'[thread].at = "begin"
                        \/ \E thread \in Threads :
                             Writing(thread)' /\ flush'[thread].record.engine.stamp = engine'.stamp
                        \/ /\ \A thread \in Threads : ~Writing(thread)'
                           /\ history'.failed = TRUE \/ primary' = Invalid \/ OnDisk'
      BY DEF PublishedIsCovered
    <3>1. \/ \E thread \in Threads : flush[thread].at = "begin"
          \/ \E thread \in Threads : Writing(thread) /\ flush[thread].record.engine.stamp = engine.stamp
          \/ /\ \A thread \in Threads : ~Writing(thread)
             /\ history.failed = TRUE \/ primary = Invalid \/ OnDisk
      BY <1>8 DEF FlushInv, PublishedIsCovered
    <3> QED  BY <1>1, <1>3, <1>8, <2>1, <3>1
  <2> QED  BY <1>4, <1>5, <1>6, <2>2, <2>3 DEF FlushInv
<1> QED  BY <1>7, <1>8

LEMMA EngineFlushInv ==
  ASSUME TypedState, TypedState', FlushInv,
         \/ Frame
         \/ \E v \in Values, target \in Targets, duration \in Durations : Command(v, target, duration)
         \/ \E target \in Targets, window \in Windows : ScheduleGain(target, window)
         \/ \E closed \in BOOLEAN, revision \in GateRevisions : GateWritten(closed, revision)
         \/ \E peer \in PeerStates, adopts \in BOOLEAN : AdoptState(peer, adopts)
  PROVE  FlushInv'
<1>1. engine \in EngineType /\ engine' \in EngineType /\ engine.revision + 1 > engine.revision
  BY DEF TypedState, TypeOK, EngineType
<1>2. CASE Frame
  <2>1. engine'.revision = engine.revision /\ engine'.stamp = engine.stamp
    <3> DEFINE levels == [v \in Values |-> LevelOf(engine, v, clock)]
    <3>1. engine' = [engine EXCEPT !.applied = levels]
      BY <1>2 DEF Frame
    <3> HIDE DEF levels
    <3> QED  BY <1>1, <3>1 DEF EngineType
  <2> QED  BY <1>2, <2>1, EngineStepFlushInv DEF Frame, memory
<1>3. ASSUME NEW v \in Values, NEW target \in Targets, NEW duration \in Durations, Command(v, target, duration)
      PROVE  FlushInv'
  <2> DEFINE fade == FadeTo(engine.value[v], target, duration, clock)
  <2>1. engine' = Bumped([engine EXCEPT !.value[v] = fade])
    BY <1>3 DEF Command, Change
  <2>2. engine'.revision = engine.revision + 1
    <3> HIDE DEF fade
    <3> QED  BY <1>1, <2>1 DEF Bumped, EngineType
  <2>3. history'.failed = history.failed /\ Up
    BY <1>3 DEF Command, Change, Up, TypedState, TypeOK, HistoryType
  <2> QED  BY <1>1, <1>3, <2>2, <2>3, EngineStepFlushInv DEF Command, memory
<1>4. ASSUME NEW target \in Targets, NEW window \in Windows, ScheduleGain(target, window)
      PROVE  FlushInv'
  <2> DEFINE fade == FadeBetween(engine.value["gain"], target, window[1], window[2], clock)
  <2>1. engine' = Bumped([engine EXCEPT !.value["gain"] = fade])
    BY <1>4 DEF ScheduleGain, Change
  <2>2. engine'.revision = engine.revision + 1
    <3> HIDE DEF fade
    <3> QED  BY <1>1, <2>1 DEF Bumped, EngineType
  <2>3. history'.failed = history.failed /\ Up
    BY <1>4 DEF ScheduleGain, Change, Up, TypedState, TypeOK, HistoryType
  <2> QED  BY <1>1, <1>4, <2>2, <2>3, EngineStepFlushInv DEF ScheduleGain, memory
<1>5. ASSUME NEW closed \in BOOLEAN, NEW revision \in GateRevisions, GateWritten(closed, revision)
      PROVE  FlushInv'
  <2> DEFINE gate == SetGate(closed, revision)
  <2>1. engine' = Bumped([engine EXCEPT !.gate = gate])
    BY <1>5 DEF GateWritten
  <2>2. engine'.revision = engine.revision + 1
    <3> HIDE DEF gate
    <3> QED  BY <1>1, <2>1 DEF Bumped, EngineType
  <2>3. history'.failed = history.failed /\ Up
    BY <1>5 DEF GateWritten, Up, TypedState, TypeOK, HistoryType
  <2>4. ~Writing("web") /\ flush' = [flush EXCEPT !["web"].at = "begin"]
    BY <1>5 DEF GateWritten, Writing
  <2> QED  BY <1>1, <1>5, <2>2, <2>3, <2>4, EngineStepFlushInv DEF GateWritten, memory
<1>6. ASSUME NEW peer \in PeerStates, NEW adopts \in BOOLEAN, AdoptState(peer, adopts)
      PROVE  FlushInv'
  <2> DEFINE gated == WithPeerGate(peer)
  <2>1. history'.failed = history.failed /\ Up
    BY <1>6 DEF AdoptState, Change, TypedState, TypeOK, HistoryType
  <2>2. UNCHANGED <<files, phase, published, flushed, flush>>
    BY <1>6 DEF AdoptState
  <2>3. CASE ClosesGate(peer)
    <3> DEFINE gate == [closed |-> TRUE, revision |-> Capped(peer.gateRevision), stamp |-> NextStamp]
    <3>1. gated = [engine EXCEPT !.gate = gate, !.revision = engine.revision + 1, !.stamp = NextStamp]
      BY <1>1, <2>3 DEF WithPeerGate, EngineType
    <3>2. gated.revision = engine.revision + 1
      <4> HIDE DEF gate, gated
      <4> QED  BY <1>1, <3>1 DEF EngineType
    <3>3. engine' = gated \/ engine' = WithPeerValues(peer, gated)
      BY <1>6 DEF AdoptState, Change
    <3>4. WithPeerValues(peer, gated).revision = gated.revision + 1
      <4>1. gated = [engine EXCEPT !.gate = gate, !.revision = engine.revision + 1, !.stamp = NextStamp]
        BY <3>1
      <4> HIDE DEF gate, gated
      <4> QED  BY <1>1, <4>1 DEF WithPeerValues, EngineType
    <3>5. engine'.revision > engine.revision
      <4> HIDE DEF gated
      <4> QED  BY <1>1, <3>2, <3>3, <3>4 DEF EngineType
    <3> QED  BY <2>1, <2>2, <3>5, EngineStepFlushInv
  <2>4. CASE ~ClosesGate(peer) /\ adopts
    <3>1. gated = engine
      BY <2>4 DEF WithPeerGate
    <3>2. engine' = WithPeerValues(peer, engine)
      BY <1>6, <2>4, <3>1 DEF AdoptState, Change
    <3>3. engine'.revision = engine.revision + 1
      BY <1>1, <3>2 DEF WithPeerValues, EngineType
    <3> QED  BY <1>1, <2>1, <2>2, <3>3, EngineStepFlushInv
  <2>5. CASE ~ClosesGate(peer) /\ ~adopts
    <3>1. engine' = engine
      BY <1>6, <2>5 DEF AdoptState, Change, WithPeerGate
    <3>2. dirty' = (dirty \/ ClosesGate(peer))
      BY <1>6 DEF AdoptState
    <3>3. dirty' = FALSE => dirty = FALSE
      <4>1. dirty \in BOOLEAN
        BY DEF TypedState, TypeOK
      <4> QED  BY <2>5, <3>2, <4>1, Zenon
    <3> QED  BY <2>1, <2>2, <3>1, <3>3, EngineStepFlushInv
  <2> QED  BY <2>3, <2>4, <2>5
<1> QED  BY <1>2, <1>3, <1>4, <1>5, <1>6

(* A step after which some thread is about to flush. *)
LEMMA ToBeFlushed ==
  ASSUME TypedState, FlushInv, Up, NEW thread \in Threads,
         flush' = [flush EXCEPT ![thread].at = "begin"],
         UNCHANGED <<engine, files, phase, published, flushed>>
  PROVE  FlushInv'
<1>1. \A t \in Threads :
        /\ Writing(t)' => t # thread /\ Writing(t) /\ flush'[t] = flush[t]
        /\ flush'[thread].at = "begin"
  BY DEF Writing, TypedState, TypeOK, FlushType
<1>2. OneWriter'
  BY <1>1 DEF FlushInv, OneWriter
<1>3. WriterIsAhead'
  BY <1>1 DEF FlushInv, WriterIsAhead
<1>4. MarksInOrder' /\ DownIsQuiet' /\ FlushedIsOnDisk'
  BY DEF FlushInv, MarksInOrder, DownIsQuiet, FlushedIsOnDisk, AlreadyFlushed, OnDisk, Valid, Up, files
<1>5. PublishedIsCovered'
  BY <1>1 DEF PublishedIsCovered
<1> QED  BY <1>2, <1>3, <1>4, <1>5 DEF FlushInv

LEMMA WorkerPassFlushInv ==
  ASSUME TypedState, FlushInv, Publish \/ FlushIfDirty \/ Teardown
  PROVE  FlushInv'
<1>1. CASE Publish
  <2>1. UNCHANGED <<engine, files, phase, flushed, flush, history>> /\ published' = engine.revision
    BY <1>1 DEF Publish
  <2>2. OneWriter' /\ WriterIsAhead' /\ FlushedIsOnDisk'
    BY <2>1 DEF FlushInv, OneWriter, WriterIsAhead, Writing, FlushedIsOnDisk, AlreadyFlushed, OnDisk, Valid,
                Up, files
  <2>3. MarksInOrder' /\ DownIsQuiet'
    BY <1>1, <2>1, Numbers DEF FlushInv, MarksInOrder, DownIsQuiet, Publish, Up
  <2>4. dirty' = FALSE => dirty = FALSE /\ published = engine.revision
    <3>1. dirty' = (dirty \/ engine.revision # published) /\ dirty \in BOOLEAN
      BY <1>1 DEF Publish, Dirtied, TypedState, TypeOK
    <3> QED  BY <3>1, Zenon
  <2>5. PublishedIsCovered'
    BY <2>1, <2>4 DEF FlushInv, PublishedIsCovered, Writing, OnDisk, Valid, Up, files
  <2> QED  BY <2>2, <2>3, <2>5 DEF FlushInv
<1>2. CASE FlushIfDirty /\ dirty
  <2>1. Up
    BY <1>2 DEF FlushIfDirty, FlushInv, DownIsQuiet
  <2> QED  BY <1>2, <2>1, ToBeFlushed DEF FlushIfDirty, Threads
<1>3. CASE FlushIfDirty /\ ~dirty
  <2>0. Up
    BY <1>3 DEF FlushIfDirty, FlushInv, DownIsQuiet
  <2>1. UNCHANGED <<engine, files, phase, published, flushed, flush, history>>
    BY <1>3 DEF FlushIfDirty
  <2>2. dirty = FALSE
    <3>1. dirty \in BOOLEAN
      BY DEF TypedState, TypeOK
    <3> QED  BY <1>3, <3>1, Zenon
  <2>3. OneWriter' /\ WriterIsAhead' /\ FlushedIsOnDisk' /\ MarksInOrder' /\ DownIsQuiet'
    BY <2>0, <2>1 DEF FlushInv, OneWriter, WriterIsAhead, Writing, FlushedIsOnDisk, AlreadyFlushed, OnDisk,
                Valid, Up, files, MarksInOrder, DownIsQuiet
  <2>4. PublishedIsCovered'
    BY <2>1, <2>2 DEF FlushInv, PublishedIsCovered, Writing, OnDisk, Valid, Up, files
  <2> QED  BY <2>3, <2>4 DEF FlushInv
<1>4. CASE Teardown
  BY <1>4, ToBeFlushed DEF Teardown, Threads, memory, Up
<1> QED  BY <1>1, <1>2, <1>3, <1>4

(* A thread that is no longer writing and has changed no mark. *)
LEMMA WriterStops ==
  ASSUME TypedState, FlushInv, Up, NEW thread \in Threads, flush' = [flush EXCEPT ![thread] = NotFlushing],
         UNCHANGED <<engine, files, phase, published, flushed>>
  PROVE  OneWriter' /\ WriterIsAhead' /\ MarksInOrder' /\ DownIsQuiet' /\ FlushedIsOnDisk'
<1>1. \A t \in Threads : Writing(t)' => Writing(t) /\ flush'[t] = flush[t]
  BY DEF Writing, TypedState, TypeOK, NotFlushing
<1> QED  BY <1>1 DEF FlushInv, OneWriter, WriterIsAhead, MarksInOrder, DownIsQuiet, FlushedIsOnDisk,
                     AlreadyFlushed, OnDisk, Valid, Up, files

LEMMA FlushStepFlushInv ==
  ASSUME TypedState, TypedState', FlushInv, NEW thread \in Threads, FlushStep(thread)
  PROVE  FlushInv'
<1>1. Up
  <2>1. flush[thread].at # "idle"
    BY DEF FlushStep, SkipFlush, BeginFlush, Rotate, RotationFails, WriteOnce, WriteLast, WriteFails
  <2> QED  BY <2>1 DEF FlushInv, DownIsQuiet
<1>2. \A t \in Threads : t # thread => flush'[t] = flush[t]
  BY DEF FlushStep, SkipFlush, BeginFlush, Rotate, RotationFails, WriteOnce, WriteLast, WriteFails, Return,
         TypedState, TypeOK
<1>3. UNCHANGED <<engine, phase, dirty, published>> /\ Up'
  BY <1>1 DEF FlushStep, SkipFlush, BeginFlush, Rotate, RotationFails, WriteOnce, WriteLast, WriteFails,
             memory, Up
<1>4. CASE SkipFlush(thread)
  <2>1. /\ flush' = [flush EXCEPT ![thread] = NotFlushing]
        /\ flush'[thread] = NotFlushing
        /\ UNCHANGED <<files, flushed>>
    BY <1>4 DEF SkipFlush, Return, memory, TypedState, TypeOK
  <2>2. OneWriter' /\ WriterIsAhead' /\ MarksInOrder' /\ DownIsQuiet' /\ FlushedIsOnDisk'
    BY <1>1, <1>3, <2>1, WriterStops
  <2>3. \A t \in Threads : ~Writing(t)'
    <3>1. \A t \in Threads : ~Writing(t)
      BY <1>4 DEF SkipFlush, LockFree, Writing
    <3> QED  BY <1>2, <2>1, <3>1 DEF Writing, NotFlushing
  <2>4. primary' = Invalid \/ OnDisk'
    BY <1>1, <1>3, <1>4, <2>1 DEF SkipFlush, FlushInv, FlushedIsOnDisk, OnDisk, Valid, files
  <2>5. PublishedIsCovered'
    BY <2>3, <2>4 DEF PublishedIsCovered
  <2> QED  BY <2>2, <2>5 DEF FlushInv
<1>5. CASE BeginFlush(thread)
  <2>1. /\ flush'[thread] = [at |-> "rotate", record |-> Captured, again |-> FALSE]
        /\ UNCHANGED <<files, flushed, history>>
        /\ flushed # engine.revision
    BY <1>5 DEF BeginFlush, memory, TypedState, TypeOK, AlreadyFlushed
  <2>2. \A t \in Threads : Writing(t)' <=> t = thread
    <3>1. \A t \in Threads : ~Writing(t)
      BY <1>5 DEF BeginFlush, LockFree, Writing
    <3> QED  BY <1>2, <2>1, <3>1 DEF Writing
  <2>3. flush'[thread].record.engine = engine
    BY <2>1 DEF Captured
  <2>4. WriterIsAhead'
    BY <1>3, <2>1, <2>2, <2>3, Numbers DEF WriterIsAhead, FlushInv, MarksInOrder
  <2>5. PublishedIsCovered'
    BY <1>3, <2>2, <2>3 DEF PublishedIsCovered
  <2>6. OneWriter' /\ MarksInOrder' /\ DownIsQuiet'
    BY <1>3, <2>1, <2>2 DEF OneWriter, FlushInv, MarksInOrder, DownIsQuiet
  <2>7. FlushedIsOnDisk'
    BY <1>3, <2>1 DEF FlushedIsOnDisk, AlreadyFlushed
  <2> QED  BY <2>4, <2>5, <2>6, <2>7 DEF FlushInv
<1>6. CASE Rotate(thread) \/ RotationFails(thread) \/ WriteOnce(thread)
  <2>1. /\ Writing(thread)
        /\ Writing(thread)'
        /\ flush'[thread].record = flush[thread].record
        /\ UNCHANGED flushed
    BY <1>6 DEF Rotate, RotationFails, WriteOnce, Writing, memory, TypedState, TypeOK, FlushType
  <2>2. \A t \in Threads : Writing(t)' <=> t = thread
    <3>1. \A t \in Threads : Writing(t) <=> t = thread
      BY <2>1 DEF FlushInv, OneWriter
    <3> QED  BY <1>2, <2>1, <3>1 DEF Writing
  <2>3. WriterIsAhead'
    BY <1>3, <2>1, <2>2 DEF WriterIsAhead, FlushInv
  <2>4. flushed' # engine'.revision
    <3>1. /\ flushed < flush[thread].record.engine.revision
          /\ flush[thread].record.engine.revision <= engine.revision
      BY <2>1 DEF FlushInv, WriterIsAhead
    <3> QED  BY <1>3, <2>1, <3>1, Numbers
  <2>5. FlushedIsOnDisk'
    BY <2>4 DEF FlushedIsOnDisk, AlreadyFlushed
  <2>6. OneWriter' /\ MarksInOrder' /\ DownIsQuiet'
    BY <1>3, <2>1, <2>2 DEF OneWriter, FlushInv, MarksInOrder, DownIsQuiet
  <2>7. PublishedIsCovered'
    <3> SUFFICES ASSUME published = engine.revision, engine.stamp > 0, dirty = FALSE
                 PROVE  \/ \E t \in Threads : flush'[t].at = "begin"
                        \/ \E t \in Threads : Writing(t)' /\ flush'[t].record.engine.stamp = engine'.stamp
      BY <1>3 DEF PublishedIsCovered
    <3>1. \/ \E t \in Threads : flush[t].at = "begin"
          \/ \E t \in Threads : Writing(t) /\ flush[t].record.engine.stamp = engine.stamp
      BY <1>1, <2>1 DEF FlushInv, PublishedIsCovered
    <3>2. CASE \E t \in Threads : flush[t].at = "begin"
      BY <1>2, <2>1, <3>2 DEF Writing
    <3>3. CASE \E t \in Threads : Writing(t) /\ flush[t].record.engine.stamp = engine.stamp
      <4>1. flush[thread].record.engine.stamp = engine.stamp
        BY <2>1, <3>3 DEF FlushInv, OneWriter
      <4> QED  BY <1>3, <2>1, <4>1
    <3> QED  BY <3>1, <3>2, <3>3
  <2> QED  BY <2>3, <2>5, <2>6, <2>7 DEF FlushInv
<1>7. CASE WriteLast(thread)
  <2> DEFINE record == flush[thread].record
  <2>1. /\ Writing(thread)
        /\ flush'[thread] = NotFlushing
        /\ primary' = record
        /\ flushed' = record.engine.revision
    BY <1>7 DEF WriteLast, Return, Writing, TypedState, TypeOK
  <2>2. \A t \in Threads : ~Writing(t)'
    <3>1. \A t \in Threads : Writing(t) => t = thread
      BY <2>1 DEF FlushInv, OneWriter
    <3> QED  BY <1>2, <2>1, <3>1 DEF Writing, NotFlushing
  <2>3. /\ record.engine.revision <= engine.revision
        /\ record.engine.revision = engine.revision => record.engine.stamp = engine.stamp
    BY <2>1 DEF FlushInv, WriterIsAhead
  <2>4. record.engine.stamp = engine.stamp => OnDisk'
    <3>1. record \in RecordType
      BY <2>1, Numbers
    <3> QED  BY <1>3, <2>1, <3>1, FileAssumption DEF OnDisk, Valid
  <2>5. FlushedIsOnDisk'
    BY <1>3, <2>1, <2>3, <2>4 DEF FlushedIsOnDisk, AlreadyFlushed
  <2>6. OneWriter' /\ WriterIsAhead' /\ MarksInOrder' /\ DownIsQuiet'
    BY <1>3, <2>1, <2>2, <2>3 DEF OneWriter, WriterIsAhead, FlushInv, MarksInOrder, DownIsQuiet
  <2>7. PublishedIsCovered'
    <3> SUFFICES ASSUME published = engine.revision, engine.stamp > 0, dirty = FALSE
                 PROVE  \/ \E t \in Threads : flush'[t].at = "begin"
                        \/ OnDisk'
      BY <1>3, <2>2 DEF PublishedIsCovered
    <3>1. \/ \E t \in Threads : flush[t].at = "begin"
          \/ \E t \in Threads : Writing(t) /\ flush[t].record.engine.stamp = engine.stamp
      BY <1>1, <2>1 DEF FlushInv, PublishedIsCovered
    <3>2. CASE \E t \in Threads : flush[t].at = "begin"
      BY <1>2, <2>1, <3>2 DEF Writing
    <3>3. CASE \E t \in Threads : Writing(t) /\ flush[t].record.engine.stamp = engine.stamp
      <4>1. record.engine.stamp = engine.stamp
        BY <2>1, <3>3 DEF FlushInv, OneWriter
      <4> QED  BY <2>4, <4>1
    <3> QED  BY <3>1, <3>2, <3>3
  <2> QED  BY <2>5, <2>6, <2>7 DEF FlushInv
<1>8. CASE WriteFails(thread)
  <2>1. /\ flush' = [flush EXCEPT ![thread] = NotFlushing]
        /\ flush'[thread] = NotFlushing
        /\ Writing(thread)
        /\ UNCHANGED <<files, flushed>>
        /\ history'.failed = TRUE
    BY <1>8 DEF WriteFails, Return, Writing, memory, TypedState, TypeOK, HistoryType
  <2>2. OneWriter' /\ WriterIsAhead' /\ MarksInOrder' /\ DownIsQuiet' /\ FlushedIsOnDisk'
    BY <1>1, <1>3, <2>1, WriterStops
  <2>3. \A t \in Threads : ~Writing(t)'
    <3>1. \A t \in Threads : Writing(t) => t = thread
      BY <2>1 DEF FlushInv, OneWriter
    <3> QED  BY <1>2, <2>1, <3>1 DEF Writing, NotFlushing
  <2>4. PublishedIsCovered'
    BY <2>1, <2>3 DEF PublishedIsCovered
  <2> QED  BY <2>2, <2>4 DEF FlushInv
<1> QED  BY <1>4, <1>5, <1>6, <1>7, <1>8 DEF FlushStep

LEMMA EndFlushInv ==
  ASSUME TypedState, FlushInv, StopRequested \/ Exit \/ Crash
  PROVE  FlushInv'
<1>1. CASE StopRequested
  <2>1. UNCHANGED <<engine, files, dirty, published, flushed, flush, history>> /\ Up /\ Up'
    BY <1>1 DEF StopRequested, memory, Up
  <2> QED  BY <2>1 DEF FlushInv, OneWriter, WriterIsAhead, Writing, FlushedIsOnDisk, AlreadyFlushed, OnDisk,
                       Valid, files, MarksInOrder, DownIsQuiet, PublishedIsCovered
<1>2. CASE Exit \/ Crash
  <2>1. Dies /\ ~Up'
    BY <1>2 DEF Exit, Crash, Dies, Up
  <2>2. \A thread \in Threads : flush'[thread].at = "idle"
    BY <2>1 DEF Dies, NotFlushing
  <2>3. flushed' = -1 /\ published' = 0 /\ worker' = "publish" /\ engine' = engine
    BY <2>1 DEF Dies, Never
  <2> QED  BY <2>1, <2>2, <2>3, Numbers DEF FlushInv, OneWriter, WriterIsAhead, Writing, FlushedIsOnDisk,
              MarksInOrder, DownIsQuiet, PublishedIsCovered, Never
<1> QED  BY <1>1, <1>2

LEMMA CorruptionFlushInv ==
  ASSUME TypedState, FlushInv, CorruptPrimary \/ CorruptBackup
  PROVE  FlushInv'
<1>1. /\ UNCHANGED <<engine, phase, worker, dirty, published, flushed, flush>>
      /\ primary' = primary \/ primary' = Invalid
  BY DEF CorruptPrimary, CorruptBackup, memory
<1>2. history'.failed = history.failed
  BY DEF CorruptPrimary, CorruptBackup, Corrupted, TypedState, TypeOK, HistoryType
<1>3. OneWriter' /\ WriterIsAhead' /\ MarksInOrder' /\ DownIsQuiet'
  BY <1>1 DEF FlushInv, OneWriter, WriterIsAhead, Writing, MarksInOrder, DownIsQuiet, Up
<1>4. OnDisk => primary' = Invalid \/ OnDisk'
  BY <1>1 DEF OnDisk, Valid
<1>5. FlushedIsOnDisk'
  BY <1>1, <1>4 DEF FlushInv, FlushedIsOnDisk, AlreadyFlushed, Up
<1>6. PublishedIsCovered'
  BY <1>1, <1>2, <1>4 DEF FlushInv, PublishedIsCovered, Writing, Up
<1> QED  BY <1>3, <1>5, <1>6 DEF FlushInv

LEMMA RestartFlushInv ==
  ASSUME TypedState, TypedState', FlushInv, NEW now \in Instants, Restart(now)
  PROVE  FlushInv'
<1>1. /\ Restarts(now)
      /\ ~Up
      /\ Up'
  BY DEF Restart, RestartTrusted, RestartFromBackup, RestartUnreadable, RestartFirst, Restarts, Up
<1>2. /\ flushed' = -1
      /\ published' = 0
      /\ primary' = primary
      /\ \A thread \in Threads : flush'[thread].at = "idle"
  BY <1>1 DEF Restarts, FlushInv, DownIsQuiet, files, Never
<1>3. engine'.revision \in Nat
  BY DEF TypedState, TypeOK, EngineType
<1>4. OneWriter' /\ WriterIsAhead' /\ MarksInOrder' /\ DownIsQuiet' /\ FlushedIsOnDisk'
  BY <1>1, <1>2, <1>3 DEF OneWriter, WriterIsAhead, Writing, MarksInOrder, DownIsQuiet, FlushedIsOnDisk,
              AlreadyFlushed
<1>5. PublishedIsCovered'
  <2>1. CASE RestartTrusted(now)
    <3>1. primary \in RecordType
      BY <2>1 DEF RestartTrusted, Valid, TypedState, TypeOK, FileType
    <3>2. engine'.stamp = primary.engine.stamp
      <4> DEFINE values == [v \in Values |-> Restored(primary.engine.value[v], primary.engine.applied[v],
                                                      primary.persistedAt, now)]
                 darker == [v \in Values |-> Darker(primary.engine.applied[v], primary.engine.value[v].target)]
                 settled == [v \in Values |-> Settled(darker[v])]
      <4>1. CASE KeyPlausible(primary.engine)
        <5>1. engine' = [primary.engine EXCEPT !.value = values]
          BY <2>1, <4>1 DEF RestartTrusted, RestoredEngine
        <5> HIDE DEF values
        <5> QED  BY <3>1, <5>1 DEF RecordType, EngineType
      <4>2. CASE ~KeyPlausible(primary.engine)
        <5>1. engine' = [FreshEngine EXCEPT !.stamp = primary.engine.stamp, !.gate = primary.engine.gate,
                                            !.applied = darker, !.value = settled]
          BY <2>1, <4>2 DEF RestartTrusted, RestoredEngine
        <5> HIDE DEF darker, settled
        <5> QED  BY <5>1, FreshEngineTyped DEF EngineType
      <4> QED  BY <4>1, <4>2
    <3>3. OnDisk'
      BY <1>2, <2>1, <3>2 DEF OnDisk, Valid, RestartTrusted
    <3> QED  BY <1>2, <3>3 DEF PublishedIsCovered, Writing
  <2>2. CASE RestartFromBackup(now) \/ RestartUnreadable(now)
    <3>1. PICK gate \in GateType : engine' = SettledEngine(gate, now)
      <4>1. Valid(backup) => backup.engine.gate \in GateType
        BY DEF Valid, TypedState, TypeOK, FileType, RecordType, EngineType
      <4> QED  BY <2>2, <4>1, FreshEngineTyped DEF RestartFromBackup, RestartUnreadable, Change
    <3>2. engine'.revision = 1
      <4> DEFINE values == [v \in Values |-> Settled(IF v = "ceiling" THEN SafeCeiling ELSE Full)]
                 levels == [v \in Values |-> IF v = "ceiling" THEN SafeCeiling ELSE Full]
      <4>1. engine' = [FreshEngine EXCEPT !.value = values, !.applied = levels, !.gate = gate, !.revision = 1,
                                          !.changedAt = Later(now, 1), !.stamp = NextStamp]
        BY <3>1 DEF SettledEngine
      <4> HIDE DEF values, levels
      <4> QED  BY <4>1, FreshEngineTyped DEF EngineType
    <3> QED  BY <1>2, <3>2 DEF PublishedIsCovered
  <2>3. CASE RestartFirst(now)
    <3>1. engine'.stamp = 0
      BY <2>3 DEF RestartFirst, FreshEngine
    <3> QED  BY <3>1 DEF PublishedIsCovered
  <2> QED  BY <2>1, <2>2, <2>3 DEF Restart
<1> QED  BY <1>4, <1>5 DEF FlushInv

LEMMA NextFlushInv ==
  ASSUME TypedState, FlushInv, [Next]_vars
  PROVE  FlushInv'
<1>1. TypedState'
  BY NextTyped
<1>2. CASE TimePasses \/ UNCHANGED vars
  <2>1. UNCHANGED <<engine, files, phase, worker, dirty, published, flushed, flush, history>>
    BY <1>2 DEF TimePasses, vars, memory
  <2> QED  BY <2>1 DEF FlushInv, OneWriter, WriterIsAhead, Writing, FlushedIsOnDisk, AlreadyFlushed, OnDisk,
                       Valid, files, MarksInOrder, DownIsQuiet, PublishedIsCovered, Up
<1>3. CASE \E thread \in Threads : FlushStep(thread)
  BY <1>1, <1>3, FlushStepFlushInv
<1>4. CASE \E now \in Instants : Restart(now)
  BY <1>1, <1>4, RestartFlushInv
<1> QED  BY <1>1, <1>2, <1>3, <1>4, EngineFlushInv, WorkerPassFlushInv, EndFlushInv, CorruptionFlushInv DEF Next

LEMMA FlushInvariant == Spec => [](TypedState /\ FlushInv)
<1>1. Init => TypedState /\ FlushInv
  BY InitTyped, InitFlushInv
<1>2. (TypedState /\ FlushInv) /\ [Next]_vars => (TypedState /\ FlushInv)'
  BY NextTyped, NextFlushInv
<1> QED  BY <1>1, <1>2, PTL DEF Spec

(* A flush that is skipped because the revision was flushed before leaves  *)
(* the engine's last change on disk: neither thread has written an older   *)
(* capture over it.                                                        *)
THEOREM SkipCorrect == Spec => []SkippedWriteIsOnDisk
<1>1. TypedState /\ FlushInv => SkippedWriteIsOnDisk
  BY DEF FlushInv, FlushedIsOnDisk, SkippedWriteIsOnDisk, OnDisk
<1> QED  BY <1>1, FlushInvariant, PTL

(* A published change that nobody has yet to write is on disk, unless the  *)
(* last write failed or the file was corrupted.                            *)
THEOREM PublishCorrect == Spec => []PublishedChangeIsWritten
<1>1. TypedState /\ FlushInv => PublishedChangeIsWritten
  <2> SUFFICES ASSUME TypedState, FlushInv, NothingPending
               PROVE  OnDisk
    BY DEF PublishedChangeIsWritten, OnDisk
  <2>1. Up /\ published = engine.revision /\ engine.stamp > 0 /\ primary # Invalid
    BY DEF NothingPending
  <2>2. dirty = FALSE /\ history.failed # TRUE
    <3>1. dirty \in BOOLEAN /\ history.failed \in BOOLEAN
      BY DEF TypedState, TypeOK, HistoryType
    <3> QED  BY <3>1, Zenon DEF NothingPending
  <2>3. \A thread \in Threads : flush[thread].at # "begin" /\ ~Writing(thread)
    BY DEF NothingPending, Writing
  <2> QED  BY <2>1, <2>2, <2>3 DEF FlushInv, PublishedIsCovered
<1> QED  BY <1>1, FlushInvariant, PTL

-----------------------------------------------------------------------------
(* The gate over a restart.  Once a gate write has been answered, both     *)
(* files carry that gate or a later one, so that one fault leaves a copy;  *)
(* after the fault, the copy that a restart would read does.  That both    *)
(* carry it rests on stored: while no write has failed, it is the gate of  *)
(* the newest file, and two gates of one closing and revision are one      *)
(* write of the gate, although at the largest revision writes repeat it.   *)
Clean == left.faults > 0

OneFault == \A budget \in Budgets : budget.faults <= 1

SameKey(g, h) == g.closed = h.closed /\ g.revision = h.revision

Newest == IF Valid(primary) THEN primary ELSE backup

(* The stamp of the gate that a restart would read. *)
Kept == IF Valid(Newest) THEN Newest.engine.gate.stamp ELSE 0

FaultsCounted ==
  /\ left.faults <= 1
  /\ Clean => primary # Invalid /\ backup # Invalid /\ history.lost = FALSE

InOrder(held) == held.gate.stamp <= held.stamp /\ held.stamp <= history.changes

StampsAreCounted ==
  /\ InOrder(engine)
  /\ Valid(primary) => InOrder(primary.engine)
  /\ Valid(backup) => InOrder(backup.engine)
  /\ \A thread \in Threads : Writing(thread) => InOrder(flush[thread].record.engine)

(* One change leaves one gate. *)
SameChange ==
  Up => /\ Valid(primary) /\ primary.engine.stamp = engine.stamp => primary.engine.gate = engine.gate
        /\ \A thread \in Threads :
             Writing(thread) /\ flush[thread].record.engine.stamp = engine.stamp
               => flush[thread].record.engine.gate = engine.gate

AnsweringIsHeld ==
  /\ flush["web"].at # "idle" => history.answering <= engine.gate.stamp
  /\ Writing("web") => history.answering <= flush["web"].record.engine.gate.stamp

PromiseIsHeld ==
  history.lost = FALSE =>
    /\ Up => history.promised <= engine.gate.stamp
    /\ \A thread \in Threads :
         Writing(thread) => history.promised <= flush[thread].record.engine.gate.stamp
    /\ history.promised <= Kept
    /\ Up /\ AlreadyFlushed => engine.gate.stamp <= Kept

Carries(file) ==
  Valid(file) => /\ history.promised <= file.engine.gate.stamp
                 /\ Up /\ AlreadyFlushed => engine.gate.stamp <= file.engine.gate.stamp

BothCarry == Clean => Carries(primary) /\ Carries(backup)

(* A second write begins after the first is the newest file. *)
TwiceWritten ==
  Clean => \A thread \in Threads :
             /\ flush[thread].at = "write" => ~Valid(primary)
             /\ Writing(thread) /\ flush[thread].again = TRUE
                  => Valid(Newest) /\ Newest = flush[thread].record

WrittenOnce == \A thread \in Threads : Writing(thread) => flush[thread].again # TRUE

StoredIsNewest ==
  Clean /\ Up /\ WrittenOnce
    => IF Valid(Newest) THEN SameKey(stored, Newest.engine.gate) ELSE SameKey(stored, FreshGate)

(* An earlier gate of this process, or the gate itself. *)
Precedes(gate, now) ==
  /\ gate.revision <= now.revision
  /\ SameKey(gate, now) => gate.stamp = now.stamp

(* Once the web thread's write has come to its end. *)
Settles(gate, now) == gate.revision = MaxGateRevision => gate = now

WebIdle == flush["web"].at = "idle"

KeysTell ==
  Clean /\ Up =>
    /\ Valid(Newest) => /\ Precedes(Newest.engine.gate, engine.gate)
                        /\ WebIdle => Settles(Newest.engine.gate, engine.gate)
    /\ \A thread \in Threads : Writing(thread) =>
         LET gate == flush[thread].record.engine.gate
         IN  /\ Precedes(gate, engine.gate)
             /\ thread = "web" \/ WebIdle => Settles(gate, engine.gate)
             /\ Valid(Newest) /\ SameKey(Newest.engine.gate, gate) => Newest.engine.gate.stamp = gate.stamp

GateInv ==
  /\ FaultsCounted
  /\ StampsAreCounted
  /\ SameChange
  /\ AnsweringIsHeld
  /\ PromiseIsHeld
  /\ BothCarry
  /\ TwiceWritten
  /\ StoredIsNewest
  /\ KeysTell

LEMMA InitGateInv ==
  ASSUME OneFault, Init
  PROVE  GateInv
<1>1. /\ primary = Absent /\ backup = Absent /\ engine = FreshEngine
      /\ \A thread \in Threads : flush[thread].at = "idle"
      /\ left \in Budgets
      /\ history.changes = 0 /\ history.answering = 0 /\ history.promised = 0 /\ history.lost = FALSE
      /\ stored = [closed |-> FALSE, revision |-> 0]
  BY DEF Init, NotFlushing
<1>2. ~Valid(primary) /\ ~Valid(backup) /\ Kept = 0 /\ ~Valid(Newest)
  BY <1>1 DEF Valid, Kept, Newest
<1>3. engine.gate.stamp = 0 /\ engine.stamp = 0
  BY <1>1 DEF FreshEngine, FreshGate
<1>4. FaultsCounted
  BY <1>1, FileAssumption DEF FaultsCounted, OneFault
<1>5. SameKey(stored, FreshGate)
  BY <1>1 DEF SameKey, FreshGate
<1>6. \A thread \in Threads : ~Writing(thread) /\ flush[thread].at # "write"
  BY <1>1 DEF Writing
<1>7. StampsAreCounted
  BY <1>1, <1>2, <1>3, <1>6 DEF StampsAreCounted, InOrder
<1>8. AnsweringIsHeld
  BY <1>1, <1>3, <1>6 DEF AnsweringIsHeld, Threads
<1>9. PromiseIsHeld /\ BothCarry /\ TwiceWritten
  BY <1>1, <1>2, <1>3, <1>6 DEF PromiseIsHeld, BothCarry, Carries, TwiceWritten
<1>10. SameChange /\ StoredIsNewest /\ KeysTell
  BY <1>1, <1>2, <1>5, <1>6 DEF SameChange, StoredIsNewest, KeysTell
<1> QED  BY <1>4, <1>7, <1>8, <1>9, <1>10 DEF GateInv

LEMMA GatesTyped ==
  ASSUME NEW gate \in GateType
  PROVE  gate.stamp \in Nat /\ gate.revision \in Nat /\ gate.revision <= MaxGateRevision
BY SettingAssumption DEF GateType

(* The numbers that the steps below compare. *)
LEMMA GateNumbers ==
  ASSUME TypedState
  PROVE  /\ left.faults \in Nat
         /\ history.changes \in Nat /\ history.answering \in Nat /\ history.promised \in Nat
         /\ engine.stamp \in Nat /\ engine.gate \in GateType
         /\ \A file \in {primary, backup} :
              Valid(file) => file \in RecordType /\ file.engine.stamp \in Nat /\ file.engine.gate \in GateType
         /\ \A thread \in Threads :
              Writing(thread) => /\ flush[thread].record.engine.stamp \in Nat
                                 /\ flush[thread].record.engine.gate \in GateType
         /\ Kept \in Nat
<1>1. left.faults \in Nat
  BY DEF TypedState, TypeOK, Bounded
<1>2. \A file \in {primary, backup} : Valid(file) => file \in RecordType
  BY DEF TypedState, TypeOK, FileType, Valid
<1>3. \A thread \in Threads : Writing(thread) => flush[thread].record \in RecordType
  BY Numbers
<1>4. \A record \in RecordType : record.engine.stamp \in Nat /\ record.engine.gate \in GateType
  BY DEF RecordType, EngineType
<1>5. Kept \in Nat
  BY <1>2, <1>4, GatesTyped DEF Kept, Newest
<1> QED  BY <1>1, <1>2, <1>3, <1>4, <1>5 DEF TypedState, TypeOK, HistoryType, EngineType

(* A step that leaves what the gate is read from. *)
LEMMA QuietGateInv ==
  ASSUME TypedState, TypedState', GateInv,
         engine'.stamp = engine.stamp, engine'.revision = engine.revision, engine'.gate = engine.gate,
         UNCHANGED <<files, flushed, stored>>, left'.faults = left.faults, Up' <=> Up,
         history'.changes >= history.changes, history'.answering = history.answering,
         history'.promised = history.promised, history'.lost = history.lost,
         flush'["web"] = flush["web"],
         \A thread \in Threads : /\ Writing(thread)' <=> Writing(thread)
                                 /\ Writing(thread) => flush'[thread] = flush[thread]
  PROVE  GateInv'
<1>1. primary' = primary /\ backup' = backup
  BY DEF files
<1>2. Newest' = Newest /\ Kept' = Kept /\ (Valid(primary)' <=> Valid(primary)) /\ (Valid(backup)' <=> Valid(backup))
      /\ (Valid(Newest)' <=> Valid(Newest))
  BY <1>1 DEF Newest, Kept, Valid
<1>3. (Clean' <=> Clean) /\ (AlreadyFlushed' <=> AlreadyFlushed) /\ (WebIdle' <=> WebIdle)
  BY DEF Clean, AlreadyFlushed, WebIdle
<1>4. FaultsCounted'
  BY <1>1, <1>3 DEF GateInv, FaultsCounted
<1>5. StampsAreCounted'
  <2>1. history'.changes \in Nat
    BY DEF TypedState, TypeOK, HistoryType
  <2>2. \A a, b \in Nat : a <= b /\ b <= history.changes => b <= history'.changes
    BY <2>1, GateNumbers
  <2> QED  BY <1>1, <1>2, <2>1, GateNumbers DEF GateInv, StampsAreCounted, InOrder
<1>6. SameChange'
  BY <1>1, <1>2 DEF GateInv, SameChange
<1>7. AnsweringIsHeld'
  BY DEF GateInv, AnsweringIsHeld, Threads
<1>8. PromiseIsHeld'
  BY <1>2, <1>3 DEF GateInv, PromiseIsHeld
<1>9. BothCarry'
  BY <1>1, <1>2, <1>3 DEF GateInv, BothCarry, Carries
<1>10. TwiceWritten'
  BY <1>2, <1>3 DEF GateInv, TwiceWritten, Writing
<1>11. StoredIsNewest'
  BY <1>2, <1>3 DEF GateInv, StoredIsNewest, WrittenOnce, SameKey
<1>12. KeysTell'
  BY <1>2, <1>3 DEF GateInv, KeysTell
<1> QED  BY <1>4, <1>5, <1>6, <1>7, <1>8, <1>9, <1>10, <1>11, <1>12 DEF GateInv

(* A change of the engine, with or without one of its gate. *)
LEMMA EngineGateInv ==
  ASSUME TypedState, TypedState', FlushInv, GateInv, Up, Up',
         engine'.stamp = history.changes + 1, history'.changes = history.changes + 1,
         engine'.revision > engine.revision,
         UNCHANGED <<files, flushed, stored>>, left'.faults = left.faults,
         history'.promised = history.promised, history'.lost = history.lost,
         \A thread \in Threads : /\ Writing(thread)' <=> Writing(thread)
                                 /\ Writing(thread) => flush'[thread] = flush[thread]
                                 /\ flush'[thread].at = "write" => Writing(thread),
         \/ engine'.gate = engine.gate
         \/ engine'.gate.stamp = history.changes + 1 /\ engine'.gate.revision > engine.gate.revision
         \/ /\ engine'.gate.stamp = history.changes + 1
            /\ engine'.gate.revision = MaxGateRevision /\ engine.gate.revision = MaxGateRevision
            /\ engine'.gate.closed # engine.gate.closed
            /\ WebIdle /\ ~WebIdle',
         \/ flush' = flush /\ history'.answering = history.answering
         \/ WebIdle /\ flush'["web"].at = "begin" /\ history'.answering = engine'.gate.stamp
  PROVE  GateInv'
<1>1. primary' = primary /\ backup' = backup
  BY DEF files
<1>2. Newest' = Newest /\ Kept' = Kept /\ (Valid(primary)' <=> Valid(primary)) /\ (Valid(backup)' <=> Valid(backup))
      /\ (Valid(Newest)' <=> Valid(Newest))
  BY <1>1 DEF Newest, Kept, Valid
<1>3. (Clean' <=> Clean) /\ ~AlreadyFlushed'
  <2>1. engine'.revision \in Nat
    BY DEF TypedState, TypeOK, EngineType
  <2> QED  BY <2>1, Numbers DEF Clean, AlreadyFlushed, FlushInv, MarksInOrder
<1>4. engine.gate.stamp <= engine'.gate.stamp /\ engine'.gate.stamp <= history.changes + 1
      /\ engine.gate.revision <= engine'.gate.revision
      /\ engine.gate.stamp \in Nat /\ engine'.gate.stamp \in Nat
      /\ engine'.gate.revision \in Nat /\ engine.gate.revision \in Nat
  <2>1. engine.gate \in GateType /\ engine'.gate \in GateType
    BY DEF TypedState, TypeOK, EngineType
  <2>2. engine.gate.stamp \in Nat /\ engine'.gate.stamp \in Nat
        /\ engine'.gate.revision \in Nat /\ engine.gate.revision \in Nat
    BY <2>1, GatesTyped
  <2>3. engine.gate.stamp <= engine.stamp /\ engine.stamp <= history.changes
    BY DEF GateInv, StampsAreCounted, InOrder
  <2> QED  BY <2>2, <2>3, GateNumbers
<1>5. FaultsCounted'
  BY <1>1, <1>3 DEF GateInv, FaultsCounted
<1>6. StampsAreCounted'
  BY <1>1, <1>2, <1>4, GateNumbers DEF GateInv, StampsAreCounted, InOrder
<1>7. SameChange'
  BY <1>1, <1>2, GateNumbers DEF GateInv, SameChange, StampsAreCounted, InOrder
<1>8. AnsweringIsHeld'
  BY <1>4, GateNumbers DEF GateInv, AnsweringIsHeld, Threads, Writing, WebIdle
<1>9. PromiseIsHeld'
  BY <1>2, <1>3, <1>4, GateNumbers DEF GateInv, PromiseIsHeld
<1>10. BothCarry'
  BY <1>1, <1>2, <1>3 DEF GateInv, BothCarry, Carries
<1>11. TwiceWritten'
  BY <1>2, <1>3 DEF GateInv, TwiceWritten, Writing
<1>12. StoredIsNewest'
  BY <1>2, <1>3 DEF GateInv, StoredIsNewest, WrittenOnce, SameKey
<1>13. \A gate \in GateType :
         /\ Precedes(gate, engine.gate) /\ (WebIdle => Settles(gate, engine.gate))
              => Precedes(gate, engine'.gate)
         /\ Precedes(gate, engine.gate) /\ Settles(gate, engine.gate) /\ (~WebIdle \/ WebIdle')
              => Settles(gate, engine'.gate)
  <2> SUFFICES ASSUME NEW gate \in GateType, Precedes(gate, engine.gate)
               PROVE  /\ (WebIdle => Settles(gate, engine.gate)) => Precedes(gate, engine'.gate)
                      /\ Settles(gate, engine.gate) /\ (~WebIdle \/ WebIdle') => Settles(gate, engine'.gate)
    OBVIOUS
  <2>1. gate.revision \in Nat /\ gate.revision <= MaxGateRevision
        /\ engine'.gate.revision <= MaxGateRevision /\ MaxGateRevision \in Nat
    <3>1. engine'.gate \in GateType
      BY DEF TypedState, TypeOK, EngineType
    <3> QED  BY <3>1, GatesTyped, SettingAssumption
  <2> QED  BY <1>4, <2>1 DEF Precedes, Settles, SameKey
<1>14. KeysTell'
  <2>1. \A thread \in Threads : thread = "web" /\ Writing(thread) => ~WebIdle
    BY DEF Writing, WebIdle
  <2>2. WebIdle' => WebIdle
    BY DEF WebIdle
  <2> QED  BY <1>2, <1>3, <1>13, <2>1, <2>2, GateNumbers DEF GateInv, KeysTell, Newest
<1> QED  BY <1>5, <1>6, <1>7, <1>8, <1>9, <1>10, <1>11, <1>12, <1>14 DEF GateInv

(* What a step spends of the budget, unless it is a fault. *)
LEMMA NoFaultSpent ==
  ASSUME TypedState, NEW what \in Bounded \ {"faults"}, Spend(what)
  PROVE  left'.faults = left.faults
BY DEF Spend, TypedState, TypeOK, Bounded

(* What a change of the engine leaves of the history. *)
LEMMA Counted ==
  ASSUME TypedState, NEW held, Change(held)
  PROVE  /\ engine' = held
         /\ history'.changes = history.changes + 1
         /\ history'.answering = history.answering
         /\ history'.promised = history.promised
         /\ history'.lost = history.lost
BY DEF Change, TypedState, TypeOK, HistoryType

LEMMA BumpedGate ==
  ASSUME TypedState, NEW held \in EngineType, held.revision = engine.revision
  PROVE  /\ Bumped(held).stamp = history.changes + 1
         /\ Bumped(held).revision > engine.revision
         /\ Bumped(held).gate = held.gate
<1> DEFINE changedAt == Later(clock, held.changedAt + 1)
<1>1. Bumped(held) = [held EXCEPT !.revision = held.revision + 1, !.changedAt = changedAt, !.stamp = NextStamp]
  BY DEF Bumped, EngineType
<1> HIDE DEF changedAt
<1> QED  BY <1>1 DEF EngineType, NextStamp

LEMMA CommandGateInv ==
  ASSUME TypedState, TypedState', FlushInv, GateInv,
         \/ \E v \in Values, target \in Targets, duration \in Durations : Command(v, target, duration)
         \/ \E target \in Targets, window \in Windows : ScheduleGain(target, window)
  PROVE  GateInv'
<1>1. PICK v \in Values, fade \in Fade :
        /\ Change(Bumped([engine EXCEPT !.value[v] = fade]))
        /\ phase = "running"
        /\ Spend("commands")
        /\ UNCHANGED <<clock, files, phase, worker, memory, flush>>
  <2>1. engine.value \in [Values -> Fade] /\ clock \in Nat
    BY DEF TypedState, TypeOK, EngineType, Instants
  <2>2. ASSUME NEW v \in Values, NEW target \in Targets, NEW duration \in Durations,
               Command(v, target, duration)
        PROVE  FadeTo(engine.value[v], target, duration, clock) \in Fade
    BY <2>1, FadesInRange, SettingAssumption
  <2>3. ASSUME NEW target \in Targets, NEW window \in Windows, ScheduleGain(target, window)
        PROVE  FadeBetween(engine.value["gain"], target, window[1], window[2], clock) \in Fade
    <3>1. window[1] \in Nat /\ window[2] \in Nat
      BY SettingAssumption
    <3> QED  BY <2>1, <3>1, FadesInRange, SettingAssumption DEF Values
  <2>4. "gain" \in Values
    BY DEF Values
  <2>5. CASE \E v \in Values, target \in Targets, duration \in Durations : Command(v, target, duration)
    BY <2>2, <2>5 DEF Command
  <2>6. CASE \E target \in Targets, window \in Windows : ScheduleGain(target, window)
    BY <2>3, <2>4, <2>6 DEF ScheduleGain
  <2> QED  BY <2>5, <2>6
<1> DEFINE held == [engine EXCEPT !.value[v] = fade]
<1>2. held \in EngineType /\ held.revision = engine.revision /\ held.gate = engine.gate
  BY DEF TypedState, TypeOK, EngineType
<1>3. Change(Bumped(held))
  BY <1>1
<1> HIDE DEF held
<1>4. /\ engine'.stamp = history.changes + 1
      /\ engine'.revision > engine.revision
      /\ engine'.gate = engine.gate
  BY <1>2, <1>3, BumpedGate, Counted
<1>5. left'.faults = left.faults /\ Up /\ Up'
  BY <1>1, NoFaultSpent DEF Bounded, Up
<1>6. \A thread \in Threads : flush[thread].at = "write" => Writing(thread)
  BY DEF Writing
<1>7. UNCHANGED <<files, flushed, stored, flush>>
  BY <1>1 DEF memory
<1> QED  BY <1>3, <1>4, <1>5, <1>6, <1>7, Counted, EngineGateInv DEF Writing

LEMMA GateWrittenGateInv ==
  ASSUME TypedState, TypedState', FlushInv, GateInv, NEW closed \in BOOLEAN, NEW revision \in GateRevisions,
         GateWritten(closed, revision)
  PROVE  GateInv'
<1> DEFINE gate == SetGate(closed, revision)
           held == [engine EXCEPT !.gate = gate]
<1>1. gate \in GateType
  BY GateTyped, SettingAssumption DEF TypedState
<1>2. \/ gate = engine.gate
      \/ gate.stamp = history.changes + 1 /\ gate.revision > engine.gate.revision
      \/ /\ gate.stamp = history.changes + 1
         /\ gate.revision = MaxGateRevision /\ engine.gate.revision = MaxGateRevision
         /\ gate.closed # engine.gate.closed
  <2>1. engine.gate \in GateType /\ revision \in Nat /\ MaxGateRevision \in Nat
    BY SettingAssumption DEF TypedState, TypeOK, EngineType
  <2>2. engine.gate.revision \in Nat /\ engine.gate.revision <= MaxGateRevision
    BY <2>1, GatesTyped
  <2>3. \/ RaisedRevision(revision) > engine.gate.revision
        \/ RaisedRevision(revision) = MaxGateRevision /\ engine.gate.revision = MaxGateRevision
    BY <2>1, <2>2, SettingAssumption DEF RaisedRevision, Later, Capped
  <2>4. CASE engine.gate.closed = closed /\ engine.gate.revision = RaisedRevision(revision)
    BY <2>4 DEF SetGate
  <2>5. CASE ~(engine.gate.closed = closed /\ engine.gate.revision = RaisedRevision(revision))
    <3>1. gate = [closed |-> closed, revision |-> RaisedRevision(revision), stamp |-> NextStamp]
      BY <2>5 DEF SetGate
    <3>2. gate.closed = closed /\ gate.revision = RaisedRevision(revision) /\ gate.stamp = NextStamp
      BY <3>1
    <3> HIDE DEF gate
    <3> QED  BY <2>3, <2>5, <3>2 DEF NextStamp
  <2> QED  BY <2>4, <2>5
<1> HIDE DEF gate
<1>3. held \in EngineType /\ held.revision = engine.revision /\ held.gate = gate
  BY <1>1 DEF TypedState, TypeOK, EngineType
<1>4. engine' = Bumped(held)
  BY DEF GateWritten, gate
<1> HIDE DEF held
<1>5. /\ engine'.stamp = history.changes + 1
      /\ engine'.revision > engine.revision
      /\ engine'.gate = gate
  BY <1>3, <1>4, BumpedGate
<1>6. /\ history'.changes = history.changes + 1
      /\ history'.answering = gate.stamp
      /\ history'.promised = history.promised
      /\ history'.lost = history.lost
  BY DEF GateWritten, gate, TypedState, TypeOK, HistoryType
<1>7. left'.faults = left.faults /\ Up /\ Up'
  BY NoFaultSpent DEF GateWritten, Bounded, Up
<1>8. /\ WebIdle /\ flush'["web"].at = "begin"
      /\ \A thread \in Threads : /\ Writing(thread)' <=> Writing(thread)
                                 /\ Writing(thread) => flush'[thread] = flush[thread]
                                 /\ flush'[thread].at = "write" => Writing(thread)
  BY DEF GateWritten, WebIdle, Writing, TypedState, TypeOK, FlushType, Threads
<1>9. UNCHANGED <<files, flushed, stored>> /\ ~WebIdle'
  BY <1>8 DEF GateWritten, memory, WebIdle
<1> QED  BY <1>2, <1>5, <1>6, <1>7, <1>8, <1>9, EngineGateInv

LEMMA AdoptStateGateInv ==
  ASSUME TypedState, TypedState', FlushInv, GateInv, NEW peer \in PeerStates, NEW adopts \in BOOLEAN,
         AdoptState(peer, adopts)
  PROVE  GateInv'
<1> DEFINE gated == WithPeerGate(peer)
           gate == [closed |-> TRUE, revision |-> Capped(peer.gateRevision), stamp |-> NextStamp]
<1>1. /\ Change(IF adopts THEN WithPeerValues(peer, gated) ELSE gated)
      /\ UNCHANGED <<files, flushed, stored, flush>>
      /\ Up /\ Up'
      /\ left'.faults = left.faults
  BY NoFaultSpent DEF AdoptState, Bounded, Up
<1>2. engine \in EngineType /\ engine.revision + 1 > engine.revision /\ engine.revision + 1 \in Nat
  BY DEF TypedState, TypeOK, EngineType
<1>3. \A thread \in Threads : flush[thread].at = "write" => Writing(thread)
  BY DEF Writing
<1>4. CASE ClosesGate(peer)
  <2>1. gate \in GateType /\ gate.stamp = history.changes + 1 /\ gate.revision > engine.gate.revision
    <3>1. peer.gateRevision \in Nat /\ peer.gateRevision <= MaxGateRevision
      BY PeerAssumption, SettingAssumption
    <3>2. Capped(peer.gateRevision) = peer.gateRevision
      BY <3>1, SettingAssumption DEF Capped
    <3>3. Capped(peer.gateRevision) \in 0 .. MaxGateRevision /\ NextStamp \in Nat
      BY <3>1, GateTyped DEF TypedState, TypeOK, HistoryType, NextStamp
    <3> QED  BY <1>4, <3>2, <3>3 DEF ClosesGate, GateType, NextStamp
  <2>2. gated = [engine EXCEPT !.gate = gate, !.revision = engine.revision + 1, !.stamp = NextStamp]
    BY <1>2, <1>4 DEF WithPeerGate, EngineType
  <2> HIDE DEF gate, gated
  <2>3. gated \in EngineType /\ gated.gate = gate /\ gated.revision = engine.revision + 1 /\ gated.stamp = NextStamp
    <3>1. NextStamp \in Nat
      BY GateNumbers DEF NextStamp
    <3> QED  BY <1>2, <2>1, <2>2, <3>1 DEF EngineType
  <2>4. LET held == WithPeerValues(peer, gated)
        IN  held.gate = gate /\ held.revision = gated.revision + 1 /\ held.stamp = NextStamp
    BY <2>3 DEF WithPeerValues, EngineType
  <2>5. engine'.gate = gate /\ engine'.revision > engine.revision /\ engine'.stamp = history.changes + 1
    <3>1. engine' = WithPeerValues(peer, gated) \/ engine' = gated
      BY <1>1, Counted
    <3> QED  BY <1>2, <2>3, <2>4, <3>1 DEF NextStamp, EngineType
  <2> QED  BY <1>1, <1>3, <2>1, <2>5, Counted, EngineGateInv DEF Writing
<1>5. CASE ~ClosesGate(peer) /\ adopts
  <2>1. gated = engine
    BY <1>5 DEF WithPeerGate
  <2>2. engine' = WithPeerValues(peer, engine)
    BY <1>1, <1>5, <2>1, Counted
  <2>3. engine'.gate = engine.gate /\ engine'.revision > engine.revision /\ engine'.stamp = history.changes + 1
    BY <1>2, <2>2 DEF WithPeerValues, EngineType, NextStamp
  <2> QED  BY <1>1, <1>3, <2>3, Counted, EngineGateInv DEF Writing
<1>6. CASE ~ClosesGate(peer) /\ ~adopts
  <2>1. engine' = engine
    BY <1>1, <1>6, Counted DEF WithPeerGate
  <2>2. history'.changes >= history.changes
    BY <1>1, Counted, GateNumbers
  <2> QED  BY <1>1, <2>1, <2>2, Counted, QuietGateInv DEF Writing
<1> QED  BY <1>4, <1>5, <1>6

(* The worker flushes only where its pass has it flush. *)
WorkerInTurn == worker \in {"publish", "flush", "done"} => flush["worker"].at = "idle"

LEMMA NextWorkerInTurn ==
  ASSUME TypedState, FlushInv, WorkerInTurn, [Next]_vars
  PROVE  WorkerInTurn'
<1>1. CASE \E thread \in Threads : FlushStep(thread)
  <2>1. PICK thread \in Threads : FlushStep(thread)
    BY <1>1
  <2>2. /\ flush[thread].at # "idle"
        /\ \A t \in Threads : t # thread => flush'[t] = flush[t]
        /\ worker' = worker \/ Return(thread)
    BY <2>1 DEF FlushStep, SkipFlush, BeginFlush, Rotate, RotationFails, WriteOnce, WriteLast, WriteFails,
                Return, TypedState, TypeOK
  <2>3. Return(thread) => flush'[thread].at = "idle" /\ (thread = "web" => worker' = worker)
    BY DEF Return, NotFlushing, TypedState, TypeOK
  <2> QED  BY <2>2, <2>3 DEF WorkerInTurn, Threads
<1>2. CASE Publish \/ FlushIfDirty \/ Teardown
  BY <1>2 DEF Publish, FlushIfDirty, Teardown, WorkerInTurn, TypedState, TypeOK, FlushType
<1>3. CASE \E closed \in BOOLEAN, revision \in GateRevisions : GateWritten(closed, revision)
  BY <1>3 DEF GateWritten, WorkerInTurn, TypedState, TypeOK, FlushType, Threads
<1>4. CASE Exit \/ Crash
  <2>1. flush'["worker"].at = "idle"
    BY <1>4 DEF Exit, Crash, Dies, NotFlushing, Threads
  <2> QED  BY <2>1 DEF WorkerInTurn
<1>5. CASE UNCHANGED <<worker, flush>>
  BY <1>5 DEF WorkerInTurn
<1> QED  BY <1>1, <1>2, <1>3, <1>4, <1>5
         DEF Next, vars, TimePasses, Frame, Command, ScheduleGain, AdoptState, StopRequested, CorruptPrimary,
             CorruptBackup, Restart, RestartTrusted, RestartFromBackup, RestartUnreadable, RestartFirst, Restarts

(* The steps that change neither the gate nor what is on disk. *)
LEMMA OtherGateInv ==
  ASSUME TypedState, TypedState', WorkerInTurn, GateInv,
         TimePasses \/ Frame \/ Publish \/ FlushIfDirty \/ StopRequested \/ Teardown \/ UNCHANGED vars
  PROVE  GateInv'
<1>1. engine'.stamp = engine.stamp /\ engine'.revision = engine.revision /\ engine'.gate = engine.gate
  <2>1. CASE Frame
    <3> DEFINE levels == [v \in Values |-> LevelOf(engine, v, clock)]
    <3>1. engine' = [engine EXCEPT !.applied = levels] /\ engine \in EngineType
      BY <2>1 DEF Frame, TypedState, TypeOK
    <3> HIDE DEF levels
    <3> QED  BY <3>1 DEF EngineType
  <2>2. CASE ~Frame
    BY <2>2 DEF TimePasses, Publish, FlushIfDirty, StopRequested, Teardown, vars
  <2> QED  BY <2>1, <2>2
<1>2. UNCHANGED <<files, flushed, stored, history>>
  BY DEF TimePasses, Frame, Publish, FlushIfDirty, StopRequested, Teardown, vars, memory
<1>3. left'.faults = left.faults
  BY NoFaultSpent DEF TimePasses, Frame, Publish, FlushIfDirty, StopRequested, Teardown, vars, Bounded
<1>4. Up' <=> Up
  BY DEF TimePasses, Frame, Publish, FlushIfDirty, StopRequested, Teardown, vars, Up
<1>5. /\ flush'["web"] = flush["web"]
      /\ \A thread \in Threads : /\ Writing(thread)' <=> Writing(thread)
                                 /\ Writing(thread) => flush'[thread] = flush[thread]
  <2>1. CASE flush' = flush
    BY <2>1 DEF Writing
  <2>2. CASE flush' = [flush EXCEPT !["worker"].at = "begin"] /\ flush["worker"].at = "idle"
    BY <2>2 DEF Writing, Threads, TypedState, TypeOK, FlushType
  <2> QED  BY <2>1, <2>2 DEF TimePasses, Frame, Publish, FlushIfDirty, StopRequested, Teardown, vars, WorkerInTurn
<1>6. history'.changes >= history.changes
  BY <1>2, GateNumbers
<1> QED  BY <1>1, <1>2, <1>3, <1>4, <1>5, <1>6, QuietGateInv

-----------------------------------------------------------------------------
(* The steps of a flush. *)
LEMMA SkipFlushGateInv ==
  ASSUME TypedState, TypedState', FlushInv, GateInv, NEW thread \in Threads, SkipFlush(thread)
  PROVE  GateInv'
<1>1. /\ UNCHANGED <<engine, files, flushed, stored, left, phase>>
      /\ flush'[thread] = NotFlushing
      /\ \A t \in Threads : t # thread => flush'[t] = flush[t]
      /\ \A t \in Threads : ~Writing(t)
      /\ AlreadyFlushed
  BY DEF SkipFlush, Return, LockFree, Writing, memory, TypedState, TypeOK
<1>2. Up
  BY DEF SkipFlush, FlushInv, DownIsQuiet
<1>3. \A t \in Threads : ~Writing(t)' /\ flush'[t].at # "write"
  BY <1>1 DEF Writing, NotFlushing
<1>4. /\ history'.changes = history.changes
      /\ history'.answering = history.answering
      /\ history'.lost = history.lost
      /\ history'.promised = Answered(thread)
  BY DEF SkipFlush, TypedState, TypeOK, HistoryType
<1>5. /\ thread # "web" => history'.promised = history.promised
      /\ \/ history'.promised = history.promised
         \/ history'.promised = history.answering /\ history.answering <= engine.gate.stamp
  <2>1. thread = "web" => history.answering <= engine.gate.stamp
    BY DEF GateInv, AnsweringIsHeld, SkipFlush
  <2> QED  BY <1>4, <2>1 DEF Answered, Later
<1>6. /\ primary' = primary /\ backup' = backup /\ Newest' = Newest /\ Kept' = Kept
      /\ (Clean' <=> Clean) /\ (AlreadyFlushed' <=> AlreadyFlushed) /\ (Up' <=> Up)
  BY <1>1 DEF files, Newest, Kept, Clean, AlreadyFlushed, Up, Valid
<1>7. FaultsCounted' /\ StampsAreCounted' /\ SameChange'
  BY <1>1, <1>3, <1>4, <1>6 DEF GateInv, FaultsCounted, StampsAreCounted, InOrder, SameChange, Valid
<1>8. AnsweringIsHeld'
  BY <1>1, <1>3, <1>4 DEF GateInv, AnsweringIsHeld, NotFlushing, Threads
<1>9. PromiseIsHeld'
  <2>1. history'.promised \in Nat /\ engine.gate.stamp \in Nat
    BY GateNumbers, GatesTyped DEF TypedState, TypeOK, HistoryType
  <2> QED  BY <1>1, <1>2, <1>3, <1>4, <1>5, <1>6, <2>1, GateNumbers DEF GateInv, PromiseIsHeld
<1>10. BothCarry'
  <2>1. history'.promised \in Nat /\ engine.gate.stamp \in Nat
    BY GateNumbers, GatesTyped DEF TypedState, TypeOK, HistoryType
  <2>2. \A file \in {primary, backup} : Valid(file) => file.engine.gate.stamp \in Nat
    BY GateNumbers, GatesTyped
  <2> QED  BY <1>1, <1>2, <1>5, <1>6, <2>1, <2>2, GateNumbers DEF GateInv, BothCarry, Carries, Valid
<1>11. TwiceWritten'
  BY <1>3 DEF TwiceWritten
<1>12. StoredIsNewest'
  BY <1>1, <1>3, <1>6 DEF GateInv, StoredIsNewest, WrittenOnce, SameKey, Valid
<1>13. KeysTell'
  <2>1. Clean /\ Valid(Newest) => Newest = primary /\ engine.gate = primary.engine.gate
    <3>1. Clean => primary # Invalid
      BY DEF GateInv, FaultsCounted
    <3>2. Clean => OnDisk
      BY <1>1, <1>2, <3>1 DEF FlushInv, FlushedIsOnDisk
    <3> QED  BY <1>2, <3>2 DEF OnDisk, Newest, GateInv, SameChange
  <2> QED  BY <1>1, <1>3, <1>6, <2>1 DEF GateInv, KeysTell, Settles, Valid
<1> QED  BY <1>7, <1>8, <1>9, <1>10, <1>11, <1>12, <1>13 DEF GateInv

LEMMA BeginFlushGateInv ==
  ASSUME TypedState, TypedState', FlushInv, GateInv, NEW thread \in Threads, BeginFlush(thread)
  PROVE  GateInv'
<1>1. /\ UNCHANGED <<engine, files, flushed, stored, left, phase, history>>
      /\ flush'[thread] = [at |-> "rotate", record |-> Captured, again |-> FALSE]
      /\ \A t \in Threads : t # thread => flush'[t] = flush[t]
      /\ \A t \in Threads : ~Writing(t)
      /\ flush[thread].at = "begin"
  BY DEF BeginFlush, LockFree, Writing, memory, TypedState, TypeOK
<1>2. Up
  BY <1>1 DEF FlushInv, DownIsQuiet
<1>3. /\ \A t \in Threads : Writing(t)' <=> t = thread
      /\ \A t \in Threads : flush'[t].at # "write"
  BY <1>1 DEF Writing
<1>4. /\ flush'[thread].record.engine = engine
      /\ flush'[thread].again # TRUE
  <2>1. flush'[thread].record.engine = engine
    BY <1>1 DEF Captured
  <2> DEFINE no == FALSE
             to == [at |-> "rotate", record |-> Captured, again |-> no]
  <2>2. flush'[thread] = to /\ no # TRUE
    BY <1>1
  <2> HIDE DEF no
  <2>3. to.again = no
    OBVIOUS
  <2> HIDE DEF to
  <2> QED  BY <2>1, <2>2, <2>3
<1>5. /\ primary' = primary /\ backup' = backup /\ Newest' = Newest /\ Kept' = Kept
      /\ (Clean' <=> Clean) /\ (AlreadyFlushed' <=> AlreadyFlushed) /\ (Up' <=> Up)
  BY <1>1 DEF files, Newest, Kept, Clean, AlreadyFlushed, Up, Valid
<1>6. FaultsCounted' /\ StampsAreCounted' /\ SameChange'
  BY <1>1, <1>3, <1>4, <1>5 DEF GateInv, FaultsCounted, StampsAreCounted, InOrder, SameChange, Valid
<1>7. AnsweringIsHeld'
  BY <1>1, <1>3, <1>4 DEF GateInv, AnsweringIsHeld, Threads
<1>8. PromiseIsHeld'
  BY <1>1, <1>2, <1>3, <1>4, <1>5 DEF GateInv, PromiseIsHeld
<1>9. BothCarry'
  BY <1>1, <1>5 DEF GateInv, BothCarry, Carries, Valid
<1>10. TwiceWritten'
  BY <1>3, <1>4 DEF TwiceWritten
<1>11. StoredIsNewest'
  BY <1>1, <1>5 DEF GateInv, StoredIsNewest, WrittenOnce, SameKey, Valid
<1>12. KeysTell'
  <2>1. thread = "web" => ~WebIdle
    BY <1>1 DEF WebIdle
  <2>2. WebIdle' => WebIdle
    BY <1>1, <1>3 DEF WebIdle, Threads
  <2>3. Precedes(engine.gate, engine.gate) /\ Settles(engine.gate, engine.gate)
    BY GateNumbers, GatesTyped DEF Precedes, Settles
  <2> QED  BY <1>1, <1>2, <1>3, <1>4, <1>5, <2>1, <2>2, <2>3 DEF GateInv, KeysTell, Precedes, SameKey, Valid
<1> QED  BY <1>6, <1>7, <1>8, <1>9, <1>10, <1>11, <1>12 DEF GateInv

(* What stays while one thread goes from one file operation to the next. *)
LEMMA WriterGoesOn ==
  ASSUME TypedState, FlushInv, NEW thread \in Threads,
         Rotate(thread) \/ RotationFails(thread) \/ WriteOnce(thread)
  PROVE  /\ UNCHANGED <<engine, flushed, stored, phase, history>>
         /\ Up /\ Up'
         /\ \A t \in Threads : Writing(t) <=> t = thread
         /\ \A t \in Threads : Writing(t)' <=> t = thread
         /\ \A t \in Threads : t # thread => flush'[t] = flush[t] /\ flush'[t].at # "write"
         /\ flush'[thread].record = flush[thread].record
         /\ ~AlreadyFlushed /\ ~AlreadyFlushed'
         /\ WebIdle' <=> WebIdle
<1>1. /\ UNCHANGED <<engine, flushed, stored, phase, history>>
      /\ flush[thread].at \in {"rotate", "write"} /\ flush'[thread].at \in {"rotate", "write"}
      /\ \A t \in Threads : t # thread => flush'[t] = flush[t]
      /\ flush'[thread].record = flush[thread].record
  BY DEF Rotate, RotationFails, WriteOnce, memory, TypedState, TypeOK, FlushType
<1>2. Writing(thread) /\ Up
  BY <1>1 DEF Writing, FlushInv, DownIsQuiet
<1>3. \A t \in Threads : Writing(t) <=> t = thread
  BY <1>2 DEF FlushInv, OneWriter
<1>4. \A t \in Threads : Writing(t)' <=> t = thread
  BY <1>1, <1>3 DEF Writing
<1>5. ~AlreadyFlushed
  BY <1>2, Numbers DEF FlushInv, WriterIsAhead, AlreadyFlushed
<1>6. WebIdle' <=> WebIdle
  BY <1>1 DEF WebIdle, Threads
<1> QED  BY <1>1, <1>2, <1>3, <1>4, <1>5, <1>6 DEF Writing, Up, AlreadyFlushed

LEMMA RotateGateInv ==
  ASSUME TypedState, TypedState', FlushInv, GateInv, NEW thread \in Threads, Rotate(thread)
  PROVE  GateInv'
<1>1. /\ UNCHANGED <<engine, flushed, stored, phase, history>>
      /\ Up /\ Up'
      /\ \A t \in Threads : Writing(t) <=> t = thread
      /\ \A t \in Threads : Writing(t)' <=> t = thread
      /\ \A t \in Threads : t # thread => flush'[t] = flush[t] /\ flush'[t].at # "write"
      /\ flush'[thread].record = flush[thread].record
      /\ ~AlreadyFlushed /\ ~AlreadyFlushed'
      /\ WebIdle' <=> WebIdle
  BY WriterGoesOn
<1>2. flush'[thread].again = flush[thread].again /\ (Clean' <=> Clean) /\ left' = left
  BY DEF Rotate, TypedState, TypeOK, FlushType, Clean
<1>3. \/ Valid(primary) /\ backup' = primary /\ primary' = Absent
      \/ ~Valid(primary) /\ backup' = backup /\ primary' = primary
  BY DEF Rotate, files
<1>4. /\ Newest' = Newest /\ Kept' = Kept /\ ~Valid(primary)'
      /\ Valid(Newest)' <=> Valid(Newest)
      /\ Valid(backup)' => backup' = Newest /\ Valid(Newest)
      /\ Newest \in {primary, backup}
  BY <1>3 DEF Newest, Kept, Valid
<1>5. FaultsCounted'
  BY <1>1, <1>2, <1>3, FileAssumption DEF GateInv, FaultsCounted, Valid
<1>6. StampsAreCounted' /\ SameChange'
  BY <1>1, <1>3, <1>4 DEF GateInv, StampsAreCounted, InOrder, SameChange
<1>7. AnsweringIsHeld'
  BY <1>1 DEF GateInv, AnsweringIsHeld, Threads, WebIdle
<1>8. PromiseIsHeld'
  BY <1>1, <1>4 DEF GateInv, PromiseIsHeld
<1>9. BothCarry'
  BY <1>1, <1>2, <1>3, <1>4 DEF GateInv, BothCarry, Carries
<1>10. TwiceWritten'
  BY <1>1, <1>2, <1>4 DEF GateInv, TwiceWritten
<1>11. StoredIsNewest'
  BY <1>1, <1>2, <1>4 DEF GateInv, StoredIsNewest, WrittenOnce, SameKey
<1>12. KeysTell'
  BY <1>1, <1>2, <1>4 DEF GateInv, KeysTell
<1> QED  BY <1>5, <1>6, <1>7, <1>8, <1>9, <1>10, <1>11, <1>12 DEF GateInv

(* A fault leaves no other to come. *)
LEMMA FaultSpent ==
  ASSUME TypedState, GateInv, Spend("faults")
  PROVE  Clean /\ ~Clean' /\ left'.faults <= 1
BY GateNumbers DEF Spend, Clean, GateInv, FaultsCounted, TypedState, TypeOK, Bounded

LEMMA RotationFailsGateInv ==
  ASSUME TypedState, TypedState', FlushInv, GateInv, NEW thread \in Threads, RotationFails(thread)
  PROVE  GateInv'
<1>1. /\ UNCHANGED <<engine, flushed, stored, phase, history>>
      /\ Up /\ Up'
      /\ \A t \in Threads : Writing(t) <=> t = thread
      /\ \A t \in Threads : Writing(t)' <=> t = thread
      /\ \A t \in Threads : t # thread => flush'[t] = flush[t] /\ flush'[t].at # "write"
      /\ flush'[thread].record = flush[thread].record
      /\ ~AlreadyFlushed /\ ~AlreadyFlushed'
      /\ WebIdle' <=> WebIdle
  BY WriterGoesOn
<1>2. ~Clean' /\ left'.faults <= 1
  BY FaultSpent DEF RotationFails
<1>3. primary' = primary /\ backup' = backup
  BY DEF RotationFails, files
<1>4. Kept' = Kept
  BY <1>3 DEF Newest, Kept, Valid
<1>5. FaultsCounted' /\ BothCarry' /\ TwiceWritten' /\ StoredIsNewest' /\ KeysTell'
  BY <1>2 DEF FaultsCounted, BothCarry, TwiceWritten, StoredIsNewest, KeysTell
<1>6. StampsAreCounted' /\ SameChange'
  BY <1>1, <1>3 DEF GateInv, StampsAreCounted, InOrder, SameChange, Valid
<1>7. AnsweringIsHeld'
  BY <1>1 DEF GateInv, AnsweringIsHeld, Threads, WebIdle
<1>8. PromiseIsHeld'
  BY <1>1, <1>4 DEF GateInv, PromiseIsHeld
<1> QED  BY <1>5, <1>6, <1>7, <1>8 DEF GateInv

(* The first file to carry a changed gate. *)
LEMMA WriteOnceGateInv ==
  ASSUME TypedState, TypedState', FlushInv, GateInv, NEW thread \in Threads, WriteOnce(thread)
  PROVE  GateInv'
<1> DEFINE record == flush[thread].record
<1>1. /\ UNCHANGED <<engine, flushed, stored, phase, history>>
      /\ Up /\ Up'
      /\ \A t \in Threads : Writing(t) <=> t = thread
      /\ \A t \in Threads : Writing(t)' <=> t = thread
      /\ \A t \in Threads : t # thread => flush'[t] = flush[t] /\ flush'[t].at # "write"
      /\ flush'[thread].record = record
      /\ ~AlreadyFlushed /\ ~AlreadyFlushed'
      /\ WebIdle' <=> WebIdle
  BY WriterGoesOn
<1>2. /\ flush'[thread].at = "rotate"
      /\ flush'[thread].again = TRUE
      /\ primary' = record /\ backup' = backup /\ left' = left
  BY DEF WriteOnce, TypedState, TypeOK, FlushType
<1>3. record \in RecordType
  BY <1>1, Numbers
<1> HIDE DEF record
<1>4. /\ Valid(primary)' /\ Valid(Newest)' /\ Newest' = record /\ Kept' = record.engine.gate.stamp
      /\ Valid(backup)' <=> Valid(backup)
      /\ Clean' <=> Clean
  BY <1>2, <1>3, FileAssumption DEF Valid, Newest, Kept, Clean
<1>5. FaultsCounted'
  BY <1>1, <1>2, <1>3, <1>4, FileAssumption DEF GateInv, FaultsCounted
<1>6. StampsAreCounted' /\ SameChange'
  BY <1>1, <1>2, <1>4 DEF GateInv, StampsAreCounted, InOrder, SameChange, record
<1>7. AnsweringIsHeld'
  BY <1>1 DEF GateInv, AnsweringIsHeld, Threads, WebIdle, record
<1>8. PromiseIsHeld'
  BY <1>1, <1>4 DEF GateInv, PromiseIsHeld, record
<1>9. BothCarry'
  <2>1. Clean => history.promised <= record.engine.gate.stamp
    BY <1>1 DEF GateInv, FaultsCounted, PromiseIsHeld, record
  <2> QED  BY <1>1, <1>2, <1>4, <2>1 DEF GateInv, BothCarry, Carries
<1>10. TwiceWritten'
  BY <1>1, <1>2, <1>4 DEF TwiceWritten
<1>11. StoredIsNewest'
  BY <1>1, <1>2 DEF StoredIsNewest, WrittenOnce
<1>12. KeysTell'
  <2>1. Clean => /\ Precedes(record.engine.gate, engine.gate)
                 /\ WebIdle \/ thread = "web" => Settles(record.engine.gate, engine.gate)
    BY <1>1 DEF GateInv, KeysTell, record
  <2> QED  BY <1>1, <1>4, <2>1 DEF KeysTell
<1> QED  BY <1>5, <1>6, <1>7, <1>8, <1>9, <1>10, <1>11, <1>12 DEF GateInv

LEMMA WriteFailsGateInv ==
  ASSUME TypedState, TypedState', FlushInv, GateInv, NEW thread \in Threads, WriteFails(thread)
  PROVE  GateInv'
<1>1. /\ UNCHANGED <<engine, files, flushed, stored, phase>>
      /\ flush'[thread] = NotFlushing
      /\ \A t \in Threads : t # thread => flush'[t] = flush[t]
      /\ \A t \in Threads : Writing(t) => t = thread
      /\ flush[thread].at = "write"
  <2>1. Writing(thread)
    BY DEF WriteFails, Writing
  <2> QED  BY <2>1 DEF WriteFails, Return, memory, TypedState, TypeOK, FlushInv, OneWriter
<1>2. Up /\ Up'
  BY <1>1 DEF FlushInv, DownIsQuiet, Up
<1>3. \A t \in Threads : ~Writing(t)' /\ flush'[t].at # "write"
  BY <1>1 DEF Writing, NotFlushing
<1>4. /\ history'.changes = history.changes
      /\ history'.answering = history.answering
      /\ history'.lost = history.lost
      /\ history'.promised = history.promised
  BY DEF WriteFails, TypedState, TypeOK, HistoryType
<1>5. ~Clean' /\ left'.faults <= 1
  BY FaultSpent DEF WriteFails
<1>6. primary' = primary /\ backup' = backup /\ Kept' = Kept /\ (AlreadyFlushed' <=> AlreadyFlushed)
  BY <1>1 DEF files, Newest, Kept, Valid, AlreadyFlushed
<1>7. FaultsCounted' /\ BothCarry' /\ TwiceWritten' /\ StoredIsNewest' /\ KeysTell'
  BY <1>5 DEF FaultsCounted, BothCarry, TwiceWritten, StoredIsNewest, KeysTell
<1>8. StampsAreCounted' /\ SameChange'
  BY <1>1, <1>2, <1>3, <1>4, <1>6 DEF GateInv, StampsAreCounted, InOrder, SameChange, Valid
<1>9. AnsweringIsHeld'
  BY <1>1, <1>3, <1>4 DEF GateInv, AnsweringIsHeld, NotFlushing, Threads
<1>10. PromiseIsHeld'
  BY <1>1, <1>2, <1>3, <1>4, <1>6 DEF GateInv, PromiseIsHeld
<1> QED  BY <1>7, <1>8, <1>9, <1>10 DEF GateInv

(* The last file operation of a flush: whatever is on disk by then carries *)
(* the gate of the record.                                                 *)
LEMMA WriteLastGateInv ==
  ASSUME TypedState, TypedState', FlushInv, GateInv, NEW thread \in Threads, WriteLast(thread)
  PROVE  GateInv'
<1> DEFINE record == flush[thread].record
           gate == record.engine.gate
<1>1. /\ UNCHANGED <<engine, phase, left>>
      /\ flush'[thread] = NotFlushing
      /\ \A t \in Threads : t # thread => flush'[t] = flush[t]
      /\ flush[thread].at = "write"
      /\ primary' = record /\ backup' = backup
      /\ flushed' = record.engine.revision
      /\ SameKey(stored', gate)
      /\ ~WritesAgain(thread)
  BY DEF WriteLast, Return, TypedState, TypeOK, SameKey
<1>2. Writing(thread) /\ Up /\ Up'
  BY <1>1 DEF Writing, FlushInv, DownIsQuiet, Up
<1>3. \A t \in Threads : Writing(t) <=> t = thread
  BY <1>2 DEF FlushInv, OneWriter
<1>4. \A t \in Threads : ~Writing(t)' /\ flush'[t].at # "write"
  BY <1>1, <1>3 DEF Writing, NotFlushing
<1>5. record \in RecordType /\ gate \in GateType /\ gate.stamp \in Nat
  BY <1>2, Numbers, GateNumbers, GatesTyped
<1>6. /\ history'.changes = history.changes
      /\ history'.answering = history.answering
      /\ history'.lost = history.lost
      /\ history'.promised = Answered(thread)
  BY DEF WriteLast, TypedState, TypeOK, HistoryType
<1>7. \/ history'.promised = history.promised
      \/ history'.promised = history.answering /\ history.answering <= engine.gate.stamp
         /\ history.answering <= gate.stamp
  <2>1. thread = "web" => history.answering <= engine.gate.stamp /\ history.answering <= gate.stamp
    BY <1>1, <1>2 DEF GateInv, AnsweringIsHeld
  <2> QED  BY <1>6, <2>1 DEF Answered, Later
<1>8. history.lost = FALSE => history'.promised <= gate.stamp /\ history'.promised <= engine.gate.stamp
  BY <1>2, <1>7 DEF GateInv, PromiseIsHeld
<1>9. AlreadyFlushed' => gate = engine.gate
  <2>1. AlreadyFlushed' => record.engine.revision = engine.revision
    BY <1>1 DEF AlreadyFlushed
  <2>2. AlreadyFlushed' => record.engine.stamp = engine.stamp
    BY <1>2, <2>1 DEF FlushInv, WriterIsAhead
  <2> QED  BY <1>2, <2>2 DEF GateInv, SameChange
<1>10. Clean /\ Valid(backup) => backup.engine.gate.stamp = gate.stamp
  <2> SUFFICES ASSUME Clean, Valid(backup) PROVE backup.engine.gate.stamp = gate.stamp
    OBVIOUS
  <2>1. ~Valid(primary)
    BY <1>1 DEF GateInv, TwiceWritten
  <2>2. Newest = backup
    BY <2>1 DEF Newest
  <2>3. CASE flush[thread].again = TRUE
    BY <1>2, <2>2, <2>3 DEF GateInv, TwiceWritten
  <2>4. CASE flush[thread].again # TRUE
    <3>1. WrittenOnce
      BY <1>3, <2>4 DEF WrittenOnce
    <3>2. SameKey(stored, backup.engine.gate)
      BY <1>2, <2>2, <3>1 DEF GateInv, StoredIsNewest
    <3>3. stored.closed = gate.closed /\ stored.revision = gate.revision
      <4>1. flush[thread].again = FALSE
        BY <2>4 DEF TypedState, TypeOK, FlushType
      <4>2. stored = [closed |-> gate.closed, revision |-> gate.revision]
        BY <1>1, <4>1 DEF WritesAgain
      <4> HIDE DEF gate
      <4> QED  BY <4>2
    <3>4. SameKey(Newest.engine.gate, gate)
      BY <2>2, <3>2, <3>3 DEF SameKey
    <3> QED  BY <1>2, <2>2, <3>4 DEF GateInv, KeysTell
  <2> QED  BY <2>3, <2>4
<1>11. Clean => /\ Precedes(gate, engine.gate)
                /\ thread = "web" \/ WebIdle => Settles(gate, engine.gate)
  BY <1>2 DEF GateInv, KeysTell
<1>12. StampsAreCounted' /\ SameChange'
  <2>1. InOrder(record.engine) /\ (record.engine.stamp = engine.stamp => gate = engine.gate)
    BY <1>2 DEF GateInv, StampsAreCounted, SameChange
  <2> HIDE DEF record, gate
  <2> QED  BY <1>1, <1>2, <1>4, <1>6, <2>1 DEF GateInv, StampsAreCounted, InOrder, SameChange, Valid, gate
<1> HIDE DEF record
<1>13. /\ Valid(primary)' /\ Valid(Newest)' /\ Newest' = record /\ Kept' = gate.stamp
       /\ Valid(backup)' <=> Valid(backup)
       /\ Clean' <=> Clean
  BY <1>1, <1>5, FileAssumption DEF Valid, Newest, Kept, Clean
<1>14. FaultsCounted'
  BY <1>1, <1>5, <1>6, <1>13, FileAssumption DEF GateInv, FaultsCounted
<1>15. AnsweringIsHeld'
  BY <1>1, <1>4, <1>6 DEF GateInv, AnsweringIsHeld, NotFlushing, Threads
<1>16. PromiseIsHeld'
  BY <1>1, <1>4, <1>5, <1>6, <1>8, <1>9, <1>13 DEF PromiseIsHeld
<1>17. BothCarry'
  BY <1>1, <1>5, <1>8, <1>9, <1>10, <1>13 DEF GateInv, FaultsCounted, BothCarry, Carries
<1>18. TwiceWritten'
  BY <1>4 DEF TwiceWritten
<1>19. StoredIsNewest'
  BY <1>1, <1>13 DEF StoredIsNewest, SameKey
<1>20. KeysTell'
  <2>1. WebIdle' => thread = "web" \/ WebIdle
    BY <1>1 DEF WebIdle, Threads
  <2> QED  BY <1>1, <1>4, <1>11, <1>13, <2>1 DEF KeysTell
<1> QED  BY <1>12, <1>14, <1>15, <1>16, <1>17, <1>18, <1>19, <1>20 DEF GateInv

LEMMA EndGateInv ==
  ASSUME TypedState, TypedState', GateInv, Exit \/ Crash
  PROVE  GateInv'
<1>1. /\ UNCHANGED <<engine, files, history>> /\ ~Up'
      /\ left'.faults = left.faults
      /\ \A thread \in Threads : flush'[thread].at = "idle"
  BY NoFaultSpent DEF Exit, Crash, Dies, Up, NotFlushing, Bounded
<1>2. \A thread \in Threads : ~Writing(thread)'
  BY <1>1 DEF Writing
<1>3. primary' = primary /\ backup' = backup /\ Kept' = Kept /\ (Clean' <=> Clean)
  BY <1>1 DEF files, Newest, Kept, Valid, Clean
<1>4. FaultsCounted' /\ StampsAreCounted'
  BY <1>1, <1>2, <1>3 DEF GateInv, FaultsCounted, StampsAreCounted, InOrder, Valid
<1>5. SameChange' /\ StoredIsNewest' /\ KeysTell'
  BY <1>1 DEF SameChange, StoredIsNewest, KeysTell
<1>6. AnsweringIsHeld' /\ TwiceWritten'
  BY <1>1, <1>2 DEF AnsweringIsHeld, TwiceWritten, Threads
<1>7. PromiseIsHeld' /\ BothCarry'
  BY <1>1, <1>2, <1>3 DEF GateInv, PromiseIsHeld, BothCarry, Carries, Valid
<1> QED  BY <1>4, <1>5, <1>6, <1>7 DEF GateInv

LEMMA CorruptionGateInv ==
  ASSUME TypedState, TypedState', GateInv, CorruptPrimary \/ CorruptBackup
  PROVE  GateInv'
<1>1. /\ UNCHANGED <<engine, flush, flushed, phase>>
      /\ Spend("faults")
      /\ Clean /\ ~Clean' /\ left'.faults <= 1
  BY FaultSpent DEF CorruptPrimary, CorruptBackup, Corrupted, memory
<1>2. /\ history'.changes = history.changes
      /\ history'.answering = history.answering
      /\ history'.promised = history.promised
  BY DEF CorruptPrimary, CorruptBackup, Corrupted, TypedState, TypeOK, HistoryType
<1>3. \/ Valid(primary) /\ primary' = Invalid /\ backup' = backup
      \/ Valid(backup) /\ backup' = Invalid /\ primary' = primary
  BY DEF CorruptPrimary, CorruptBackup, Corrupted
<1>4. history'.lost = FALSE => Valid(primary) /\ Valid(backup)
  <2> DEFINE either == history.lost \/ ~Valid(backup)
             other == history.lost \/ ~Valid(primary)
  <2>1. CASE CorruptPrimary
    <3>1. Valid(primary) /\ history'.lost = either
      BY <2>1 DEF CorruptPrimary, Corrupted, TypedState, TypeOK, HistoryType
    <3> QED  BY <3>1, Zenon
  <2>2. CASE CorruptBackup
    <3>1. Valid(backup) /\ history'.lost = other
      BY <2>2 DEF CorruptBackup, Corrupted, TypedState, TypeOK, HistoryType
    <3> QED  BY <3>1, Zenon
  <2> QED  BY <2>1, <2>2
<1>5. FaultsCounted' /\ BothCarry' /\ TwiceWritten' /\ StoredIsNewest' /\ KeysTell'
  BY <1>1 DEF FaultsCounted, BothCarry, TwiceWritten, StoredIsNewest, KeysTell
<1>6. (Valid(primary)' => Valid(primary) /\ primary' = primary) /\ (Valid(backup)' => Valid(backup) /\ backup' = backup)
  BY <1>3 DEF Valid
<1>7. StampsAreCounted' /\ SameChange' /\ AnsweringIsHeld'
  BY <1>1, <1>2, <1>6 DEF GateInv, StampsAreCounted, InOrder, SameChange, AnsweringIsHeld, Writing, Up
<1>8. PromiseIsHeld'
  <2> SUFFICES ASSUME history'.lost = FALSE PROVE PromiseIsHeld'
    BY DEF PromiseIsHeld
  <2>1. /\ Valid(primary) /\ Valid(backup) /\ Carries(primary) /\ Carries(backup)
        /\ history.lost = FALSE
    BY <1>1, <1>4 DEF GateInv, BothCarry, FaultsCounted
  <2>2. Kept' = primary.engine.gate.stamp \/ Kept' = backup.engine.gate.stamp
    BY <1>3, <2>1 DEF Kept, Newest, Valid
  <2>3. (AlreadyFlushed' <=> AlreadyFlushed) /\ (Up' <=> Up)
    BY <1>1 DEF AlreadyFlushed, Up
  <2> QED  BY <1>1, <1>2, <2>1, <2>2, <2>3 DEF GateInv, PromiseIsHeld, Carries, Writing
<1> QED  BY <1>5, <1>7, <1>8 DEF GateInv

(* The gate that the next process starts from. *)
LEMMA RestartedGate ==
  ASSUME TypedState, GateInv, NEW now \in Instants, Restart(now)
  PROVE  /\ Valid(Newest) => engine'.gate = Newest.engine.gate
         /\ ~Valid(Newest) => engine'.gate = FreshGate
         /\ SameKey(stored', engine'.gate)
         /\ engine'.stamp <= history'.changes /\ history.changes <= history'.changes
         /\ engine'.stamp = history.changes + 1 \/ (Valid(primary) /\ engine'.stamp = primary.engine.stamp)
              \/ (~Valid(primary) /\ ~Valid(backup))
         /\ history'.answering = history.answering
         /\ history'.promised = history.promised
         /\ history'.lost = history.lost
<1>1. CASE RestartTrusted(now)
  <2>1. primary \in RecordType /\ history' = history /\ Valid(primary)
    BY <1>1 DEF RestartTrusted, Valid, TypedState, TypeOK, FileType
  <2>2. engine'.stamp = primary.engine.stamp /\ engine'.gate = primary.engine.gate
    <3> DEFINE values == [v \in Values |-> Restored(primary.engine.value[v], primary.engine.applied[v],
                                                    primary.persistedAt, now)]
               darker == [v \in Values |-> Darker(primary.engine.applied[v], primary.engine.value[v].target)]
               settled == [v \in Values |-> Settled(darker[v])]
    <3>1. CASE KeyPlausible(primary.engine)
      <4>1. engine' = [primary.engine EXCEPT !.value = values]
        BY <1>1, <3>1 DEF RestartTrusted, RestoredEngine
      <4> HIDE DEF values
      <4> QED  BY <2>1, <4>1 DEF RecordType, EngineType
    <3>2. CASE ~KeyPlausible(primary.engine)
      <4>1. engine' = [FreshEngine EXCEPT !.stamp = primary.engine.stamp, !.gate = primary.engine.gate,
                                          !.applied = darker, !.value = settled]
        BY <1>1, <3>2 DEF RestartTrusted, RestoredEngine
      <4> HIDE DEF darker, settled
      <4> QED  BY <4>1, FreshEngineTyped DEF EngineType
    <3> QED  BY <3>1, <3>2
  <2>3. SameKey(stored', primary.engine.gate)
    BY <1>1 DEF RestartTrusted, Remembers, SameKey
  <2>4. primary.engine.stamp <= history.changes
    BY <2>1 DEF GateInv, StampsAreCounted, InOrder
  <2> QED  BY <2>1, <2>2, <2>3, <2>4, GateNumbers DEF Newest
<1>2. CASE RestartFromBackup(now) \/ RestartUnreadable(now)
  <2>1. PICK gate \in GateType :
          /\ Change(SettledEngine(gate, now))
          /\ Remembers(gate)
          /\ gate = IF Valid(backup) THEN backup.engine.gate ELSE FreshGate
    <3>1. Valid(backup) => backup.engine.gate \in GateType
      BY GateNumbers
    <3> QED  BY <1>2, <3>1, FreshEngineTyped DEF RestartFromBackup, RestartUnreadable
  <2>2. ~Valid(primary)
    BY <1>2 DEF RestartFromBackup, RestartUnreadable
  <2>3. engine'.gate = gate /\ engine'.stamp = history.changes + 1
    <3> DEFINE values == [v \in Values |-> Settled(IF v = "ceiling" THEN SafeCeiling ELSE Full)]
               levels == [v \in Values |-> IF v = "ceiling" THEN SafeCeiling ELSE Full]
    <3>1. SettledEngine(gate, now)
            = [FreshEngine EXCEPT !.value = values, !.applied = levels, !.gate = gate, !.revision = 1,
                                  !.changedAt = Later(now, 1), !.stamp = NextStamp]
      BY DEF SettledEngine
    <3>2. engine' = SettledEngine(gate, now)
      BY <2>1, Counted
    <3> HIDE DEF values, levels
    <3> QED  BY <3>1, <3>2, FreshEngineTyped DEF EngineType, NextStamp
  <2>4. SameKey(stored', gate)
    BY <2>1 DEF Remembers, SameKey
  <2>5. history'.changes = history.changes + 1
        /\ history'.answering = history.answering
        /\ history'.promised = history.promised
        /\ history'.lost = history.lost
    BY <2>1, Counted
  <2> QED  BY <2>1, <2>2, <2>3, <2>4, <2>5, GateNumbers DEF Newest
<1>3. CASE RestartFirst(now)
  <2>1. ~Valid(primary) /\ ~Valid(backup) /\ engine' = FreshEngine /\ history' = history
    BY <1>3 DEF RestartFirst, Valid
  <2>2. SameKey(stored', FreshGate)
    BY <1>3 DEF RestartFirst, Remembers, SameKey
  <2>3. engine'.gate = FreshGate /\ engine'.stamp = 0
    BY <2>1 DEF FreshEngine
  <2> QED  BY <2>1, <2>2, <2>3, GateNumbers DEF Newest
<1> QED  BY <1>1, <1>2, <1>3 DEF Restart

LEMMA RestartGateInv ==
  ASSUME TypedState, TypedState', FlushInv, FlushInv', GateInv, NEW now \in Instants, Restart(now)
  PROVE  GateInv'
<1>1. /\ UNCHANGED <<files, flush, flushed, left>>
      /\ ~Up /\ Up'
  BY DEF Restart, RestartTrusted, RestartFromBackup, RestartUnreadable, RestartFirst, Restarts, Up
<1>2. flushed = -1 /\ \A thread \in Threads : flush[thread].at = "idle"
  BY <1>1 DEF FlushInv, DownIsQuiet, Never
<1>3. \A thread \in Threads : ~Writing(thread)' /\ flush'[thread].at # "write"
  BY <1>1, <1>2 DEF Writing
<1>4. /\ primary' = primary /\ backup' = backup /\ Newest' = Newest /\ Kept' = Kept
      /\ Valid(primary)' <=> Valid(primary)
      /\ Valid(backup)' <=> Valid(backup)
      /\ Valid(Newest)' <=> Valid(Newest)
      /\ Clean' <=> Clean
  BY <1>1 DEF files, Newest, Kept, Clean, Valid
<1>5. ~AlreadyFlushed'
  <2>1. engine'.revision \in Nat
    BY DEF TypedState, TypeOK, EngineType
  <2> QED  BY <1>1, <1>2, <2>1 DEF AlreadyFlushed
<1>6. /\ Valid(Newest) => engine'.gate = Newest.engine.gate
      /\ ~Valid(Newest) => engine'.gate = FreshGate
      /\ SameKey(stored', engine'.gate)
      /\ engine'.stamp <= history'.changes /\ history.changes <= history'.changes
      /\ engine'.stamp = history.changes + 1 \/ (Valid(primary) /\ engine'.stamp = primary.engine.stamp)
           \/ (~Valid(primary) /\ ~Valid(backup))
      /\ history'.answering = history.answering
      /\ history'.promised = history.promised
      /\ history'.lost = history.lost
  BY RestartedGate
<1>7. engine'.gate.stamp = Kept
  BY <1>6 DEF Kept, FreshGate
<1>8. FaultsCounted'
  BY <1>1, <1>4, <1>6 DEF GateInv, FaultsCounted
<1>9. StampsAreCounted'
  <2>1. history'.changes \in Nat /\ engine'.stamp \in Nat
    BY DEF TypedState, TypeOK, HistoryType, EngineType
  <2>2. engine'.gate.stamp <= engine'.stamp
    <3>1. CASE Valid(primary) /\ engine'.stamp = primary.engine.stamp
      BY <1>6, <3>1 DEF GateInv, StampsAreCounted, InOrder, Newest
    <3>2. CASE ~Valid(primary) /\ ~Valid(backup)
      BY <1>7, <2>1, <3>2 DEF Kept, Newest
    <3>3. CASE engine'.stamp = history.changes + 1
      <4>1. Kept <= history.changes
        BY GateNumbers, GatesTyped DEF GateInv, StampsAreCounted, InOrder, Kept, Newest
      <4> QED  BY <1>7, <3>3, <4>1, GateNumbers
    <3> QED  BY <1>6, <3>1, <3>2, <3>3
  <2> QED  BY <1>3, <1>4, <1>6, <2>1, <2>2, GateNumbers DEF GateInv, StampsAreCounted, InOrder
<1>10. SameChange'
  <2>1. CASE Valid(primary) /\ engine'.stamp = primary.engine.stamp
    BY <1>3, <1>4, <1>6, <2>1 DEF SameChange, Newest
  <2>2. CASE ~Valid(primary) /\ ~Valid(backup)
    BY <1>3, <1>4, <2>2 DEF SameChange
  <2>3. CASE engine'.stamp = history.changes + 1
    BY <1>3, <1>4, <2>3, GateNumbers DEF GateInv, StampsAreCounted, InOrder, SameChange
  <2> QED  BY <1>6, <2>1, <2>2, <2>3
<1>11. AnsweringIsHeld'
  BY <1>1, <1>2, <1>3 DEF AnsweringIsHeld, Threads
<1>12. PromiseIsHeld'
  BY <1>3, <1>4, <1>5, <1>6, <1>7 DEF GateInv, PromiseIsHeld
<1>13. BothCarry' /\ TwiceWritten'
  BY <1>3, <1>4, <1>5, <1>6 DEF GateInv, BothCarry, Carries, TwiceWritten
<1>14. StoredIsNewest'
  BY <1>4, <1>6 DEF StoredIsNewest
<1>15. KeysTell'
  <2>1. engine'.gate \in GateType
    BY DEF TypedState, TypeOK, EngineType
  <2>2. Precedes(engine'.gate, engine'.gate) /\ Settles(engine'.gate, engine'.gate)
    BY <2>1, GatesTyped DEF Precedes, Settles
  <2> QED  BY <1>3, <1>4, <1>6, <2>2 DEF KeysTell
<1> QED  BY <1>8, <1>9, <1>10, <1>11, <1>12, <1>13, <1>14, <1>15 DEF GateInv

LEMMA NextGateInv ==
  ASSUME TypedState, FlushInv, WorkerInTurn, GateInv, [Next]_vars
  PROVE  GateInv'
<1>1. TypedState' /\ FlushInv'
  BY NextTyped, NextFlushInv
<1>2. CASE \E thread \in Threads : FlushStep(thread)
  BY <1>1, <1>2, SkipFlushGateInv, BeginFlushGateInv, RotateGateInv, RotationFailsGateInv, WriteOnceGateInv,
     WriteLastGateInv, WriteFailsGateInv DEF FlushStep
<1>3. CASE \E now \in Instants : Restart(now)
  BY <1>1, <1>3, RestartGateInv
<1> QED  BY <1>1, <1>2, <1>3, CommandGateInv, GateWrittenGateInv, AdoptStateGateInv, OtherGateInv, EndGateInv,
            CorruptionGateInv DEF Next

(* While there is at most one fault, the files carry every gate that was   *)
(* promised: GateInv is inductive.                                         *)
THEOREM GateInvariant ==
  ASSUME OneFault
  PROVE  Spec => [](TypedState /\ FlushInv /\ WorkerInTurn /\ GateInv)
<1> DEFINE Inv == TypedState /\ FlushInv /\ WorkerInTurn /\ GateInv
<1>1. Init => Inv
  <2>1. Init => WorkerInTurn
    BY DEF Init, WorkerInTurn, NotFlushing, Threads
  <2> QED  BY <2>1, InitTyped, InitFlushInv, InitGateInv
<1>2. Inv /\ [Next]_vars => Inv'
  BY NextTyped, NextFlushInv, NextWorkerInTurn, NextGateInv
<1> QED  BY <1>1, <1>2, PTL DEF Spec

(* A gate write that was answered survives every crash, stop and restart   *)
(* and whichever file operation fails or file is corrupted, once, unless   *)
(* the corrupted one had no other to stand in for it.                      *)
THEOREM AnsweredGateSurvives ==
  ASSUME OneFault
  PROVE  Spec => []GateNeverForgotten
<1>1. TypedState /\ GateInv => GateNeverForgotten
  <2> SUFFICES ASSUME TypedState, GateInv, Up, ~history.lost
               PROVE  engine.gate.stamp >= history.promised
    BY DEF GateNeverForgotten
  <2>1. history.lost = FALSE
    <3>1. history.lost \in BOOLEAN
      BY DEF TypedState, TypeOK, HistoryType
    <3> QED  BY <3>1, Zenon
  <2>2. history.promised <= engine.gate.stamp
    BY <2>1 DEF GateInv, PromiseIsHeld
  <2> QED  BY <2>2, GateNumbers, GatesTyped
<1> QED  BY <1>1, GateInvariant, PTL
=============================================================================
