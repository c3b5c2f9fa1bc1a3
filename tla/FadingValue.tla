----------------------------- MODULE FadingValue -----------------------------
(***************************************************************************)
(* One brightness value with its fade (native/include/showmesh/            *)
(* fading_value.h) and what becomes of it over a restart                   *)
(* (BrightnessEngine::restoreFromPersisted(), which treats the ceiling and *)
(* the gain alike, each by the operators below).                           *)
(*                                                                         *)
(* Levels and instants are natural numbers; the code interpolates in       *)
(* double, the model rounds down.  The window <<0, 0>> is the code's       *)
(* record of "no fade".                                                    *)
(***************************************************************************)
EXTENDS Integers

CONSTANTS
    Full,       \* kMaxPercent
    Earliest    \* kEarliestPlausibleEpochMillis

ASSUME LevelAssumption == Full \in Nat \ {0}

ASSUME EarliestAssumption == Earliest \in Nat \ {0}

Level == 0 .. Full

Fade == [start : Level, target : Level, from : Nat, to : Nat]

Darker(a, b) == IF a < b THEN a ELSE b

(* settle(), and a fade of no duration. *)
Settled(level) == [start |-> level, target |-> level, from |-> 0, to |-> 0]

Fading(fade) == fade.to > fade.from

Interpolated(fade, now) ==
    fade.start + ((fade.target - fade.start) * (now - fade.from)) \div (fade.to - fade.from)

ValueAt(fade, now) ==
    CASE ~Fading(fade) \/ now >= fade.to -> fade.target
      [] Fading(fade) /\ now <= fade.from -> fade.start
      [] OTHER -> Interpolated(fade, now)

(* A fade that replaces another begins at the level that one has reached. *)
FadeTo(fade, target, duration, now) ==
    IF duration = 0 THEN Settled(target)
    ELSE [start |-> ValueAt(fade, now), target |-> target, from |-> now, to |-> now + duration]

(* A scheduled fade; a window that is over, or empty, applies at once. *)
FadeBetween(fade, target, from, to, now) ==
    IF to <= now \/ to <= from THEN Settled(target)
    ELSE [start |-> ValueAt(fade, now), target |-> target,
          from |-> IF from < now THEN now ELSE from, to |-> to]
-----------------------------------------------------------------------------
(* classifyFadeWindow(): whether a fade was recorded, and one that can be. *)
NoWindow(fade) == fade.from = 0 /\ fade.to = 0

WindowPlausible(fade) == NoWindow(fade) \/ (Earliest <= fade.from /\ fade.from <= fade.to)

(* fadeTimingIsTrustworthy(): the clock has not moved behind the record. *)
TimingTrusted(fade, persistedAt, now) ==
    /\ fade.from < fade.to
    /\ fade.from <= now
    /\ persistedAt = 0 \/ persistedAt <= now

(* Plausible bug: a fade whose timing is trusted is resumed as it was. *)
ResumedAsRecorded(fade, applied, now) == fade

(* A resumed fade that is above the level last applied is anchored anew. *)
Resumed(fade, applied, now) ==
    CASE ValueAt(fade, now) <= applied -> fade
      [] ValueAt(fade, now) > applied /\ now < fade.to -> [fade EXCEPT !.start = applied, !.from = now]
      [] OTHER -> Settled(applied)

(* What a restart makes of a recorded value. *)
Restored(fade, applied, persistedAt, now) ==
    CASE NoWindow(fade) -> Settled(fade.target)
      [] WindowPlausible(fade) /\ TimingTrusted(fade, persistedAt, now) -> Resumed(fade, applied, now)
      [] OTHER -> Settled(Darker(applied, fade.target))
=============================================================================
