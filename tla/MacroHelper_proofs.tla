--------------------------- MODULE MacroHelper_proofs ---------------------------
(***************************************************************************)
(* Proofs about the Go helper's processes, for any number of processes,    *)
(* macros and attempts, whatever is killed, refused or lost.  The first    *)
(* part needs nothing of the failure buffer; the second keeps its ledger.  *)
(***************************************************************************)
EXTENDS MacroHelper, FunctionTheorems, FiniteSetTheorems, TLAPS

(* The shape of each record; of a process also the type of what it read.   *)
IsSlot(p) ==
    /\ p = [at |-> p.at, kind |-> p.kind, macro |-> p.macro, attempt |-> p.attempt,
            began |-> p.began, buffer |-> p.buffer, class |-> p.class,
            revision |-> p.revision, cache |-> p.cache]
    /\ p.macro \in Macros
    /\ p.revision \in Nat
    /\ p.cache \in [Macros -> Nat]

IsCentre(c) ==
    /\ c = [revision |-> c.revision, confirmed |-> c.confirmed, reported |-> c.reported,
            dropped |-> c.dropped]
    /\ c.revision \in [Macros -> Nat]

IsHistory(h) ==
    /\ h = [kept |-> h.kept, doubled |-> h.doubled, overlapped |-> h.overlapped,
            corrupted |-> h.corrupted, flushed |-> h.flushed]
    /\ h.overlapped \in BOOLEAN

Shaped ==
    /\ cache \in [Macros -> Nat]
    /\ records = [file \in Files |-> records[file]]
    /\ DOMAIN slots = Slots
    /\ slots = [s \in Slots |-> slots[s]]
    /\ \A s \in Slots : IsSlot(slots[s])
    /\ IsCentre(centre)
    /\ IsHistory(history)
    /\ left \in [Bounded -> Nat]
    /\ left["faults"] <= Budget["faults"]

(* At most one run at a time, unless runs overlapped; only a run refreshes,*)
(* flushes or keeps.                                                       *)
OneRun ==
    ~history.overlapped => \A s, t \in Slots : Running(s) /\ Running(t) => s = t

RunsOnly ==
    \A s \in Slots : slots[s].at \in {"refresh", "cache", "flush", "keep"} => slots[s].kind = "run"

(* A process that will record "ok" has the coordinator's word for it. *)
OkIsTaken ==
    \A s \in Slots : slots[s].class = "ok" => slots[s].attempt \in centre.confirmed

Inv == OneRun /\ RunsOnly /\ OkIsTaken /\ OkIsConfirmed /\ CacheFollowsRuns
-----------------------------------------------------------------------------
LEMMA SpendType ==
  ASSUME left \in [Bounded -> Nat], left["faults"] <= Budget["faults"],
         NEW what \in Bounded, Spend(what)
  PROVE  /\ left' \in [Bounded -> Nat]
         /\ left'["faults"] <= left["faults"]
         /\ left'["faults"] <= Budget["faults"]
         /\ what = "faults" => left'["faults"] # Budget["faults"]
<1> "faults" \in Bounded
  BY DEF Bounded
<1>1. /\ left' = [left EXCEPT ![what] = left[what] - 1]
      /\ left[what] \in Nat /\ left[what] > 0
      /\ left["faults"] \in Nat /\ Budget["faults"] \in Nat
  BY HelperAssumption DEF Spend
<1>2. left' \in [Bounded -> Nat]
  BY <1>1
<1>3. CASE what = "faults"
  <2>1. left'["faults"] = left["faults"] - 1
    BY <1>1, <1>3
  <2> QED  BY <1>1, <1>2, <2>1
<1>4. CASE what # "faults"
  <2>1. left'["faults"] = left["faults"]
    BY <1>1, <1>4
  <2> QED  BY <1>1, <1>2, <1>4, <2>1
<1> QED  BY <1>3, <1>4

LEMMA FreeIsSlot == IsSlot(Free) /\ Free.at = "free" /\ Free.class = "none"
<1> DEFINE some == CHOOSE m \in Macros : TRUE
           none == [m \in Macros |-> 0]
<1>1. some \in Macros /\ none \in [Macros -> Nat]
  BY HelperAssumption
<1>2. Free = [at |-> "free", kind |-> "run", macro |-> some, attempt |-> NoAttempt,
              began |-> 0, buffer |-> EmptyBuffer, class |-> "none",
              revision |-> 0, cache |-> none]
  BY DEF Free
<1> HIDE DEF some, none
<1> QED  BY <1>1, <1>2 DEF IsSlot

LEMMA InitShaped == Init => Shaped
<1> SUFFICES ASSUME Init PROVE Shaped
  OBVIOUS
<1> DEFINE none == [m \in Macros |-> 0]
           first == [m \in Macros |-> 1]
<1>1. none \in [Macros -> Nat] /\ first \in [Macros -> Nat]
  OBVIOUS
<1>2. IsCentre(centre)
  <2>1. centre = [revision |-> first, confirmed |-> {}, reported |-> {}, dropped |-> 0]
    BY DEF Init
  <2> HIDE DEF first
  <2> QED  BY <1>1, <2>1 DEF IsCentre
<1>3. IsHistory(history)
  BY DEF Init, IsHistory
<1>4. left \in [Bounded -> Nat] /\ left["faults"] <= Budget["faults"]
  <2> "faults" \in Bounded
    BY DEF Bounded
  <2> QED  BY HelperAssumption DEF Init
<1>5. /\ slots = [s \in Slots |-> slots[s]] /\ DOMAIN slots = Slots
      /\ \A s \in Slots : IsSlot(slots[s])
  BY FreeIsSlot DEF Init
<1>6. cache \in [Macros -> Nat] /\ records = [file \in Files |-> records[file]]
  BY <1>1 DEF Init
<1> QED  BY <1>2, <1>3, <1>4, <1>5, <1>6 DEF Shaped

(* A step of process s gives it another record and leaves the others. *)
Becomes(s, p) == slots' = [slots EXCEPT ![s] = p]

LEMMA BecomesShaped ==
  ASSUME Shaped, NEW s \in Slots, NEW p, IsSlot(p), Becomes(s, p)
  PROVE  /\ DOMAIN slots' = Slots
         /\ slots' = [t \in Slots |-> slots'[t]]
         /\ \A t \in Slots : IsSlot(slots'[t])
         /\ slots'[s] = p
         /\ \A t \in Slots \ {s} : slots'[t] = slots[t]
BY DEF Shaped, Becomes

LEMMA RecordsShaped ==
  ASSUME Shaped, NEW s \in Slots, NEW class, WriteRecord(s, class)
  PROVE  /\ records' = [file \in Files |-> records'[file]]
         /\ left' \in [Bounded -> Nat] /\ left'["faults"] <= left["faults"]
         /\ \A file \in Files :
               \/ records'[file] = records[file]
               \/ records'[file].class = class /\ records'[file].attempt = slots[s].attempt
<1> DEFINE record == [attempt |-> slots[s].attempt, class |-> class]
<1>1. CASE records' = [records EXCEPT ![FileOf(slots[s].kind)] = record] /\ UNCHANGED left
  <2>1. FileOf(slots[s].kind) \in Files
    BY DEF FileOf, Files
  <2>2. record.attempt = slots[s].attempt /\ record.class = class
    OBVIOUS
  <2>3. left["faults"] \in Nat /\ left \in [Bounded -> Nat]
    BY DEF Shaped, Bounded
  <2>4. records = [file \in Files |-> records[file]]
    BY DEF Shaped
  <2> HIDE DEF record
  <2> QED  BY <1>1, <2>1, <2>2, <2>3, <2>4
<1>2. CASE Spend("faults") /\ UNCHANGED records
  <2> "faults" \in Bounded
    BY DEF Bounded
  <2> QED  BY <1>2, SpendType DEF Shaped
<1> QED  BY <1>1, <1>2 DEF WriteRecord

LEMMA InitInv == Init => Inv
<1> SUFFICES ASSUME Init PROVE Inv
  OBVIOUS
<1>1. \A s \in Slots : slots[s] = Free
  BY DEF Init
<1>2. OneRun /\ RunsOnly /\ OkIsTaken /\ CacheFollowsRuns
  BY <1>1, FreeIsSlot DEF OneRun, RunsOnly, OkIsTaken, CacheFollowsRuns, Running, At
<1>3. OkIsConfirmed
  BY DEF Init, NoRecord, OkIsConfirmed
<1> QED  BY <1>2, <1>3 DEF Inv
-----------------------------------------------------------------------------
RunPoints == {"refresh", "cache", "flush", "keep"}

(* What the files, the coordinator and the budget do in any step. *)
WorldMoves ==
    /\ records' = [file \in Files |-> records'[file]]
    /\ IsCentre(centre') /\ centre.confirmed \subseteq centre'.confirmed
    /\ IsHistory(history') /\ (history.overlapped => history'.overlapped)
    /\ left' \in [Bounded -> Nat] /\ left'["faults"] <= left["faults"]

(* What a step of a process does, as far as these proofs need it. *)
Acts(s, p) ==
    /\ Becomes(s, p) /\ IsSlot(p)
    /\ WorldMoves
    /\ p.class = "ok" => p.attempt \in centre'.confirmed
    /\ p.at \in RunPoints => p.kind = "run"
    /\ p.at # "free" /\ p.kind = "run" =>
           \/ Running(s)
           \/ history'.overlapped
           \/ \A t \in Slots : ~Running(t)
    /\ \A file \in Files :
           \/ records'[file] = records[file]
           \/ records'[file].class = "ok" => records'[file].attempt \in centre'.confirmed
    /\ \/ cache' = cache
       \/ cache' \in [Macros -> Nat] /\ slots[s].at = "cache"
    /\ p.at = "flush" /\ left'["faults"] = Budget["faults"]
       => cache'[p.macro] >= p.revision

LEMMA ActsInv ==
  ASSUME Shaped, Inv, NEW s \in Slots, NEW p, Acts(s, p)
  PROVE  Shaped' /\ Inv'
<1>1. /\ DOMAIN slots' = Slots
      /\ slots' = [t \in Slots |-> slots'[t]]
      /\ \A t \in Slots : IsSlot(slots'[t])
      /\ slots'[s] = p
      /\ \A t \in Slots \ {s} : slots'[t] = slots[t]
  BY BecomesShaped DEF Acts
<1>2. /\ left["faults"] \in Nat /\ left'["faults"] \in Nat /\ Budget["faults"] \in Nat
      /\ left["faults"] <= Budget["faults"] /\ left'["faults"] <= left["faults"]
  BY HelperAssumption DEF Shaped, Acts, WorldMoves, Bounded
<1>3. Shaped'
  BY <1>1, <1>2 DEF Shaped, Acts, WorldMoves
<1>4. OneRun'
  <2> SUFFICES ASSUME ~history'.overlapped, NEW t \in Slots, NEW u \in Slots,
                      Running(t)', Running(u)'
               PROVE  t = u
    BY DEF OneRun
  <2>1. \A x \in Slots \ {s} : Running(x)' => Running(x)
    BY <1>1 DEF Running, At
  <2>2. Running(s)' => Running(s) \/ \A x \in Slots : ~Running(x)
    BY <1>1 DEF Acts, Running, At
  <2>3. ~history.overlapped
    BY DEF Acts, WorldMoves
  <2> QED  BY <2>1, <2>2, <2>3 DEF Inv, OneRun
<1>5. RunsOnly'
  BY <1>1 DEF Inv, RunsOnly, Acts, RunPoints
<1>6. OkIsTaken'
  BY <1>1 DEF Inv, OkIsTaken, Acts, WorldMoves
<1>7. OkIsConfirmed'
  BY DEF Inv, OkIsConfirmed, Acts, WorldMoves
<1>8. CacheFollowsRuns'
  <2> SUFFICES ASSUME NEW t \in Slots, slots'[t].at = "flush",
                      left'["faults"] = Budget["faults"], ~history'.overlapped
               PROVE  cache'[slots'[t].macro] >= slots'[t].revision
    BY DEF CacheFollowsRuns, At
  <2>1. CASE t = s
    BY <1>1, <2>1 DEF Acts
  <2>2. CASE t # s
    <3>1. slots'[t] = slots[t]
      BY <1>1, <2>2
    <3>2. left["faults"] = Budget["faults"] /\ ~history.overlapped
      BY <1>2 DEF Acts, WorldMoves
    <3>3. slots[s].at # "cache"
      BY <2>2, <3>1, <3>2 DEF Inv, RunsOnly, OneRun, Running, At
    <3>4. cache' = cache
      BY <3>3 DEF Acts
    <3> QED  BY <3>1, <3>2, <3>4 DEF Inv, CacheFollowsRuns, At
  <2> QED  BY <2>1, <2>2
<1> QED  BY <1>3, <1>4, <1>5, <1>6, <1>7, <1>8 DEF Inv

(* Three ways a process goes on: at another point with the same record     *)
(* otherwise, with a class and a revision, and free again.                 *)
LEMMA MovedSlot ==
  ASSUME Shaped, NEW s \in Slots, NEW point
  PROVE  LET p == [slots[s] EXCEPT !.at = point]
         IN  /\ IsSlot(p) /\ p.at = point /\ p.kind = slots[s].kind
             /\ p.class = slots[s].class /\ p.attempt = slots[s].attempt
             /\ p.macro = slots[s].macro /\ p.revision = slots[s].revision
BY DEF Shaped, IsSlot

LEMMA GotoBecomes ==
  ASSUME Shaped, NEW s \in Slots, NEW point, Goto(s, point)
  PROVE  Becomes(s, [slots[s] EXCEPT !.at = point])
BY DEF Goto, Becomes, Shaped

LEMMA FreedSlot ==
  ASSUME Shaped, NEW s \in Slots, slots' = [slots EXCEPT ![s] = Free], WorldMoves,
         \A file \in Files :
             \/ records'[file] = records[file]
             \/ records'[file].class = "ok" => records'[file].attempt \in centre'.confirmed,
         UNCHANGED cache
  PROVE  Acts(s, Free)
BY FreeIsSlot DEF Acts, Becomes, RunPoints

LEMMA LeftMoves ==
  ASSUME Shaped, UNCHANGED left \/ \E what \in Bounded : Spend(what)
  PROVE  left' \in [Bounded -> Nat] /\ left'["faults"] <= left["faults"]
<1> left["faults"] \in Nat
  BY DEF Shaped, Bounded
<1> QED  BY SpendType DEF Shaped

LEMMA CentreTaken ==
  ASSUME Shaped, NEW s \in Slots, Taken(s)
  PROVE  /\ IsCentre(centre') /\ centre.confirmed \subseteq centre'.confirmed
         /\ slots[s].attempt \in centre'.confirmed
<1> DEFINE confirmed == centre.confirmed \union {slots[s].attempt}
           reported == centre.reported \union
               IF slots[s].kind = "run" THEN Ids(slots[s].buffer.failures) ELSE {}
           dropped == centre.dropped + IF slots[s].kind = "run" THEN slots[s].buffer.dropped ELSE 0
<1>1. centre' = [centre EXCEPT !.confirmed = confirmed, !.reported = reported,
                               !.dropped = dropped]
  BY DEF Taken
<1>2. centre'.confirmed = confirmed /\ IsCentre(centre')
  <2> HIDE DEF confirmed, reported, dropped
  <2> QED  BY <1>1 DEF Shaped, IsCentre
<1> QED  BY <1>2

LEMMA ClassifiedSlot ==
  ASSUME Shaped, NEW s \in Slots, NEW point, NEW class, Classified(s, point, class),
         point \in {"record", "refresh"}, point = "refresh" => slots[s].kind = "run",
         ~At(s, "free")
  PROVE  \E p : /\ Becomes(s, p) /\ IsSlot(p)
                /\ p.at = point /\ p.class = class
                /\ p.kind = slots[s].kind /\ p.attempt = slots[s].attempt
                /\ p.at \in RunPoints => p.kind = "run"
                /\ p.kind = "run" => Running(s)
<1> DEFINE revision == centre.revision[slots[s].macro]
           p == [slots[s] EXCEPT !.at = point, !.class = class, !.revision = revision]
<1>1. revision \in Nat
  BY DEF Shaped, IsSlot, IsCentre
<1>2. Becomes(s, p)
  BY DEF Classified, Becomes, Shaped
<1>3. /\ IsSlot(p) /\ p.at = point /\ p.class = class
      /\ p.kind = slots[s].kind /\ p.attempt = slots[s].attempt
  <2> DEFINE q == slots[s]
  <2>1. IsSlot(q)
    BY DEF Shaped
  <2>2. p = [q EXCEPT !.at = point, !.class = class, !.revision = revision]
    OBVIOUS
  <2> HIDE DEF revision, q, p
  <2>3. p = [at |-> point, kind |-> q.kind, macro |-> q.macro, attempt |-> q.attempt,
             began |-> q.began, buffer |-> q.buffer, class |-> class,
             revision |-> revision, cache |-> q.cache]
    BY <2>1, <2>2 DEF IsSlot
  <2>4. IsSlot(p) /\ p.at = point /\ p.class = class
        /\ p.kind = q.kind /\ p.attempt = q.attempt
    BY <1>1, <2>1, <2>3 DEF IsSlot
  <2> QED  BY <2>4 DEF q
<1> HIDE DEF p
<1> QED  BY <1>2, <1>3 DEF RunPoints, Running, At

LEMMA BeginStep ==
  ASSUME Shaped, Inv, NEW s \in Slots, BeginRun(s) \/ BeginAction(s) \/ BeginNight(s)
  PROVE  Shaped' /\ Inv'
<1> DEFINE any == \E t \in Slots : Running(t)
<1>1. ASSUME NEW kind \in Kinds, NEW macro \in Macros, NEW buffer,
             Begins(s, kind, macro, buffer), IsHistory(history'),
             history.overlapped => history'.overlapped,
             kind = "run" => history'.overlapped \/ \A t \in Slots : ~Running(t)
      PROVE  Shaped' /\ Inv'
  <2> DEFINE attempt == Budget["attempts"] - left'["attempts"]
  <2>1. PICK point \in {"submit", "localError"} :
            slots' = [slots EXCEPT ![s] =
               [Free EXCEPT !.at = point, !.kind = kind, !.macro = macro, !.began = now,
                            !.attempt = attempt, !.buffer = buffer]]
    BY <1>1 DEF Begins
  <2> DEFINE p == [Free EXCEPT !.at = point, !.kind = kind, !.macro = macro, !.began = now,
                               !.attempt = attempt, !.buffer = buffer]
  <2>2. IsSlot(p) /\ p.at = point /\ p.kind = kind /\ p.class = "none"
    <3> HIDE DEF attempt
    <3>0. p = [Free EXCEPT !.at = point, !.kind = kind, !.macro = macro, !.began = now,
                           !.attempt = attempt, !.buffer = buffer]
      OBVIOUS
    <3>1. p = [at |-> point, kind |-> kind, macro |-> macro, attempt |-> attempt,
               began |-> now, buffer |-> buffer, class |-> Free.class,
               revision |-> Free.revision, cache |-> Free.cache]
      <4> HIDE DEF p
      <4> QED  BY <3>0, FreeIsSlot DEF IsSlot
    <3> HIDE DEF p
    <3> QED  BY <1>1, <3>1, FreeIsSlot DEF IsSlot
  <2>3. /\ left' \in [Bounded -> Nat] /\ left'["faults"] <= left["faults"]
        /\ UNCHANGED <<cache, records, centre>>
    BY <1>1, LeftMoves DEF Begins, Bounded
  <2>4. WorldMoves
    BY <1>1, <2>3 DEF WorldMoves, Shaped
  <2>5. Becomes(s, p)
    BY <2>1 DEF Becomes
  <2>6. Acts(s, p)
    <3> HIDE DEF p
    <3> QED  BY <1>1, <2>2, <2>3, <2>4, <2>5 DEF Acts, RunPoints
  <2> HIDE DEF p
  <2> QED  BY <2>6, ActsInv
<1>2. CASE BeginRun(s)
  <2> DEFINE overlapped == history.overlapped \/ any
  <2>1. PICK macro \in Macros : Begins(s, "run", macro, PrunedByAge(Loaded, now))
    BY <1>2 DEF BeginRun
  <2>2. history' = [history EXCEPT !.overlapped = overlapped]
    BY <1>2 DEF BeginRun
  <2>3. overlapped \in BOOLEAN
    OBVIOUS
  <2>4. IsHistory(history') /\ history'.overlapped = overlapped
    <3> HIDE DEF overlapped
    <3> QED  BY <2>2, <2>3 DEF Shaped, IsHistory
  <2>5. /\ history.overlapped => history'.overlapped
        /\ history'.overlapped \/ \A t \in Slots : ~Running(t)
    BY <2>4
  <2>6. "run" \in Kinds
    BY DEF Kinds
  <2> QED  BY <1>1, <2>1, <2>4, <2>5, <2>6
<1>3. CASE BeginAction(s) \/ BeginNight(s)
  <2>1. /\ Free.macro \in Macros /\ "action" \in Kinds /\ "night" \in Kinds
        /\ IsHistory(history')
        /\ UNCHANGED history
    BY <1>3, FreeIsSlot DEF Kinds, IsSlot, BeginAction, BeginNight, Shaped
  <2> QED  BY <1>1, <1>3, <2>1 DEF BeginAction, BeginNight
<1> QED  BY <1>2, <1>3

(* The end of a request. *)
LEMMA AnswerStep ==
  ASSUME Shaped, Inv, NEW s \in Slots,
         RunAccepted(s) \/ ActionAnswered(s) \/ CommandAnswered(s)
             \/ Declined(s) \/ AnswerLost(s) \/ Unconfirmed(s)
  PROVE  Shaped' /\ Inv'
<1>1. /\ At(s, "submit") /\ ~At(s, "free")
      /\ UNCHANGED <<cache, records>>
      /\ UNCHANGED left \/ Spend("faults")
  BY DEF RunAccepted, ActionAnswered, CommandAnswered, Declined, AnswerLost, Unconfirmed, At
<1>2. left' \in [Bounded -> Nat] /\ left'["faults"] <= left["faults"]
  BY <1>1, LeftMoves DEF Bounded
<1>3. IsHistory(history') /\ (history.overlapped => history'.overlapped)
  BY DEF RunAccepted, ActionAnswered, CommandAnswered, Declined, AnswerLost, Unconfirmed,
     Shaped, IsHistory
<1>4. ASSUME NEW point, NEW class, Classified(s, point, class), point \in {"record", "refresh"},
             point = "refresh" => slots[s].kind = "run",
             IsCentre(centre'), centre.confirmed \subseteq centre'.confirmed,
             class = "ok" => slots[s].attempt \in centre'.confirmed
      PROVE  Shaped' /\ Inv'
  <2>1. PICK p : /\ Becomes(s, p) /\ IsSlot(p)
                 /\ p.at = point /\ p.class = class
                 /\ p.kind = slots[s].kind /\ p.attempt = slots[s].attempt
                 /\ p.at \in RunPoints => p.kind = "run"
                 /\ p.kind = "run" => Running(s)
    BY <1>1, <1>4, ClassifiedSlot
  <2>2. WorldMoves
    BY <1>1, <1>2, <1>3, <1>4 DEF WorldMoves, Shaped
  <2>3. Acts(s, p)
    BY <1>1, <1>4, <2>1, <2>2 DEF Acts
  <2> QED  BY <2>3, ActsInv
<1>5. CASE RunAccepted(s)
  BY <1>4, <1>5, CentreTaken DEF RunAccepted
<1>6. CASE ActionAnswered(s)
  BY <1>4, <1>6, CentreTaken DEF ActionAnswered
<1>7. CASE CommandAnswered(s)
  BY <1>4, <1>7, CentreTaken DEF CommandAnswered
<1>8. CASE Declined(s)
  <2>1. PICK class \in {"refused", "rejected", "unreachable"} : Classified(s, "record", class)
    BY <1>8 DEF Declined
  <2>2. UNCHANGED centre /\ IsCentre(centre')
    BY <1>8 DEF Declined, Shaped
  <2> QED  BY <1>4, <2>1, <2>2
<1>9. CASE AnswerLost(s)
  BY <1>4, <1>9, CentreTaken DEF AnswerLost
<1>10. CASE Unconfirmed(s)
  <2>1. Classified(s, "record", "unreachable")
    BY <1>10 DEF Unconfirmed, ClassOfUnconfirmed
  <2>2. UNCHANGED centre /\ IsCentre(centre')
    BY <1>10 DEF Unconfirmed, Shaped
  <2> QED  BY <1>4, <2>1, <2>2
<1> QED  BY <1>5, <1>6, <1>7, <1>8, <1>9, <1>10

(* The cache and the failure buffer are looked after. *)
LEMMA RefreshStep ==
  ASSUME Shaped, Inv, NEW s \in Slots, Refresh(s)
  PROVE  Shaped' /\ Inv'
<1>1. /\ At(s, "refresh") /\ slots[s].kind = "run" /\ Running(s)
      /\ UNCHANGED <<cache, records, centre, history>>
  BY DEF Refresh, Inv, RunsOnly, At, Running
<1>2. UNCHANGED left \/ Spend("faults")
  BY DEF Refresh
<1>3. WorldMoves
  BY <1>1, <1>2, LeftMoves DEF WorldMoves, Shaped, Bounded
<1>4. CASE Goto(s, "flush") /\ (Fresh(s) \/ Spend("faults"))
  <2> DEFINE p == [slots[s] EXCEPT !.at = "flush"]
  <2>1. /\ IsSlot(p) /\ p.at = "flush" /\ p.kind = slots[s].kind
        /\ p.class = slots[s].class /\ p.attempt = slots[s].attempt
        /\ p.macro = slots[s].macro /\ p.revision = slots[s].revision
    BY MovedSlot
  <2>2. Becomes(s, p)
    BY <1>4, GotoBecomes
  <2> HIDE DEF p
  <2>3. left'["faults"] = Budget["faults"] => cache[p.macro] >= p.revision
    <3>1. CASE Fresh(s)
      <4>1. cache[p.macro] = p.revision /\ p.revision \in Nat
        BY <2>1, <3>1 DEF Fresh, IsSlot
      <4> QED  BY <4>1
    <3>2. CASE Spend("faults")
      BY <3>2, SpendType DEF Shaped, Bounded
    <3> QED  BY <1>4, <3>1, <3>2
  <2>4. p.class = "ok" => p.attempt \in centre'.confirmed
    BY <1>1, <2>1 DEF Inv, OkIsTaken
  <2>5. Acts(s, p)
    BY <1>1, <1>3, <2>1, <2>2, <2>3, <2>4 DEF Acts
  <2> QED  BY <2>5, ActsInv
<1>5. CASE slots' = [slots EXCEPT ![s].at = "cache", ![s].cache = cache,
                                  ![s].revision = centre.revision[slots[s].macro]]
  <2> DEFINE q == slots[s]
             revision == centre.revision[q.macro]
             p == [q EXCEPT !.at = "cache", !.cache = cache, !.revision = revision]
  <2>1. IsSlot(q) /\ revision \in Nat /\ cache \in [Macros -> Nat]
    BY DEF Shaped, IsSlot, IsCentre
  <2>2. Becomes(s, p)
    BY <1>5 DEF Becomes, Shaped
  <2>3. p = [at |-> "cache", kind |-> q.kind, macro |-> q.macro, attempt |-> q.attempt,
             began |-> q.began, buffer |-> q.buffer, class |-> q.class,
             revision |-> revision, cache |-> cache]
    <3>1. p = [q EXCEPT !.at = "cache", !.cache = cache, !.revision = revision]
      OBVIOUS
    <3> HIDE DEF q, revision, p
    <3> QED  BY <2>1, <3>1 DEF IsSlot
  <2>4. q.class = "ok" => q.attempt \in centre'.confirmed
    BY <1>1 DEF Inv, OkIsTaken
  <2>5. q.kind = "run"
    BY <1>1
  <2> HIDE DEF p, q, revision
  <2>6. IsSlot(p) /\ p.at = "cache" /\ p.kind = "run" /\ p.class = q.class
        /\ p.attempt = q.attempt
    BY <2>1, <2>3, <2>5 DEF IsSlot
  <2>7. Acts(s, p)
    BY <1>1, <1>3, <2>2, <2>4, <2>6 DEF Acts
  <2> QED  BY <2>7, ActsInv
<1> QED  BY <1>4, <1>5 DEF Refresh

LEMMA StoreCacheStep ==
  ASSUME Shaped, Inv, NEW s \in Slots, StoreCache(s)
  PROVE  Shaped' /\ Inv'
<1> DEFINE p == [slots[s] EXCEPT !.at = "flush"]
<1>1. /\ slots[s].at = "cache" /\ slots[s].kind = "run" /\ Running(s)
      /\ UNCHANGED <<records, centre, history>> /\ Goto(s, "flush")
  BY DEF StoreCache, Inv, RunsOnly, At, Running
<1>2. UNCHANGED left \/ Spend("faults")
  BY DEF StoreCache
<1>3. WorldMoves
  BY <1>1, <1>2, LeftMoves DEF WorldMoves, Shaped, Bounded
<1>4. /\ IsSlot(p) /\ p.at = "flush" /\ p.kind = slots[s].kind
      /\ p.class = slots[s].class /\ p.attempt = slots[s].attempt
      /\ p.macro = slots[s].macro /\ p.revision = slots[s].revision
  BY MovedSlot
<1>5. Becomes(s, p)
  BY <1>1, GotoBecomes
<1> HIDE DEF p
<1>6. /\ cache' \in [Macros -> Nat]
      /\ left'["faults"] = Budget["faults"] => cache'[p.macro] >= p.revision
  <2>1. CASE cache' = [slots[s].cache EXCEPT ![slots[s].macro] = slots[s].revision]
    <3>1. /\ slots[s].cache \in [Macros -> Nat] /\ slots[s].macro \in Macros
          /\ slots[s].revision \in Nat
      BY DEF Shaped, IsSlot
    <3>2. cache'[p.macro] = p.revision /\ p.revision \in Nat
      BY <1>4, <2>1, <3>1
    <3> QED  BY <2>1, <3>1, <3>2
  <2>2. CASE Spend("faults") /\ UNCHANGED cache
    BY <2>2, SpendType DEF Shaped, Bounded
  <2> QED  BY <2>1, <2>2 DEF StoreCache
<1>7. p.class = "ok" => p.attempt \in centre'.confirmed
  BY <1>1, <1>4 DEF Inv, OkIsTaken
<1>8. Acts(s, p)
  BY <1>1, <1>3, <1>4, <1>5, <1>6, <1>7 DEF Acts
<1> QED  BY <1>8, ActsInv

LEMMA FlushStep ==
  ASSUME Shaped, Inv, NEW s \in Slots, Flush(s)
  PROVE  Shaped' /\ Inv'
<1> DEFINE p == [slots[s] EXCEPT !.at = "record"]
<1>1. /\ slots[s].at = "flush" /\ slots[s].kind = "run" /\ Running(s)
      /\ UNCHANGED <<cache, records, centre>> /\ Goto(s, "record")
  BY DEF Flush, Inv, RunsOnly, At, Running
<1>2. UNCHANGED left \/ Spend("faults")
  BY DEF Flush
<1>3. IsHistory(history') /\ history'.overlapped = history.overlapped
  BY DEF Flush, Shaped, IsHistory
<1>4. WorldMoves
  BY <1>1, <1>2, <1>3, LeftMoves DEF WorldMoves, Shaped, Bounded
<1>5. /\ IsSlot(p) /\ p.at = "record" /\ p.kind = slots[s].kind
      /\ p.class = slots[s].class /\ p.attempt = slots[s].attempt
  BY MovedSlot
<1>6. Becomes(s, p)
  BY <1>1, GotoBecomes
<1> HIDE DEF p
<1>7. p.class = "ok" => p.attempt \in centre'.confirmed
  BY <1>1, <1>5 DEF Inv, OkIsTaken
<1>8. Acts(s, p)
  BY <1>1, <1>4, <1>5, <1>6, <1>7 DEF Acts
<1> QED  BY <1>8, ActsInv

(* What a process records as ok, the coordinator has taken. *)
LEMMA WrittenRecord ==
  ASSUME Shaped, Inv, NEW s \in Slots, NEW class, WriteRecord(s, class),
         UNCHANGED <<centre, history>>,
         class = "ok" => slots[s].attempt \in centre.confirmed
  PROVE  /\ WorldMoves
         /\ \A file \in Files :
               \/ records'[file] = records[file]
               \/ records'[file].class = "ok" => records'[file].attempt \in centre'.confirmed
<1>1. /\ records' = [file \in Files |-> records'[file]]
      /\ left' \in [Bounded -> Nat] /\ left'["faults"] <= left["faults"]
      /\ \A file \in Files :
            \/ records'[file] = records[file]
            \/ records'[file].class = class /\ records'[file].attempt = slots[s].attempt
  BY RecordsShaped
<1>2. WorldMoves
  BY <1>1 DEF WorldMoves, Shaped
<1> QED  BY <1>1, <1>2

LEMMA RecordStep ==
  ASSUME Shaped, Inv, NEW s \in Slots,
         LocalError(s) \/ RecordRun(s) \/ RecordAction(s) \/ RecordNight(s)
  PROVE  Shaped' /\ Inv'
<1>1. PICK class : /\ WriteRecord(s, class)
                   /\ class = "local_error" \/ class = slots[s].class
  BY DEF LocalError, RecordRun, RecordAction, RecordNight
<1>2. /\ slots' = [slots EXCEPT ![s] = Free]
      /\ UNCHANGED <<cache, centre, history>>
  BY DEF LocalError, RecordRun, RecordAction, RecordNight
<1>3. class = "ok" => slots[s].attempt \in centre.confirmed
  BY <1>1 DEF Inv, OkIsTaken
<1>4. Acts(s, Free)
  BY <1>1, <1>2, <1>3, WrittenRecord, FreedSlot
<1> QED  BY <1>4, ActsInv

LEMMA RecordDegradedStep ==
  ASSUME Shaped, Inv, NEW s \in Slots, RecordDegraded(s)
  PROVE  Shaped' /\ Inv'
<1> DEFINE p == [slots[s] EXCEPT !.at = "keep"]
<1>1. /\ slots[s].at = "record" /\ slots[s].kind = "run" /\ Running(s)
      /\ slots[s].class # "ok"
      /\ UNCHANGED <<cache, centre, history>> /\ Goto(s, "keep")
      /\ WriteRecord(s, slots[s].class)
  BY DEF RecordDegraded, At, Running
<1>2. /\ WorldMoves
      /\ \A file \in Files :
            \/ records'[file] = records[file]
            \/ records'[file].class = "ok" => records'[file].attempt \in centre'.confirmed
  BY <1>1, WrittenRecord
<1>3. /\ IsSlot(p) /\ p.at = "keep" /\ p.kind = slots[s].kind
      /\ p.class = slots[s].class /\ p.attempt = slots[s].attempt
  BY MovedSlot
<1>4. Becomes(s, p)
  BY <1>1, GotoBecomes
<1> HIDE DEF p
<1>5. Acts(s, p)
  BY <1>1, <1>2, <1>3, <1>4 DEF Acts
<1> QED  BY <1>5, ActsInv

LEMMA KeepStep ==
  ASSUME Shaped, Inv, NEW s \in Slots, Keep(s)
  PROVE  Shaped' /\ Inv'
<1>1. /\ slots' = [slots EXCEPT ![s] = Free]
      /\ UNCHANGED <<cache, records, centre>>
      /\ UNCHANGED left \/ Spend("faults")
  BY DEF Keep
<1>2. IsHistory(history') /\ history'.overlapped = history.overlapped
  <2> DEFINE kept == history.kept \union {slots[s].attempt}
  <2>1. UNCHANGED history \/ history' = [history EXCEPT !.kept = kept]
    BY DEF Keep
  <2> HIDE DEF kept
  <2> QED  BY <2>1 DEF Shaped, IsHistory
<1>3. WorldMoves
  BY <1>1, <1>2, LeftMoves DEF WorldMoves, Shaped, Bounded
<1>4. Acts(s, Free)
  BY <1>1, <1>3, FreedSlot
<1> QED  BY <1>4, ActsInv

LEMMA KilledStep ==
  ASSUME Shaped, Inv, NEW s \in Slots, Killed(s)
  PROVE  Shaped' /\ Inv'
<1>1. /\ slots' = [slots EXCEPT ![s] = Free]
      /\ UNCHANGED <<cache, records, centre>> /\ Spend("kills")
  BY DEF Killed
<1>2. IsHistory(history') /\ history'.overlapped = history.overlapped
  <2> DEFINE doubled == history.doubled \/ slots[s].attempt \in centre.confirmed
  <2>1. history' = [history EXCEPT !.doubled = doubled]
    BY DEF Killed
  <2> HIDE DEF doubled
  <2> QED  BY <2>1 DEF Shaped, IsHistory
<1>3. WorldMoves
  BY <1>1, <1>2, LeftMoves DEF WorldMoves, Shaped, Bounded
<1>4. Acts(s, Free)
  BY <1>1, <1>3, FreedSlot
<1> QED  BY <1>4, ActsInv

(* What no process does, and what changes nothing. *)
LEMMA WorldStep ==
  ASSUME Shaped, Inv, Corrupts \/ Tick \/ EditMacro \/ UNCHANGED vars
  PROVE  Shaped' /\ Inv'
<1>1. /\ UNCHANGED <<cache, records, slots>>
      /\ UNCHANGED left \/ \E what \in Bounded : Spend(what)
  BY DEF Corrupts, Tick, EditMacro, vars, Bounded
<1>2. IsHistory(history') /\ history'.overlapped = history.overlapped
  BY DEF Corrupts, Tick, EditMacro, vars, Shaped, IsHistory
<1>3. IsCentre(centre') /\ centre'.confirmed = centre.confirmed
  <2>1. CASE UNCHANGED centre
    BY <2>1 DEF Shaped
  <2>2. CASE EditMacro
    <3>1. PICK m \in Macros : centre' = [centre EXCEPT !.revision[m] = @ + 1]
      BY <2>2 DEF EditMacro
    <3> DEFINE revision == [centre.revision EXCEPT ![m] = centre.revision[m] + 1]
    <3>2. centre' = [centre EXCEPT !.revision = revision] /\ revision \in [Macros -> Nat]
      BY <3>1 DEF Shaped, IsCentre
    <3> HIDE DEF revision
    <3> QED  BY <3>2 DEF Shaped, IsCentre
  <2> QED  BY <2>1, <2>2 DEF Corrupts, Tick, vars
<1>4. left' \in [Bounded -> Nat] /\ left'["faults"] <= left["faults"]
  BY <1>1, LeftMoves
<1>5. /\ left["faults"] \in Nat /\ left'["faults"] \in Nat /\ Budget["faults"] \in Nat
      /\ left["faults"] <= Budget["faults"]
  BY <1>4, HelperAssumption DEF Shaped, Bounded
<1>6. Shaped'
  BY <1>1, <1>2, <1>3, <1>4, <1>5 DEF Shaped
<1>7. OneRun' /\ RunsOnly' /\ OkIsTaken' /\ OkIsConfirmed'
  BY <1>1, <1>2, <1>3 DEF Inv, OneRun, RunsOnly, OkIsTaken, OkIsConfirmed, Running, At
<1>8. CacheFollowsRuns'
  BY <1>1, <1>2, <1>4, <1>5 DEF Inv, CacheFollowsRuns, At
<1> QED  BY <1>6, <1>7, <1>8 DEF Inv

LEMMA NextStep ==
  ASSUME Shaped, Inv, [Next]_vars
  PROVE  Shaped' /\ Inv'
<1>1. ASSUME NEW s \in Slots, Process(s)
      PROVE  Shaped' /\ Inv'
  BY <1>1, BeginStep, AnswerStep, RefreshStep, StoreCacheStep, FlushStep, RecordStep,
     RecordDegradedStep, KeepStep, KilledStep DEF Process
<1> QED  BY <1>1, WorldStep DEF Next
-----------------------------------------------------------------------------
THEOREM HelperInvariant == Spec => [](Shaped /\ Inv)
<1>1. Init => Shaped /\ Inv
  BY InitShaped, InitInv
<1>2. Shaped /\ Inv /\ [Next]_vars => (Shaped /\ Inv)'
  BY NextStep
<1> QED  BY <1>1, <1>2, PTL DEF Spec

(* A record that says ok is of an attempt the coordinator took and whose   *)
(* answer named it (client.go:101-130), whatever the processes that share  *)
(* the file do between its answer and their writes.                        *)
THEOREM OkRecordsAreConfirmed == Spec => []OkIsConfirmed
<1>1. Shaped /\ Inv => OkIsConfirmed
  BY DEF Inv
<1> QED  BY <1>1, HelperInvariant, PTL

(* While one run goes on at a time and no read or write fails, the macro   *)
(* cache holds at least the revision the run that is about to be recorded  *)
(* executed (run.go:229-246).                                              *)
THEOREM CacheKeepsUp == Spec => []CacheFollowsRuns
<1>1. Shaped /\ Inv => CacheFollowsRuns
  BY DEF Inv
<1> QED  BY <1>1, HelperInvariant, PTL
-----------------------------------------------------------------------------
(* The failure buffer.  A filter keeps what it keeps, in order and once:   *)
(* the position an element takes is the number of kept ones up to it.      *)
Rank(K, i) == Cardinality({j \in K : j <= i})

LEMMA RankIsOneToOne ==
  ASSUME NEW n \in Nat, NEW K \in SUBSET (1..n)
  PROVE  /\ IsFiniteSet(K) /\ Cardinality(K) \in Nat /\ Cardinality(K) <= n
         /\ \A i \in K : Rank(K, i) \in 1..Cardinality(K)
         /\ \A i, j \in K : Rank(K, i) = Rank(K, j) => i = j
         /\ \A m \in 1..Cardinality(K) : \E i \in K : Rank(K, i) = m
<1> DEFINE card == Cardinality(K)
           below(i) == {j \in K : j <= i}
<1>1. IsFiniteSet(1..n) /\ Cardinality(1..n) = n
  BY FS_Interval
<1>2. IsFiniteSet(K) /\ card \in Nat /\ card <= n
  BY <1>1, FS_Subset, FS_CardinalityType
<1>3. ASSUME NEW i \in K
      PROVE  /\ IsFiniteSet(below(i)) /\ Rank(K, i) = Cardinality(below(i))
             /\ Rank(K, i) \in 1..card
  <2>1. below(i) \in SUBSET K /\ i \in below(i)
    OBVIOUS
  <2>2. /\ IsFiniteSet(below(i)) /\ Cardinality(below(i)) <= card
    BY <1>2, <2>1, FS_Subset
  <2>3. Cardinality(below(i)) \in Nat /\ Cardinality(below(i)) # 0
    BY <2>1, <2>2, FS_CardinalityType, FS_EmptySet
  <2> QED  BY <1>2, <2>2, <2>3 DEF Rank
<1>4. ASSUME NEW i \in K, NEW j \in K, Rank(K, i) = Rank(K, j), i < j
      PROVE  FALSE
  <2>0. i \in Int /\ j \in Int /\ ~(j <= i) /\ i <= j /\ j <= j
    BY <1>4
  <2>1. below(i) \in SUBSET below(j) /\ j \in below(j) /\ j \notin below(i)
    <3>1. \A x \in K : x <= i => x <= j
      BY <1>4, <2>0
    <3> QED  BY <2>0, <3>1
  <2>2. below(i) = below(j)
    BY <1>3, <1>4, <2>1, FS_Subset
  <2> QED  BY <2>1, <2>2
<1>5. \A i, j \in K : Rank(K, i) = Rank(K, j) => i = j
  BY <1>4
<1> DEFINE rank == [i \in K |-> Rank(K, i)]
<1>6. rank \in Injection(K, 1..card)
  BY <1>3, <1>5 DEF Injection, IsInjective
<1>7. IsFiniteSet(1..card) /\ Cardinality(1..card) = card
  BY <1>2, FS_Interval
<1>8. rank \in Surjection(K, 1..card)
  BY <1>6, <1>7, FS_Injection
<1>9. \A m \in 1..card : \E i \in K : rank[i] = m
  BY <1>8 DEF Surjection
<1> QED  BY <1>2, <1>3, <1>5, <1>9

(* One sequence shortens another: each element of it is an element of the  *)
(* other at a place of its own.                                            *)
Shortens(short, seq) ==
    \E place \in [DOMAIN short -> DOMAIN seq] :
        /\ \A m \in DOMAIN short : short[m] = seq[place[m]]
        /\ \A l, m \in DOMAIN short : place[l] = place[m] => l = m

LEMMA PickedShortens ==
  ASSUME NEW S, NEW seq \in Seq(S), NEW K \in SUBSET DOMAIN seq
  PROVE  /\ Picked(seq, K) \in Seq(S) /\ Len(Picked(seq, K)) = Cardinality(K)
         /\ Cardinality(K) \in Nat /\ Cardinality(K) <= Len(seq)
         /\ Shortens(Picked(seq, K), seq)
<1> DEFINE card == Cardinality(K)
           place == [m \in 1..card |-> CHOOSE i \in K : Rank(K, i) = m]
<1>1. Len(seq) \in Nat /\ DOMAIN seq = 1..Len(seq) /\ K \in SUBSET (1..Len(seq))
  OBVIOUS
<1>2. /\ card \in Nat /\ card <= Len(seq)
      /\ \A m \in 1..card : \E i \in K : Rank(K, i) = m
  BY <1>1, RankIsOneToOne
<1>3. \A m \in 1..card : place[m] \in K /\ Rank(K, place[m]) = m
  BY <1>2
<1>4. Picked(seq, K) = [m \in 1..card |-> seq[place[m]]]
  BY DEF Picked, Rank
<1>5. \A m \in 1..card : seq[place[m]] \in S
  BY <1>1, <1>3
<1>6. place \in [1..card -> DOMAIN seq]
  BY <1>1, <1>3
<1>7. \A l, m \in 1..card : place[l] = place[m] => l = m
  BY <1>3
<1> HIDE DEF card, place
<1>8. Picked(seq, K) \in Seq(S) /\ Len(Picked(seq, K)) = card /\ DOMAIN Picked(seq, K) = 1..card
  BY <1>2, <1>4, <1>5
<1>9. \A m \in 1..card : Picked(seq, K)[m] = seq[place[m]]
  BY <1>4
<1>10. Shortens(Picked(seq, K), seq)
  BY <1>6, <1>7, <1>8, <1>9 DEF Shortens
<1> QED  BY <1>2, <1>8, <1>10 DEF card

Failure == [attempt : Attempts, time : Nat]

Distinct(seq) ==
    \A i, j \in DOMAIN seq : seq[i].attempt = seq[j].attempt => i = j

LEMMA IdsAreCounted ==
  ASSUME NEW seq \in Seq(Failure), Distinct(seq)
  PROVE  /\ IsFiniteSet(Ids(seq)) /\ Ids(seq) \subseteq Attempts
         /\ Cardinality(Ids(seq)) = Len(seq)
<1> DEFINE f == [i \in 1..Len(seq) |-> seq[i].attempt]
<1>1. Len(seq) \in Nat /\ DOMAIN seq = 1..Len(seq) /\ \A i \in 1..Len(seq) : seq[i] \in Failure
  OBVIOUS
<1>2. Ids(seq) = {seq[i].attempt : i \in 1..Len(seq)}
  BY <1>1 DEF Ids
<1>3. f \in Bijection(1..Len(seq), Ids(seq))
  <2>1. f \in [1..Len(seq) -> Ids(seq)]
    BY <1>2
  <2>2. \A i, j \in 1..Len(seq) : f[i] = f[j] => i = j
    BY <1>1 DEF Distinct
  <2>3. \A x \in Ids(seq) : \E i \in 1..Len(seq) : f[i] = x
    BY <1>2
  <2> QED  BY <2>1, <2>2, <2>3 DEF Bijection, Injection, Surjection, IsInjective
<1>4. ExistsBijection(1..Len(seq), Ids(seq))
  BY <1>3 DEF ExistsBijection
<1>5. IsFiniteSet(Ids(seq)) /\ Cardinality(Ids(seq)) = Len(seq)
  BY <1>1, <1>4, FS_NatBijection, FS_CountingElements
<1>6. Ids(seq) \subseteq Attempts
  BY <1>1, <1>2 DEF Failure
<1> QED  BY <1>5, <1>6

LEMMA ShortenedIds ==
  ASSUME NEW seq \in Seq(Failure), Distinct(seq), NEW kept \in Seq(Failure),
         Shortens(kept, seq)
  PROVE  /\ Distinct(kept) /\ Ids(kept) \subseteq Ids(seq)
         /\ Cardinality(Ids(seq) \ Ids(kept)) = Len(seq) - Len(kept)
<1>0. PICK place \in [DOMAIN kept -> DOMAIN seq] :
          /\ \A m \in DOMAIN kept : kept[m] = seq[place[m]]
          /\ \A l, m \in DOMAIN kept : place[l] = place[m] => l = m
  BY DEF Shortens
<1>1. Distinct(kept)
  BY <1>0 DEF Distinct
<1>2. Ids(kept) \subseteq Ids(seq)
  BY <1>0 DEF Ids
<1>3. /\ IsFiniteSet(Ids(seq)) /\ Cardinality(Ids(seq)) = Len(seq)
      /\ Cardinality(Ids(kept)) = Len(kept)
  BY <1>1, IdsAreCounted
<1>4. Ids(seq) \cap Ids(kept) = Ids(kept)
  BY <1>2
<1>5. Cardinality(Ids(seq) \ Ids(kept)) = Cardinality(Ids(seq)) - Cardinality(Ids(seq) \cap Ids(kept))
  BY <1>3, FS_Difference
<1> QED  BY <1>1, <1>2, <1>3, <1>4, <1>5

(* What pruning makes of a buffer: what it loses, it counts. *)
Sheds(b, f) ==
    /\ b \in Buffers /\ Distinct(b.failures) /\ b.corrupt = f.corrupt
    /\ Ids(b.failures) \subseteq Ids(f.failures)
    /\ b.dropped = f.dropped + Cardinality(Ids(f.failures) \ Ids(b.failures))

LEMMA ShedBuffer ==
  ASSUME NEW f \in Buffers, Distinct(f.failures), NEW kept \in Seq(Failure), NEW less \in Nat,
         Distinct(kept), Ids(kept) \subseteq Ids(f.failures),
         Cardinality(Ids(f.failures) \ Ids(kept)) = less
  PROVE  Sheds([f EXCEPT !.failures = kept, !.dropped = f.dropped + less], f)
<1> DEFINE b == [f EXCEPT !.failures = kept, !.dropped = f.dropped + less]
           count == f.dropped + less
<1>1. b = [failures |-> kept, dropped |-> count, corrupt |-> f.corrupt]
  <2>1. b = [f EXCEPT !.failures = kept, !.dropped = count]
    OBVIOUS
  <2>2. f = [failures |-> f.failures, dropped |-> f.dropped, corrupt |-> f.corrupt]
    BY DEF Buffers
  <2> HIDE DEF b, count
  <2> QED  BY <2>1, <2>2
<1> HIDE DEF b
<1>2. b \in Buffers
  BY <1>1 DEF Buffers, Failure
<1> QED  BY <1>1, <1>2 DEF Sheds, b

LEMMA AgeSheds ==
  ASSUME NEW f \in Buffers, Distinct(f.failures), NEW time \in Nat
  PROVE  Sheds(PrunedByAge(f, time), f)
<1> DEFINE seq == f.failures
           K == {i \in DOMAIN seq : time <= seq[i].time + MaxAge}
           kept == Picked(seq, K)
           less == Len(seq) - Cardinality(K)
<1>1. seq \in Seq(Failure) /\ f.dropped \in Nat
  BY DEF Buffers, Failure
<1>2. /\ kept \in Seq(Failure) /\ Len(kept) = Cardinality(K) /\ Cardinality(K) \in Nat
      /\ Cardinality(K) <= Len(seq) /\ Len(seq) \in Nat
      /\ Shortens(kept, seq)
  <2>1. K \in SUBSET DOMAIN seq
    OBVIOUS
  <2>2. Len(seq) \in Nat
    BY <1>1
  <2> HIDE DEF K, seq
  <2> QED  BY <1>1, <2>1, <2>2, PickedShortens
<1>3. /\ Distinct(kept) /\ Ids(kept) \subseteq Ids(seq)
      /\ Cardinality(Ids(seq) \ Ids(kept)) = less
  <2>1. Distinct(seq)
    OBVIOUS
  <2> HIDE DEF seq, K, kept
  <2>2. /\ Distinct(kept) /\ Ids(kept) \subseteq Ids(seq)
        /\ Cardinality(Ids(seq) \ Ids(kept)) = Len(seq) - Len(kept)
    BY <1>1, <1>2, <2>1, ShortenedIds
  <2> QED  BY <1>2, <2>2
<1>4. less \in Nat /\ f.dropped + less = f.dropped + Len(seq) - Cardinality(K)
  BY <1>1, <1>2
<1>5. PrunedByAge(f, time) = [f EXCEPT !.failures = kept, !.dropped = f.dropped + less]
  <2>1. PrunedByAge(f, time) =
          [f EXCEPT !.failures = kept, !.dropped = f.dropped + Len(seq) - Cardinality(K)]
    BY DEF PrunedByAge
  <2> HIDE DEF less, kept, K, seq
  <2> QED  BY <1>4, <2>1
<1> HIDE DEF K, kept, less
<1> QED  BY <1>1, <1>2, <1>3, <1>4, <1>5, ShedBuffer

LEMMA CountSheds ==
  ASSUME NEW f \in Buffers, Distinct(f.failures)
  PROVE  /\ Sheds(PrunedByCount(f), f)
         /\ Len(PrunedByCount(f).failures) <= MaxBuffered
<1> DEFINE seq == f.failures
           excess == Len(seq) - MaxBuffered
           kept == SubSeq(seq, excess + 1, Len(seq))
<1>1. /\ seq \in Seq(Failure) /\ f.dropped \in Nat /\ MaxBuffered \in Nat /\ MaxBuffered > 0
      /\ Len(seq) \in Nat
  BY HelperAssumption DEF Buffers, Failure
<1>2. CASE excess <= 0
  <2>1. PrunedByCount(f) = f /\ Len(f.failures) <= MaxBuffered
    BY <1>1, <1>2 DEF PrunedByCount
  <2>2. Cardinality(Ids(f.failures) \ Ids(f.failures)) = 0
    <3>1. Ids(f.failures) \ Ids(f.failures) = {}
      OBVIOUS
    <3> QED  BY <3>1, FS_EmptySet, Zenon
  <2>3. f.dropped = f.dropped + Cardinality(Ids(f.failures) \ Ids(f.failures))
    BY <1>1, <2>2
  <2>4. Sheds(f, f)
    BY <2>3 DEF Sheds
  <2> QED  BY <2>1, <2>4
<1>3. CASE ~(excess <= 0)
  <2>1. excess \in Nat /\ excess + 1 \in 1..Len(seq)
    BY <1>1, <1>3
  <2>2. /\ kept \in Seq(Failure) /\ Len(kept) = MaxBuffered
        /\ \A m \in 1..MaxBuffered : kept[m] = seq[excess + m]
    BY <1>1, <2>1
  <2> DEFINE place == [m \in 1..MaxBuffered |-> excess + m]
  <2>3. /\ DOMAIN kept = 1..MaxBuffered
        /\ place \in [1..MaxBuffered -> DOMAIN seq]
        /\ \A m \in 1..MaxBuffered : kept[m] = seq[place[m]]
        /\ \A l, m \in 1..MaxBuffered : place[l] = place[m] => l = m
    BY <1>1, <2>1, <2>2
  <2>8. Shortens(kept, seq)
    <3> HIDE DEF place, kept, seq, excess
    <3> QED  BY <2>3 DEF Shortens
  <2>4. /\ Distinct(kept) /\ Ids(kept) \subseteq Ids(seq)
        /\ Cardinality(Ids(seq) \ Ids(kept)) = excess
    <3>1. /\ Distinct(kept) /\ Ids(kept) \subseteq Ids(seq)
          /\ Cardinality(Ids(seq) \ Ids(kept)) = Len(seq) - Len(kept)
      <4> HIDE DEF place, kept, seq, excess
      <4> QED  BY <1>1, <2>2, <2>8, ShortenedIds DEF seq
    <3> QED  BY <1>1, <2>2, <3>1
  <2>5. PrunedByCount(f) = [f EXCEPT !.failures = kept, !.dropped = f.dropped + excess]
    BY <1>3 DEF PrunedByCount
  <2>6. Sheds(PrunedByCount(f), f)
    <3>1. /\ excess \in Nat /\ kept \in Seq(Failure) /\ Distinct(kept)
          /\ Ids(kept) \subseteq Ids(f.failures)
          /\ Cardinality(Ids(f.failures) \ Ids(kept)) = excess
      BY <2>1, <2>2, <2>4
    <3> HIDE DEF kept, excess, seq, place
    <3>2. Sheds([f EXCEPT !.failures = kept, !.dropped = f.dropped + excess], f)
      BY <3>1, ShedBuffer
    <3> QED  BY <2>5, <3>2, Zenon
  <2>7. PrunedByCount(f).failures = kept
    BY <2>5 DEF Buffers
  <2> QED  BY <1>1, <2>2, <2>6, <2>7
<1> QED  BY <1>2, <1>3

LEMMA DisjointUnion ==
  ASSUME NEW S, IsFiniteSet(S), NEW T, IsFiniteSet(T), S \cap T = {}, NEW U, U = S \cup T
  PROVE  /\ IsFiniteSet(U)
         /\ Cardinality(S) \in Nat /\ Cardinality(T) \in Nat
         /\ Cardinality(U) = Cardinality(S) + Cardinality(T)
<1>1. Cardinality(S) \in Nat /\ Cardinality(T) \in Nat
  BY FS_CardinalityType
<1>2. /\ IsFiniteSet(S \cup T)
      /\ Cardinality(S \cup T) = Cardinality(S) + Cardinality(T) - Cardinality(S \cap T)
  BY FS_Union
<1>3. Cardinality(S \cap T) = 0
  BY FS_EmptySet
<1>4. Cardinality(S \cup T) = Cardinality(S) + Cardinality(T)
  BY <1>1, <1>2, <1>3
<1> QED  BY <1>1, <1>2, <1>4

LEMMA ShedsTwice ==
  ASSUME NEW f \in Buffers, Distinct(f.failures), NEW b, Sheds(b, f), NEW c, Sheds(c, b)
  PROVE  Sheds(c, f)
<1> DEFINE F == Ids(f.failures)
           B == Ids(b.failures)
           C == Ids(c.failures)
<1>1. IsFiniteSet(F) /\ C \subseteq B /\ B \subseteq F
  BY IdsAreCounted DEF Sheds, Buffers, Failure
<1>2. /\ IsFiniteSet(F \ B) /\ IsFiniteSet(B \ C)
      /\ Cardinality(F \ B) \in Nat /\ Cardinality(B \ C) \in Nat
  BY <1>1, FS_Difference, FS_Subset, FS_CardinalityType
<1>3. Cardinality(F \ C) = Cardinality(F \ B) + Cardinality(B \ C)
  <2>1. F \ C = (F \ B) \cup (B \ C) /\ (F \ B) \cap (B \ C) = {}
    BY <1>1
  <2> HIDE DEF F, B, C
  <2> QED  BY <1>2, <2>1, DisjointUnion
<1>4. f.dropped \in Nat
  BY DEF Buffers
<1>5. c.dropped = f.dropped + Cardinality(F \ C)
  <2>1. c.dropped = f.dropped + Cardinality(F \ B) + Cardinality(B \ C)
    BY DEF Sheds
  <2> HIDE DEF F, B, C
  <2> QED  BY <1>2, <1>3, <1>4, <2>1
<1> QED  BY <1>1, <1>5 DEF Sheds
-----------------------------------------------------------------------------
(* What is filed: every buffer holds failures that were kept, each once,   *)
(* and every process has an attempt of its own that was not kept yet.      *)
Used == Budget["attempts"] - left["attempts"]

Points == {"free", "submit", "localError", "refresh", "cache", "flush", "record", "keep"}

Owes(p) == p.at \in {"refresh", "cache", "flush"}

IsFiled(buffer, kept) ==
    buffer \in Buffers /\ Distinct(buffer.failures) /\ Ids(buffer.failures) \subseteq kept

SlotFiled(p, kept, used) ==
    /\ p.at \in Points /\ p.kind \in Kinds /\ p.began \in Nat /\ p.class \in Classes
    /\ p.attempt \in Attempts \union {NoAttempt}
    /\ IsFiled(p.buffer, kept)
    /\ p.at # "free" => p.attempt \in 1..used /\ p.attempt \notin kept
    /\ Owes(p) => p.class = "ok"

RecordTypes == [attempt : Attempts \union {NoAttempt}, class : Classes]

WorldFiled ==
    /\ now \in Nat
    /\ IsFiled(failures, history.kept) /\ Len(failures.failures) <= MaxBuffered
    /\ records \in [Files -> RecordTypes]
    /\ centre.confirmed \subseteq Attempts /\ centre.reported \subseteq history.kept
    /\ centre.dropped \in Nat
    /\ history.kept \subseteq 1..Used /\ history.flushed \subseteq history.kept
    /\ history.doubled \in BOOLEAN /\ history.corrupted \in BOOLEAN
    /\ left["attempts"] <= Budget["attempts"]

Filed ==
    /\ WorldFiled
    /\ \A s \in Slots : SlotFiled(slots[s], history.kept, Used)
    /\ \A s, t \in Slots :
          ~At(s, "free") /\ ~At(t, "free") /\ slots[s].attempt = slots[t].attempt => s = t

LEMMA UsedType ==
  ASSUME Shaped, left["attempts"] <= Budget["attempts"]
  PROVE  Used \in Nat /\ Budget["attempts"] \in Nat /\ 1..Used \subseteq Attempts
BY HelperAssumption DEF Shaped, Used, Attempts, Bounded

LEMMA SpendUsed ==
  ASSUME Shaped, left["attempts"] <= Budget["attempts"],
         UNCHANGED left \/ \E what \in Bounded \ {"attempts"} : Spend(what)
  PROVE  Used' = Used /\ left'["attempts"] <= Budget["attempts"]
BY DEF Shaped, Used, Spend, Bounded

LEMMA SpendAttempt ==
  ASSUME Shaped, left["attempts"] <= Budget["attempts"], Spend("attempts")
  PROVE  /\ Used' = Used + 1 /\ left'["attempts"] <= Budget["attempts"]
         /\ Used' \in Attempts /\ Used' \in 1..Used' /\ Used' \notin 1..Used
         /\ 1..Used \subseteq 1..Used'
<1>1. /\ left' = [left EXCEPT !["attempts"] = left["attempts"] - 1]
      /\ left["attempts"] \in Nat /\ left["attempts"] > 0 /\ Budget["attempts"] \in Nat
  BY HelperAssumption DEF Shaped, Spend, Bounded
<1>2. left'["attempts"] = left["attempts"] - 1
  BY <1>1 DEF Shaped, Bounded
<1> QED  BY <1>1, <1>2 DEF Used, Attempts

LEMMA EmptyIsFiled ==
  ASSUME NEW kept
  PROVE  /\ IsFiled(EmptyBuffer, kept) /\ IsFiled(CorruptBuffer, kept)
         /\ IsFiled([EmptyBuffer EXCEPT !.dropped = 1], kept)
         /\ Ids(EmptyBuffer.failures) = {} /\ EmptyBuffer.dropped = 0 /\ ~EmptyBuffer.corrupt
         /\ Len(EmptyBuffer.failures) <= MaxBuffered
         /\ Len(CorruptBuffer.failures) <= MaxBuffered
<1> DEFINE yes == TRUE
           no == FALSE
<1>0. EmptyBuffer = [failures |-> <<>>, dropped |-> 0, corrupt |-> no]
  BY DEF EmptyBuffer
<1>1. /\ CorruptBuffer = [failures |-> <<>>, dropped |-> 0, corrupt |-> yes]
      /\ [EmptyBuffer EXCEPT !.dropped = 1] = [failures |-> <<>>, dropped |-> 1, corrupt |-> no]
  <2>1. CorruptBuffer = [EmptyBuffer EXCEPT !.corrupt = yes]
    BY DEF CorruptBuffer
  <2> HIDE DEF yes, no
  <2>2. CorruptBuffer = [failures |-> <<>>, dropped |-> 0, corrupt |-> yes]
    BY <1>0, <2>1
  <2>3. [EmptyBuffer EXCEPT !.dropped = 1] = [failures |-> <<>>, dropped |-> 1, corrupt |-> no]
    BY <1>0
  <2> QED  BY <2>2, <2>3
<1>2. Distinct(<<>>) /\ Ids(<<>>) = {} /\ <<>> \in Seq([attempt : Attempts, time : Nat])
      /\ Len(<<>>) <= MaxBuffered
  BY HelperAssumption DEF Distinct, Ids
<1> QED  BY <1>0, <1>1, <1>2 DEF IsFiled, Buffers

LEMMA FiledMore ==
  ASSUME NEW b, NEW kept, NEW more, IsFiled(b, kept), kept \subseteq more
  PROVE  IsFiled(b, more)
BY DEF IsFiled

LEMMA ShedIsFiled ==
  ASSUME NEW f, NEW kept, IsFiled(f, kept), NEW b, Sheds(b, f)
  PROVE  IsFiled(b, kept)
BY DEF IsFiled, Sheds

(* A failure that is not in a buffer yet, appended to it. *)
LEMMA AppendedBuffer ==
  ASSUME NEW b \in Buffers, Distinct(b.failures),
         NEW x \in Failure, x.attempt \notin Ids(b.failures)
  PROVE  LET more == [b EXCEPT !.failures = Append(@, x)]
         IN  /\ more \in Buffers /\ Distinct(more.failures)
             /\ Ids(more.failures) = Ids(b.failures) \union {x.attempt}
             /\ more.dropped = b.dropped /\ more.corrupt = b.corrupt
<1> DEFINE seq == b.failures
           longer == Append(seq, x)
           more == [b EXCEPT !.failures = longer]
<1>1. /\ seq \in Seq(Failure) /\ Len(seq) \in Nat
      /\ b = [failures |-> seq, dropped |-> b.dropped, corrupt |-> b.corrupt]
  BY DEF Buffers, Failure
<1>2. /\ longer \in Seq(Failure) /\ Len(longer) = Len(seq) + 1
      /\ \A i \in 1..Len(seq) : longer[i] = seq[i]
      /\ longer[Len(seq) + 1] = x
  BY <1>1
<1>3. more = [failures |-> longer, dropped |-> b.dropped, corrupt |-> b.corrupt]
  <2> HIDE DEF longer, seq
  <2> QED  BY DEF Buffers
<1>4. more \in Buffers
  <2> HIDE DEF longer, more
  <2> QED  BY <1>2, <1>3 DEF Buffers, Failure
<1> HIDE DEF longer
<1>5. \A i \in DOMAIN longer : i \in 1..Len(seq) \/ i = Len(seq) + 1
  BY <1>1, <1>2
<1>6. Distinct(longer)
  <2>1. \A i \in 1..Len(seq) : longer[i].attempt # x.attempt
    BY <1>1, <1>2 DEF Ids
  <2>2. \A i, j \in 1..Len(seq) : longer[i].attempt = longer[j].attempt => i = j
    BY <1>1, <1>2 DEF Distinct
  <2> HIDE DEF seq
  <2> QED  BY <1>2, <1>5, <2>1, <2>2 DEF Distinct
<1>7. Ids(longer) = Ids(seq) \union {x.attempt}
  <2>1. DOMAIN longer = 1..(Len(seq) + 1) /\ DOMAIN seq = 1..Len(seq)
    BY <1>1, <1>2
  <2>2. Ids(longer) \subseteq Ids(seq) \union {x.attempt}
    BY <1>2, <1>5, <2>1 DEF Ids
  <2>3. Ids(seq) \subseteq Ids(longer)
    BY <1>1, <1>2, <2>1 DEF Ids
  <2>4. x.attempt \in Ids(longer)
    <3>1. Len(seq) + 1 \in DOMAIN longer
      BY <1>1, <2>1
    <3> QED  BY <1>2, <3>1 DEF Ids
  <2> QED  BY <2>2, <2>3, <2>4
<1> QED  BY <1>3, <1>4, <1>6, <1>7 DEF longer

(* append(): the new failure in, what does not fit out. *)
LEMMA AppendedSheds ==
  ASSUME NEW b \in Buffers, Distinct(b.failures), NEW time \in Nat,
         NEW x \in Failure, x.attempt \notin Ids(b.failures)
  PROVE  /\ Sheds(Appended(b, x, time), [b EXCEPT !.failures = Append(@, x)])
         /\ Len(Appended(b, x, time).failures) <= MaxBuffered
<1> DEFINE more == [b EXCEPT !.failures = Append(@, x)]
           aged == PrunedByAge(more, time)
<1>1. more \in Buffers /\ Distinct(more.failures)
  BY AppendedBuffer
<1> HIDE DEF more
<1>2. Sheds(aged, more)
  BY <1>1, AgeSheds
<1>3. Sheds(PrunedByCount(aged), aged) /\ Len(PrunedByCount(aged).failures) <= MaxBuffered
  <2>1. aged \in Buffers /\ Distinct(aged.failures)
    BY <1>2 DEF Sheds
  <2> HIDE DEF aged
  <2> QED  BY <2>1, CountSheds
<1>4. Appended(b, x, time) = PrunedByCount(aged)
  BY DEF Appended, more
<1> HIDE DEF aged
<1>5. Sheds(PrunedByCount(aged), more)
  BY <1>1, <1>2, <1>3, ShedsTwice
<1> QED  BY <1>3, <1>4, <1>5 DEF more
-----------------------------------------------------------------------------
(* How a step moves the process that takes it: on with what it read, or    *)
(* back to the free ones.                                                  *)
OthersStay(s) == \A t \in Slots \ {s} : slots'[t] = slots[t]

Carries(s, point, class) ==
    /\ ~At(s, "free")
    /\ OthersStay(s)
    /\ slots'[s].at = point /\ slots'[s].class = class
    /\ slots'[s].kind = slots[s].kind /\ slots'[s].attempt = slots[s].attempt
    /\ slots'[s].began = slots[s].began /\ slots'[s].buffer = slots[s].buffer

Frees(s) == ~At(s, "free") /\ OthersStay(s) /\ slots'[s] = Free

LEMMA GotoCarries ==
  ASSUME Shaped, NEW s \in Slots, ~At(s, "free"), NEW point, Goto(s, point)
  PROVE  Carries(s, point, slots[s].class)
<1> DEFINE q == slots[s]
           p == [q EXCEPT !.at = point]
<1>1. IsSlot(q) /\ slots' = [slots EXCEPT ![s] = p] /\ OthersStay(s)
  BY DEF Shaped, Goto, OthersStay
<1>2. p = [at |-> point, kind |-> q.kind, macro |-> q.macro, attempt |-> q.attempt,
           began |-> q.began, buffer |-> q.buffer, class |-> q.class,
           revision |-> q.revision, cache |-> q.cache]
  <2>1. p = [q EXCEPT !.at = point]
    OBVIOUS
  <2> HIDE DEF q, p
  <2> QED  BY <1>1, <2>1 DEF IsSlot
<1>3. slots'[s] = p
  BY <1>1 DEF Shaped
<1>4. /\ slots'[s].at = point /\ slots'[s].class = q.class
      /\ slots'[s].kind = q.kind /\ slots'[s].attempt = q.attempt
      /\ slots'[s].began = q.began /\ slots'[s].buffer = q.buffer
  <2> HIDE DEF q, p
  <2> QED  BY <1>2, <1>3
<1> QED  BY <1>1, <1>4 DEF Carries

LEMMA ClassifiedCarries ==
  ASSUME Shaped, NEW s \in Slots, ~At(s, "free"), NEW point, NEW class,
         Classified(s, point, class)
  PROVE  Carries(s, point, class)
<1> DEFINE q == slots[s]
           revision == centre.revision[q.macro]
           p == [q EXCEPT !.at = point, !.class = class, !.revision = revision]
<1>1. IsSlot(q) /\ slots' = [slots EXCEPT ![s] = p] /\ OthersStay(s)
  BY DEF Shaped, Classified, OthersStay
<1>2. p = [at |-> point, kind |-> q.kind, macro |-> q.macro, attempt |-> q.attempt,
           began |-> q.began, buffer |-> q.buffer, class |-> class,
           revision |-> revision, cache |-> q.cache]
  <2>1. p = [q EXCEPT !.at = point, !.class = class, !.revision = revision]
    OBVIOUS
  <2> HIDE DEF q, p, revision
  <2> QED  BY <1>1, <2>1 DEF IsSlot
<1>3. slots'[s] = p
  BY <1>1 DEF Shaped
<1>4. /\ slots'[s].at = point /\ slots'[s].class = class
      /\ slots'[s].kind = q.kind /\ slots'[s].attempt = q.attempt
      /\ slots'[s].began = q.began /\ slots'[s].buffer = q.buffer
  <2> HIDE DEF q, p, revision
  <2> QED  BY <1>2, <1>3
<1> QED  BY <1>1, <1>4 DEF Carries

LEMMA CachesCarries ==
  ASSUME Shaped, NEW s \in Slots, ~At(s, "free"), NEW read, NEW revision,
         slots' = [slots EXCEPT ![s] = [slots[s] EXCEPT !.at = "cache", !.cache = read,
                                                        !.revision = revision]]
  PROVE  Carries(s, "cache", slots[s].class)
<1> DEFINE q == slots[s]
           p == [q EXCEPT !.at = "cache", !.cache = read, !.revision = revision]
<1>1. IsSlot(q) /\ OthersStay(s) /\ slots'[s] = p
  BY DEF Shaped, OthersStay
<1>2. p = [at |-> "cache", kind |-> q.kind, macro |-> q.macro, attempt |-> q.attempt,
           began |-> q.began, buffer |-> q.buffer, class |-> q.class,
           revision |-> revision, cache |-> read]
  <2>1. p = [q EXCEPT !.at = "cache", !.cache = read, !.revision = revision]
    OBVIOUS
  <2> HIDE DEF q, p
  <2> QED  BY <1>1, <2>1 DEF IsSlot
<1>3. /\ p.at = "cache" /\ p.class = q.class
      /\ p.kind = q.kind /\ p.attempt = q.attempt
      /\ p.began = q.began /\ p.buffer = q.buffer
  <2> HIDE DEF q, p
  <2> QED  BY <1>2
<1> QED  BY <1>1, <1>3 DEF Carries

LEMMA FreesSlot ==
  ASSUME Shaped, NEW s \in Slots, ~At(s, "free"), slots' = [slots EXCEPT ![s] = Free]
  PROVE  Frees(s)
BY DEF Shaped, Frees, OthersStay

LEMMA FreeFields ==
  /\ Free.at = "free" /\ Free.kind = "run" /\ Free.class = "none" /\ Free.began = 0
  /\ Free.attempt = NoAttempt /\ Free.buffer = EmptyBuffer
<1> DEFINE some == CHOOSE m \in Macros : TRUE
           none == [m \in Macros |-> 0]
<1>1. Free = [at |-> "free", kind |-> "run", macro |-> some, attempt |-> NoAttempt,
              began |-> 0, buffer |-> EmptyBuffer, class |-> "none",
              revision |-> 0, cache |-> none]
  BY DEF Free
<1> HIDE DEF some, none
<1> QED  BY <1>1

LEMMA FreeIsFiled ==
  ASSUME NEW kept, NEW used
  PROVE  SlotFiled(Free, kept, used)
BY FreeFields, EmptyIsFiled DEF SlotFiled, Points, Kinds, Classes, Owes

(* The steps that leave what was kept and the attempts as they are. *)
LEMMA CarriedFiled ==
  ASSUME Shaped, Filed, NEW s \in Slots, NEW point, NEW class, Carries(s, point, class),
         point \in Points \ {"free"}, class \in Classes,
         point \in {"refresh", "cache", "flush"} => class = "ok",
         history'.kept = history.kept, Used' = Used, WorldFiled'
  PROVE  Filed'
<1>1. SlotFiled(slots'[s], history.kept, Used)
  BY DEF Filed, SlotFiled, Carries, At, Owes
<1>2. \A t \in Slots : SlotFiled(slots'[t], history.kept, Used)
  BY <1>1 DEF Filed, Carries, OthersStay
<1>3. \A t \in Slots : /\ slots'[t].attempt = slots[t].attempt
                       /\ slots'[t].at # "free" => slots[t].at # "free"
  BY DEF Carries, OthersStay, At
<1> QED  BY <1>2, <1>3 DEF Filed, At

LEMMA FreedFiled ==
  ASSUME Shaped, Filed, NEW s \in Slots, Frees(s),
         history.kept \subseteq history'.kept,
         history'.kept \subseteq history.kept \union {slots[s].attempt},
         Used' = Used, WorldFiled'
  PROVE  Filed'
<1>1. \A t \in Slots \ {s} : slots[t].at # "free" => slots[t].attempt # slots[s].attempt
  BY DEF Filed, Frees, At
<1>2. \A t \in Slots \ {s} : SlotFiled(slots'[t], history'.kept, Used)
  BY <1>1, FiledMore DEF Filed, Frees, OthersStay, SlotFiled
<1>3. SlotFiled(slots'[s], history'.kept, Used)
  BY FreeIsFiled DEF Frees
<1>4. \A t \in Slots : slots'[t].at # "free" => t # s /\ slots'[t] = slots[t]
  BY FreeFields DEF Frees, OthersStay
<1> QED  BY <1>2, <1>3, <1>4 DEF Filed, At

LEMMA InitFiled == Init => Filed
<1> SUFFICES ASSUME Init PROVE Filed
  OBVIOUS
<1>1. /\ left = Budget /\ Budget["attempts"] \in Nat /\ Used = 0
  BY HelperAssumption DEF Init, Used, Bounded
<1>2. WorldFiled
  <2>1. records \in [Files -> RecordTypes]
    BY DEF Init, NoRecord, RecordTypes, Classes
  <2>2. /\ centre.confirmed = {} /\ centre.reported = {} /\ centre.dropped = 0
        /\ history.kept = {} /\ history.doubled = FALSE /\ history.corrupted = FALSE
        /\ history.flushed = {}
    <3> DEFINE first == [m \in Macros |-> 1]
    <3>1. centre = [revision |-> first, confirmed |-> {}, reported |-> {}, dropped |-> 0]
      BY DEF Init
    <3> HIDE DEF first
    <3> QED  BY <3>1 DEF Init
  <2>3. failures = EmptyBuffer /\ now = 0
    BY DEF Init
  <2>4. IsFiled(failures, history.kept) /\ Len(failures.failures) <= MaxBuffered
    BY <2>3, EmptyIsFiled
  <2>5. left["attempts"] <= Budget["attempts"]
    BY <1>1
  <2>6. history.doubled \in BOOLEAN /\ history.corrupted \in BOOLEAN
    BY <2>2
  <2>7. history.kept \subseteq 1..Used /\ history.flushed \subseteq history.kept
    BY <2>2
  <2>8. centre.confirmed \subseteq Attempts /\ centre.reported \subseteq history.kept
        /\ centre.dropped \in Nat /\ now \in Nat
    BY <2>2, <2>3
  <2> QED  BY <2>1, <2>4, <2>5, <2>6, <2>7, <2>8 DEF WorldFiled
<1>3. \A s \in Slots : slots[s] = Free
  BY DEF Init
<1> QED  BY <1>2, <1>3, FreeIsFiled, FreeFields DEF Filed, At

LEMMA TakenFields ==
  ASSUME Shaped, NEW s \in Slots, Taken(s)
  PROVE  /\ centre'.confirmed = centre.confirmed \union {slots[s].attempt}
         /\ slots[s].kind # "run" =>
               centre'.reported = centre.reported /\
               (centre.dropped \in Nat => centre'.dropped = centre.dropped)
         /\ slots[s].kind = "run" =>
               /\ centre'.reported = centre.reported \union Ids(slots[s].buffer.failures)
               /\ centre'.dropped = centre.dropped + slots[s].buffer.dropped
<1> DEFINE confirmed == centre.confirmed \union {slots[s].attempt}
           reported == centre.reported \union
               IF slots[s].kind = "run" THEN Ids(slots[s].buffer.failures) ELSE {}
           dropped == centre.dropped + IF slots[s].kind = "run" THEN slots[s].buffer.dropped ELSE 0
<1>1. centre' = [centre EXCEPT !.confirmed = confirmed, !.reported = reported,
                               !.dropped = dropped]
  BY DEF Taken
<1>2. /\ centre'.confirmed = confirmed /\ centre'.reported = reported
      /\ centre'.dropped = dropped
  <2> HIDE DEF confirmed, reported, dropped
  <2> QED  BY <1>1 DEF Shaped, IsCentre
<1>3. slots[s].kind # "run" => reported = centre.reported
  OBVIOUS
<1>4. slots[s].kind # "run" => (centre.dropped \in Nat => dropped = centre.dropped)
  OBVIOUS
<1>5. slots[s].kind = "run" =>
               /\ reported = centre.reported \union Ids(slots[s].buffer.failures)
               /\ dropped = centre.dropped + slots[s].buffer.dropped
  OBVIOUS
<1> HIDE DEF reported, dropped
<1> QED  BY <1>2, <1>3, <1>4, <1>5

(* What stays filed when the files, the clock and the history stay. *)
LEMMA WorldStays ==
  ASSUME Shaped, WorldFiled, UNCHANGED <<now, failures, history>>,
         UNCHANGED left \/ \E what \in Bounded \ {"attempts"} : Spend(what),
         records' \in [Files -> RecordTypes],
         centre'.confirmed \subseteq Attempts, centre'.reported \subseteq history.kept,
         centre'.dropped \in Nat
  PROVE  WorldFiled' /\ Used' = Used /\ history'.kept = history.kept
BY SpendUsed DEF WorldFiled

LEMMA TakenFiled ==
  ASSUME Shaped, Filed, NEW s \in Slots, ~At(s, "free"), Taken(s)
  PROVE  /\ centre'.confirmed \subseteq Attempts /\ centre'.reported \subseteq history.kept
         /\ centre'.dropped \in Nat
<1>1. SlotFiled(slots[s], history.kept, Used) /\ WorldFiled /\ slots[s].at # "free"
  BY DEF Filed, At
<1>2. slots[s].attempt \in Attempts
  BY <1>1, UsedType DEF SlotFiled, WorldFiled
<1>3. /\ slots[s].buffer.dropped \in Nat
      /\ Ids(slots[s].buffer.failures) \subseteq history.kept
  BY <1>1 DEF SlotFiled, IsFiled, Buffers
<1>4. /\ centre.confirmed \subseteq Attempts /\ centre.reported \subseteq history.kept
      /\ centre.dropped \in Nat
  BY <1>1 DEF WorldFiled
<1>5. CASE slots[s].kind = "run"
  BY <1>2, <1>3, <1>4, <1>5, TakenFields
<1>6. CASE slots[s].kind # "run"
  BY <1>2, <1>4, <1>6, TakenFields
<1> QED  BY <1>5, <1>6

LEMMA DoubledField ==
  ASSUME Shaped, NEW doubled, history' = [history EXCEPT !.doubled = doubled]
  PROVE  /\ history'.kept = history.kept /\ history'.overlapped = history.overlapped
         /\ history'.corrupted = history.corrupted /\ history'.flushed = history.flushed
         /\ history'.doubled = doubled
BY DEF Shaped, IsHistory

LEMMA AnswerCarries ==
  ASSUME Shaped, NEW s \in Slots
  PROVE  /\ RunAccepted(s) => Carries(s, "refresh", "ok")
         /\ ActionAnswered(s) \/ CommandAnswered(s) => Carries(s, "record", "ok")
         /\ Declined(s) => \E class \in {"refused", "rejected", "unreachable"} :
                              Carries(s, "record", class)
         /\ AnswerLost(s) \/ Unconfirmed(s) => Carries(s, "record", "unreachable")
<1>1. RunAccepted(s) => Carries(s, "refresh", "ok")
  BY ClassifiedCarries DEF RunAccepted, At
<1>2. ActionAnswered(s) \/ CommandAnswered(s) => Carries(s, "record", "ok")
  BY ClassifiedCarries DEF ActionAnswered, CommandAnswered, At
<1>3. Declined(s) => \E class \in {"refused", "rejected", "unreachable"} :
                        Carries(s, "record", class)
  BY ClassifiedCarries DEF Declined, At
<1>4. AnswerLost(s) => Carries(s, "record", "unreachable")
  BY ClassifiedCarries DEF AnswerLost, At
<1>5. Unconfirmed(s) => Carries(s, "record", "unreachable")
  BY ClassifiedCarries DEF Unconfirmed, ClassOfUnconfirmed, At
<1> QED  BY <1>1, <1>2, <1>3, <1>4, <1>5

LEMMA AnswerFiled ==
  ASSUME Shaped, Filed, NEW s \in Slots,
         RunAccepted(s) \/ ActionAnswered(s) \/ CommandAnswered(s)
             \/ Declined(s) \/ AnswerLost(s) \/ Unconfirmed(s)
  PROVE  Filed'
<1>1. /\ ~At(s, "free")
      /\ UNCHANGED <<now, failures, records>>
      /\ UNCHANGED left \/ Spend("faults")
      /\ UNCHANGED centre \/ Taken(s)
  BY DEF RunAccepted, ActionAnswered, CommandAnswered, Declined, AnswerLost, Unconfirmed, At
<1>2. /\ centre'.confirmed \subseteq Attempts /\ centre'.reported \subseteq history.kept
      /\ centre'.dropped \in Nat /\ records' \in [Files -> RecordTypes]
  BY <1>1, TakenFiled DEF Filed, WorldFiled
<1>3. UNCHANGED left \/ \E what \in Bounded \ {"attempts"} : Spend(what)
  BY <1>1 DEF Bounded
<1>4. WorldFiled' /\ Used' = Used /\ history'.kept = history.kept
  <2>1. CASE UNCHANGED history
    BY <1>1, <1>2, <1>3, <2>1, WorldStays DEF Filed
  <2>2. CASE AnswerLost(s)
    <3> DEFINE yes == TRUE
    <3>1. history' = [history EXCEPT !.doubled = yes]
      BY <2>2 DEF AnswerLost
    <3>2. yes \in BOOLEAN
      OBVIOUS
    <3> HIDE DEF yes
    <3>3. /\ history'.kept = history.kept /\ history'.corrupted = history.corrupted
          /\ history'.flushed = history.flushed /\ history'.doubled \in BOOLEAN
      BY <3>1, <3>2, DoubledField
    <3> QED  BY <1>1, <1>2, <1>3, <3>3, SpendUsed DEF Filed, WorldFiled
  <2> QED  BY <2>1, <2>2 DEF RunAccepted, ActionAnswered, CommandAnswered, Declined, Unconfirmed
<1>5. \E point, class : /\ Carries(s, point, class)
                        /\ point \in Points \ {"free"} /\ class \in Classes
                        /\ point \in {"refresh", "cache", "flush"} => class = "ok"
  BY AnswerCarries DEF Points, Classes
<1> QED  BY <1>4, <1>5, CarriedFiled

LEMMA RefreshCarries ==
  ASSUME Shaped, NEW s \in Slots, Refresh(s)
  PROVE  \E point \in {"flush", "cache"} : Carries(s, point, slots[s].class)
<1>1. ~At(s, "free")
  BY DEF Refresh, At
<1>2. CASE Goto(s, "flush")
  BY <1>1, <1>2, GotoCarries
<1>3. CASE slots' = [slots EXCEPT ![s].at = "cache", ![s].cache = cache,
                                  ![s].revision = centre.revision[slots[s].macro]]
  <2> DEFINE revision == centre.revision[slots[s].macro]
             read == cache
  <2>1. slots' = [slots EXCEPT ![s] = [slots[s] EXCEPT !.at = "cache", !.cache = read,
                                                       !.revision = revision]]
    BY <1>3 DEF Shaped
  <2> HIDE DEF revision, read
  <2> QED  BY <1>1, <2>1, CachesCarries
<1> QED  BY <1>2, <1>3 DEF Refresh

LEMMA CacheFiled ==
  ASSUME Shaped, Filed, NEW s \in Slots, Refresh(s) \/ StoreCache(s)
  PROVE  Filed'
<1>1. /\ ~At(s, "free") /\ slots[s].at \in {"refresh", "cache"}
      /\ UNCHANGED <<now, failures, records, centre, history>>
      /\ UNCHANGED left \/ Spend("faults")
  BY DEF Refresh, StoreCache, At
<1>2. UNCHANGED left \/ \E what \in Bounded \ {"attempts"} : Spend(what)
  BY <1>1 DEF Bounded
<1>3. WorldFiled' /\ Used' = Used /\ history'.kept = history.kept
  BY <1>1, <1>2, WorldStays DEF Filed, WorldFiled
<1>4. \E point \in {"flush", "cache"} : Carries(s, point, slots[s].class)
  BY <1>1, RefreshCarries, GotoCarries DEF StoreCache
<1>5. slots[s].class = "ok" /\ slots[s].class \in Classes
  BY <1>1 DEF Filed, SlotFiled, Owes
<1> QED  BY <1>3, <1>4, <1>5, CarriedFiled DEF Points

(* What Flush(s) makes of the file and of the history. *)
LEMMA FlushFields ==
  ASSUME Shaped, NEW s \in Slots, Flush(s)
  PROVE  /\ slots[s].at = "flush" /\ Carries(s, "record", slots[s].class)
         /\ UNCHANGED <<now, records, centre>>
         /\ history'.kept = history.kept /\ history'.corrupted = history.corrupted
         /\ history'.overlapped = history.overlapped
         /\ UNCHANGED left \/ Spend("faults")
         /\ \/ /\ failures' = EmptyBuffer /\ history'.doubled = history.doubled
               /\ history'.flushed = history.flushed \union Ids(failures.failures)
            \/ /\ failures' = failures /\ history'.doubled /\ history'.doubled \in BOOLEAN
               /\ history'.flushed = history.flushed
<1>1. /\ At(s, "flush") /\ Goto(s, "record") /\ ~At(s, "free")
      /\ UNCHANGED <<now, records, centre>>
      /\ UNCHANGED left \/ Spend("faults")
  BY DEF Flush, At
<1>2. Carries(s, "record", slots[s].class)
  BY <1>1, GotoCarries
<1>3. CASE /\ failures' = EmptyBuffer
           /\ history' = [history EXCEPT !.flushed = @ \union Ids(failures.failures)]
  <2> DEFINE flushed == history.flushed \union Ids(failures.failures)
  <2>1. history' = [history EXCEPT !.flushed = flushed]
    BY <1>3
  <2> HIDE DEF flushed
  <2>2. /\ history'.kept = history.kept /\ history'.corrupted = history.corrupted
        /\ history'.overlapped = history.overlapped /\ history'.doubled = history.doubled
        /\ history'.flushed = flushed
    BY <2>1 DEF Shaped, IsHistory
  <2> QED  BY <1>1, <1>2, <1>3, <2>2 DEF At, flushed
<1>4. CASE UNCHANGED failures /\ history' = [history EXCEPT !.doubled = TRUE]
  <2> DEFINE yes == TRUE
  <2>1. history' = [history EXCEPT !.doubled = yes]
    BY <1>4
  <2>2. yes /\ yes \in BOOLEAN
    OBVIOUS
  <2> HIDE DEF yes
  <2>3. /\ history'.kept = history.kept /\ history'.corrupted = history.corrupted
        /\ history'.overlapped = history.overlapped /\ history'.doubled = yes
        /\ history'.flushed = history.flushed
    BY <2>1, DoubledField
  <2> QED  BY <1>1, <1>2, <1>4, <2>2, <2>3 DEF At
<1> QED  BY <1>3, <1>4 DEF Flush

LEMMA FlushFiled ==
  ASSUME Shaped, Filed, NEW s \in Slots, Flush(s)
  PROVE  Filed'
<1>1. UNCHANGED left \/ \E what \in Bounded \ {"attempts"} : Spend(what)
  BY FlushFields DEF Bounded
<1>2. Used' = Used /\ left'["attempts"] <= Budget["attempts"]
  BY <1>1, SpendUsed DEF Filed, WorldFiled
<1>3. IsFiled(failures', history.kept) /\ Len(failures'.failures) <= MaxBuffered
  BY FlushFields, EmptyIsFiled DEF Filed, WorldFiled
<1>4. history'.flushed \subseteq history.kept /\ history'.doubled \in BOOLEAN
  BY FlushFields DEF Filed, WorldFiled, IsFiled
<1>5. WorldFiled'
  BY <1>2, <1>3, <1>4, FlushFields DEF Filed, WorldFiled
<1>6. slots[s].class \in Classes
  BY DEF Filed, SlotFiled
<1> QED  BY <1>2, <1>5, <1>6, FlushFields, CarriedFiled DEF Points

LEMMA RecordTyped ==
  ASSUME Shaped, Filed, NEW s \in Slots, ~At(s, "free"), NEW class \in Classes,
         WriteRecord(s, class)
  PROVE  /\ records' \in [Files -> RecordTypes]
         /\ UNCHANGED left \/ \E what \in Bounded \ {"attempts"} : Spend(what)
<1> DEFINE record == [attempt |-> slots[s].attempt, class |-> class]
<1>1. records \in [Files -> RecordTypes] /\ record \in RecordTypes
  BY DEF Filed, WorldFiled, SlotFiled, RecordTypes
<1>2. "faults" \in Bounded \ {"attempts"}
  BY DEF Bounded
<1>3. CASE records' = [records EXCEPT ![FileOf(slots[s].kind)] = record] /\ UNCHANGED left
  <2> HIDE DEF record
  <2> QED  BY <1>1, <1>3
<1>4. CASE Spend("faults") /\ UNCHANGED records
  BY <1>1, <1>2, <1>4
<1> QED  BY <1>3, <1>4 DEF WriteRecord

LEMMA RecordFiled ==
  ASSUME Shaped, Filed, NEW s \in Slots,
         LocalError(s) \/ RecordRun(s) \/ RecordAction(s) \/ RecordNight(s) \/ RecordDegraded(s)
  PROVE  Filed'
<1>1. /\ ~At(s, "free") /\ UNCHANGED <<now, failures, centre, history>>
      /\ WriteRecord(s, "local_error") \/ WriteRecord(s, "ok") \/ WriteRecord(s, slots[s].class)
  BY DEF LocalError, RecordRun, RecordAction, RecordNight, RecordDegraded, At
<1>2. slots[s].class \in Classes /\ "local_error" \in Classes /\ "ok" \in Classes
  BY DEF Filed, SlotFiled, Classes
<1>3. /\ records' \in [Files -> RecordTypes]
      /\ UNCHANGED left \/ \E what \in Bounded \ {"attempts"} : Spend(what)
  BY <1>1, <1>2, RecordTyped
<1>4. WorldFiled' /\ Used' = Used /\ history'.kept = history.kept
  BY <1>1, <1>3, WorldStays DEF Filed, WorldFiled
<1>5. CASE RecordDegraded(s)
  <2>1. Carries(s, "keep", slots[s].class)
    BY <1>1, <1>5, GotoCarries DEF RecordDegraded
  <2> QED  BY <1>2, <1>4, <2>1, CarriedFiled DEF Points
<1>6. CASE slots' = [slots EXCEPT ![s] = Free]
  BY <1>1, <1>4, <1>6, FreesSlot, FreedFiled
<1> QED  BY <1>5, <1>6 DEF LocalError, RecordRun, RecordAction, RecordNight

(* What Keep(s) writes, when it can. *)
KeptBy(s) == [attempt |-> slots[s].attempt, time |-> slots[s].began]

LEMMA KeepFields ==
  ASSUME Shaped, Filed, NEW s \in Slots, Keep(s)
  PROVE  /\ slots[s].at = "keep" /\ Frees(s)
         /\ UNCHANGED <<now, records, centre>>
         /\ history'.corrupted = history.corrupted /\ history'.overlapped = history.overlapped
         /\ history'.doubled = history.doubled /\ history'.flushed = history.flushed
         /\ \/ /\ failures' = Appended(slots[s].buffer, KeptBy(s), slots[s].began)
               /\ history'.kept = history.kept \union {slots[s].attempt}
               /\ UNCHANGED left
            \/ /\ UNCHANGED failures /\ history'.kept = history.kept
               /\ Spend("faults")
<1>1. At(s, "keep") /\ ~At(s, "free") /\ Frees(s) /\ UNCHANGED <<now, records, centre>>
  BY FreesSlot DEF Keep, At
<1>2. CASE /\ failures' = Appended(slots[s].buffer, KeptBy(s), slots[s].began)
           /\ history' = [history EXCEPT !.kept = @ \union {slots[s].attempt}]
           /\ UNCHANGED left
  <2> DEFINE kept == history.kept \union {slots[s].attempt}
  <2>1. history' = [history EXCEPT !.kept = kept]
    BY <1>2
  <2> HIDE DEF kept
  <2>2. /\ history'.kept = kept /\ history'.corrupted = history.corrupted
        /\ history'.overlapped = history.overlapped /\ history'.doubled = history.doubled
        /\ history'.flushed = history.flushed
    BY <2>1 DEF Shaped, IsHistory
  <2> QED  BY <1>1, <1>2, <2>2 DEF At, kept
<1>3. CASE Spend("faults") /\ UNCHANGED <<failures, history>>
  BY <1>1, <1>3 DEF At
<1> QED  BY <1>2, <1>3 DEF Keep, KeptBy

(* The failure a run keeps is one its buffer does not hold. *)
LEMMA KeptIsNew ==
  ASSUME Shaped, Filed, NEW s \in Slots, slots[s].at = "keep"
  PROVE  /\ KeptBy(s) \in Failure /\ KeptBy(s).attempt = slots[s].attempt
         /\ slots[s].attempt \in 1..Used /\ slots[s].attempt \notin history.kept
         /\ slots[s].attempt \notin Ids(slots[s].buffer.failures)
         /\ IsFiled(slots[s].buffer, history.kept) /\ slots[s].began \in Nat
<1>1. SlotFiled(slots[s], history.kept, Used) /\ slots[s].at # "free"
  BY DEF Filed
<1>2. 1..Used \subseteq Attempts
  BY UsedType DEF Filed, WorldFiled
<1> QED  BY <1>1, <1>2 DEF SlotFiled, IsFiled, KeptBy, Failure

LEMMA KeepFiled ==
  ASSUME Shaped, Filed, NEW s \in Slots, Keep(s)
  PROVE  Filed'
<1>1. UNCHANGED left \/ \E what \in Bounded \ {"attempts"} : Spend(what)
  BY KeepFields DEF Bounded
<1>2. Used' = Used /\ left'["attempts"] <= Budget["attempts"]
  BY <1>1, SpendUsed DEF Filed, WorldFiled
<1>3. /\ history.kept \subseteq history'.kept /\ history'.kept \subseteq 1..Used
      /\ history'.kept \subseteq history.kept \union {slots[s].attempt}
  BY KeepFields, KeptIsNew DEF Filed, WorldFiled
<1>4. IsFiled(failures', history'.kept) /\ Len(failures'.failures) <= MaxBuffered
  <2>1. CASE UNCHANGED failures /\ history'.kept = history.kept
    BY <2>1 DEF Filed, WorldFiled
  <2>2. CASE /\ failures' = Appended(slots[s].buffer, KeptBy(s), slots[s].began)
             /\ history'.kept = history.kept \union {slots[s].attempt}
    <3> DEFINE b == slots[s].buffer
               x == KeptBy(s)
               more == [b EXCEPT !.failures = Append(@, x)]
    <3>1. /\ b \in Buffers /\ Distinct(b.failures) /\ Ids(b.failures) \subseteq history.kept
          /\ x \in Failure /\ x.attempt = slots[s].attempt /\ x.attempt \notin Ids(b.failures)
          /\ slots[s].began \in Nat
      BY KeepFields, KeptIsNew DEF IsFiled
    <3>2. /\ Ids(more.failures) = Ids(b.failures) \union {x.attempt}
      <4> HIDE DEF b, x
      <4> QED  BY <3>1, AppendedBuffer
    <3>3. /\ Sheds(failures', more)
          /\ Len(failures'.failures) <= MaxBuffered
      <4>1. failures' = Appended(b, x, slots[s].began)
        BY <2>2
      <4> HIDE DEF b, x
      <4> QED  BY <3>1, <4>1, AppendedSheds
    <3> HIDE DEF more
    <3>4. Ids(failures'.failures) \subseteq history'.kept
      BY <2>2, <3>1, <3>2, <3>3 DEF Sheds
    <3> QED  BY <3>3, <3>4 DEF Sheds, IsFiled
  <2> QED  BY <2>1, <2>2, KeepFields
<1>5. WorldFiled'
  BY <1>2, <1>3, <1>4, KeepFields DEF Filed, WorldFiled
<1> QED  BY <1>2, <1>3, <1>5, KeepFields, FreedFiled

LEMMA KilledFields ==
  ASSUME Shaped, NEW s \in Slots, Killed(s)
  PROVE  /\ Frees(s) /\ Spend("kills")
         /\ UNCHANGED <<now, failures, cache, records, centre>>
         /\ history'.kept = history.kept /\ history'.overlapped = history.overlapped
         /\ history'.corrupted = history.corrupted /\ history'.flushed = history.flushed
         /\ history'.doubled = (history.doubled \/ slots[s].attempt \in centre.confirmed)
<1> DEFINE doubled == history.doubled \/ slots[s].attempt \in centre.confirmed
<1>1. /\ Frees(s) /\ Spend("kills") /\ UNCHANGED <<now, failures, cache, records, centre>>
      /\ history' = [history EXCEPT !.doubled = doubled]
  BY FreesSlot DEF Killed
<1> HIDE DEF doubled
<1>2. /\ history'.kept = history.kept /\ history'.overlapped = history.overlapped
      /\ history'.corrupted = history.corrupted /\ history'.flushed = history.flushed
      /\ history'.doubled = doubled
  BY <1>1, DoubledField
<1> QED  BY <1>1, <1>2 DEF doubled

LEMMA KilledFiled ==
  ASSUME Shaped, Filed, NEW s \in Slots, Killed(s)
  PROVE  Filed'
<1>1. \E what \in Bounded \ {"attempts"} : Spend(what)
  BY KilledFields DEF Bounded
<1>2. Used' = Used /\ left'["attempts"] <= Budget["attempts"]
  BY <1>1, SpendUsed DEF Filed, WorldFiled
<1>3. history'.doubled \in BOOLEAN
  BY KilledFields
<1>4. WorldFiled'
  BY <1>2, <1>3, KilledFields DEF Filed, WorldFiled
<1> QED  BY <1>2, <1>4, KilledFields, FreedFiled

(* A process that begins: with what it was given, and a fresh attempt. *)
Starts(s, kind, buffer) ==
    /\ At(s, "free")
    /\ OthersStay(s)
    /\ slots'[s].at \in {"submit", "localError"} /\ slots'[s].class = "none"
    /\ slots'[s].kind = kind /\ slots'[s].attempt = Used'
    /\ slots'[s].began = now /\ slots'[s].buffer = buffer

LEMMA BeginsStarts ==
  ASSUME Shaped, NEW s \in Slots, NEW kind, NEW macro, NEW buffer,
         Begins(s, kind, macro, buffer)
  PROVE  Starts(s, kind, buffer)
<1> DEFINE attempt == Budget["attempts"] - left'["attempts"]
<1>1. PICK point \in {"submit", "localError"} :
          slots' = [slots EXCEPT ![s] =
             [Free EXCEPT !.at = point, !.kind = kind, !.macro = macro, !.began = now,
                          !.attempt = attempt, !.buffer = buffer]]
  BY DEF Begins
<1> DEFINE p == [Free EXCEPT !.at = point, !.kind = kind, !.macro = macro, !.began = now,
                             !.attempt = attempt, !.buffer = buffer]
           time == now
<1>2. slots'[s] = p /\ OthersStay(s) /\ At(s, "free") /\ attempt = Used'
  BY <1>1 DEF Shaped, OthersStay, Begins, Used
<1>3. p = [at |-> point, kind |-> kind, macro |-> macro, attempt |-> attempt,
           began |-> time, buffer |-> buffer, class |-> Free.class,
           revision |-> Free.revision, cache |-> Free.cache]
  <2>1. p = [Free EXCEPT !.at = point, !.kind = kind, !.macro = macro, !.began = time,
                         !.attempt = attempt, !.buffer = buffer]
    OBVIOUS
  <2> HIDE DEF p, attempt, time
  <2> QED  BY <2>1, FreeIsSlot DEF IsSlot
<1>4. /\ p.at = point /\ p.kind = kind /\ p.attempt = attempt /\ p.began = time
      /\ p.buffer = buffer /\ p.class = Free.class
  <2> HIDE DEF p, attempt, time
  <2> QED  BY <1>3
<1> HIDE DEF p, attempt
<1> QED  BY <1>1, <1>2, <1>4, FreeFields DEF Starts

LEMMA BeginFields ==
  ASSUME Shaped, NEW s \in Slots, BeginRun(s) \/ BeginAction(s) \/ BeginNight(s)
  PROVE  /\ Spend("attempts") /\ UNCHANGED <<now, failures, cache, records, centre>>
         /\ history'.kept = history.kept /\ history'.doubled = history.doubled
         /\ history'.corrupted = history.corrupted /\ history'.flushed = history.flushed
         /\ history.overlapped => history'.overlapped
         /\ \/ /\ Starts(s, "run", PrunedByAge(Loaded, now))
               /\ history'.overlapped \/ \A t \in Slots : ~Running(t)
            \/ \E kind \in {"action", "night"} : Starts(s, kind, EmptyBuffer)
<1>1. Spend("attempts") /\ UNCHANGED <<now, failures, cache, records, centre>>
  BY DEF BeginRun, BeginAction, BeginNight, Begins
<1>2. CASE BeginRun(s)
  <2> DEFINE overlapped == history.overlapped \/ \E t \in Slots : Running(t)
  <2>1. history' = [history EXCEPT !.overlapped = overlapped]
    BY <1>2 DEF BeginRun
  <2>2. /\ overlapped \/ \A t \in Slots : ~Running(t)
        /\ history.overlapped => overlapped
    OBVIOUS
  <2> HIDE DEF overlapped
  <2>3. /\ history'.kept = history.kept /\ history'.doubled = history.doubled
        /\ history'.corrupted = history.corrupted /\ history'.flushed = history.flushed
        /\ history'.overlapped = overlapped
    BY <2>1 DEF Shaped, IsHistory
  <2>4. Starts(s, "run", PrunedByAge(Loaded, now))
    BY <1>2, BeginsStarts DEF BeginRun
  <2> QED  BY <1>1, <2>2, <2>3, <2>4
<1>3. CASE BeginAction(s) \/ BeginNight(s)
  <2>1. UNCHANGED history
    BY <1>3 DEF BeginAction, BeginNight
  <2>2. \E kind \in {"action", "night"} : Starts(s, kind, EmptyBuffer)
    BY <1>3, BeginsStarts DEF BeginAction, BeginNight
  <2> QED  BY <1>1, <2>1, <2>2
<1> QED  BY <1>2, <1>3

LEMMA BeginFiled ==
  ASSUME Shaped, Filed, NEW s \in Slots, BeginRun(s) \/ BeginAction(s) \/ BeginNight(s)
  PROVE  Filed'
<1>1. /\ Used' = Used + 1 /\ left'["attempts"] <= Budget["attempts"]
      /\ Used' \in Attempts /\ Used' \in 1..Used' /\ Used' \notin 1..Used
      /\ 1..Used \subseteq 1..Used'
  BY BeginFields, SpendAttempt DEF Filed, WorldFiled
<1>2. WorldFiled'
  BY <1>1, BeginFields DEF Filed, WorldFiled
<1>3. PICK kind, buffer :
          /\ kind \in Kinds
          /\ Starts(s, kind, buffer)
          /\ IsFiled(buffer, history.kept)
  <2>1. IsFiled(Loaded, history.kept)
    BY EmptyIsFiled DEF Filed, WorldFiled, Loaded
  <2>2. IsFiled(PrunedByAge(Loaded, now), history.kept)
    <3>1. Sheds(PrunedByAge(Loaded, now), Loaded)
      BY <2>1, AgeSheds DEF Filed, WorldFiled, IsFiled
    <3> QED  BY <2>1, <3>1, ShedIsFiled
  <2> QED  BY <2>2, BeginFields, EmptyIsFiled DEF Kinds
<1>4. SlotFiled(slots'[s], history.kept, Used')
  BY <1>1, <1>3 DEF Filed, WorldFiled, SlotFiled, Starts, Points, Classes, Owes
<1>5. \A t \in Slots \ {s} : SlotFiled(slots'[t], history.kept, Used')
  BY <1>1, <1>3 DEF Filed, SlotFiled, Starts, OthersStay
<1>6. \A t \in Slots \ {s} : slots'[t].at # "free" => slots'[t].attempt # slots'[s].attempt
  BY <1>1, <1>3 DEF Filed, SlotFiled, Starts, OthersStay
<1>7. \A t, u \in Slots \ {s} :
         slots'[t].at # "free" /\ slots'[u].at # "free" /\ slots'[t].attempt = slots'[u].attempt
         => t = u
  BY <1>3 DEF Filed, Starts, OthersStay, At
<1>8. history'.kept = history.kept
  BY BeginFields
<1> QED  BY <1>2, <1>4, <1>5, <1>6, <1>7, <1>8 DEF Filed, At

LEMMA CorruptFields ==
  ASSUME Shaped, Corrupts
  PROVE  /\ history'.corrupted /\ history'.corrupted \in BOOLEAN
         /\ history'.kept = history.kept /\ history'.doubled = history.doubled
         /\ history'.overlapped = history.overlapped /\ history'.flushed = history.flushed
<1> DEFINE yes == TRUE
<1>1. history' = [history EXCEPT !.corrupted = yes]
  BY DEF Corrupts
<1>2. yes /\ yes \in BOOLEAN
  OBVIOUS
<1> HIDE DEF yes
<1>3. /\ history'.kept = history.kept /\ history'.doubled = history.doubled
      /\ history'.overlapped = history.overlapped /\ history'.flushed = history.flushed
      /\ history'.corrupted = yes
  BY <1>1 DEF Shaped, IsHistory
<1> QED  BY <1>2, <1>3

LEMMA EditFields ==
  ASSUME Shaped, EditMacro
  PROVE  /\ centre'.confirmed = centre.confirmed /\ centre'.reported = centre.reported
         /\ centre'.dropped = centre.dropped
<1>1. PICK m \in Macros : centre' = [centre EXCEPT !.revision[m] = @ + 1]
  BY DEF EditMacro
<1> DEFINE revision == [centre.revision EXCEPT ![m] = centre.revision[m] + 1]
<1>2. centre' = [centre EXCEPT !.revision = revision]
  BY <1>1 DEF Shaped, IsCentre
<1> HIDE DEF revision
<1> QED  BY <1>2 DEF Shaped, IsCentre

LEMMA WorldStepFiled ==
  ASSUME Shaped, Filed, Corrupts \/ Tick \/ EditMacro \/ UNCHANGED vars
  PROVE  Filed'
<1>1. /\ UNCHANGED <<records, slots>>
      /\ UNCHANGED left \/ \E what \in Bounded \ {"attempts"} : Spend(what)
  BY DEF Corrupts, Tick, EditMacro, vars, Bounded
<1>2. Used' = Used /\ left'["attempts"] <= Budget["attempts"]
  BY <1>1, SpendUsed DEF Filed, WorldFiled
<1>3. /\ history'.kept = history.kept /\ history'.flushed = history.flushed
      /\ history'.doubled = history.doubled /\ history'.corrupted \in BOOLEAN
  BY CorruptFields DEF Tick, EditMacro, vars, Filed, WorldFiled
<1>4. /\ centre'.confirmed = centre.confirmed /\ centre'.reported = centre.reported
      /\ centre'.dropped = centre.dropped
  BY EditFields DEF Corrupts, Tick, vars
<1>5. IsFiled(failures', history.kept) /\ Len(failures'.failures) <= MaxBuffered
  BY EmptyIsFiled DEF Corrupts, Tick, EditMacro, vars, Filed, WorldFiled
<1>6. now' \in Nat
  BY DEF Corrupts, Tick, EditMacro, vars, Filed, WorldFiled
<1>7. WorldFiled'
  BY <1>1, <1>2, <1>3, <1>4, <1>5, <1>6 DEF Filed, WorldFiled
<1> QED  BY <1>1, <1>2, <1>3, <1>7 DEF Filed, At

LEMMA NextFiled ==
  ASSUME Shaped, Filed, [Next]_vars
  PROVE  Filed'
<1>1. ASSUME NEW s \in Slots, Process(s)
      PROVE  Filed'
  BY <1>1, BeginFiled, AnswerFiled, CacheFiled, FlushFiled, RecordFiled, KeepFiled,
     KilledFiled DEF Process
<1> QED  BY <1>1, WorldStepFiled DEF Next
-----------------------------------------------------------------------------
(* The ledger.  While runs do not overlap and the file stays readable, a   *)
(* run that may still keep its failure holds what the file holds, less     *)
(* what was too old; one that was accepted has had it reported.            *)
Holds(p) ==
    /\ p.kind = "run"
    /\ \/ p.at \in {"submit", "localError", "keep"}
       \/ p.at = "record" /\ p.class # "ok"

Unreported == history.kept \ centre.reported

Clean == ~history.overlapped /\ ~history.corrupted

Balanced ==
    /\ ~failures.corrupt
    /\ \A s \in Slots :
          Holds(slots[s]) => slots[s].buffer = PrunedByAge(failures, slots[s].began)
    /\ Cardinality(Gone) <= failures.dropped + centre.dropped
    /\ \A s \in Slots : Owes(slots[s]) => Cardinality(Unreported) <= centre.dropped

(* ... and exactly, when nothing came between the answer and the flush. *)
Exact ==
    IF \E s \in Slots : Owes(slots[s])
    THEN Cardinality(Unreported) = centre.dropped
    ELSE /\ Ids(failures.failures) \cap centre.reported = {}
         /\ Cardinality(Gone) = failures.dropped + centre.dropped

Ledger == Clean => Balanced /\ (~history.doubled => Exact)

LEMMA InitLedger == Init => Ledger
<1> SUFFICES ASSUME Init PROVE Ledger
  OBVIOUS
<1>1. \A s \in Slots : ~Holds(slots[s]) /\ ~Owes(slots[s])
  <2>1. \A s \in Slots : slots[s] = Free
    BY DEF Init
  <2> QED  BY <2>1, FreeFields DEF Holds, Owes
<1>2. failures = EmptyBuffer /\ history.kept = {} /\ centre.reported = {} /\ centre.dropped = 0
  <2> DEFINE first == [m \in Macros |-> 1]
  <2>1. centre = [revision |-> first, confirmed |-> {}, reported |-> {}, dropped |-> 0]
    BY DEF Init
  <2> HIDE DEF first
  <2> QED  BY <2>1 DEF Init
<1>3. Cardinality(Gone) = 0
  <2>1. Gone = {}
    BY <1>2 DEF Gone
  <2> QED  BY <2>1, FS_EmptySet
<1>4. /\ ~failures.corrupt /\ failures.dropped = 0
      /\ Ids(failures.failures) \cap centre.reported = {}
  BY <1>2, EmptyIsFiled
<1> QED  BY <1>1, <1>2, <1>3, <1>4 DEF Ledger, Balanced, Exact

(* A step that moves one process and leaves the books alone. *)
LEMMA QuietLedger ==
  ASSUME Ledger, NEW s \in Slots, OthersStay(s), UNCHANGED failures,
         history'.kept = history.kept, centre'.reported = centre.reported,
         centre'.dropped = centre.dropped, history'.corrupted = history.corrupted,
         history.overlapped => history'.overlapped, history.doubled => history'.doubled,
         Holds(slots'[s]) => /\ Holds(slots[s])
                             /\ slots'[s].buffer = slots[s].buffer
                             /\ slots'[s].began = slots[s].began,
         Owes(slots'[s]) => Owes(slots[s]),
         Owes(slots[s]) /\ ~Owes(slots'[s]) => history'.doubled
  PROVE  Ledger'
<1>1. Gone' = Gone /\ Unreported' = Unreported /\ failures' = failures
  BY DEF Gone, Unreported
<1>2. /\ \A t \in Slots : Holds(slots'[t]) =>
            /\ Holds(slots[t]) /\ slots'[t].buffer = slots[t].buffer
            /\ slots'[t].began = slots[t].began
      /\ \A t \in Slots : Owes(slots'[t]) => Owes(slots[t])
      /\ ~history'.doubled => \A t \in Slots : Owes(slots[t]) => Owes(slots'[t])
  BY DEF OthersStay
<1>3. ASSUME Clean'
      PROVE  Balanced' /\ (~history'.doubled => Exact')
  <2>1. Balanced /\ (~history.doubled => Exact)
    BY <1>3 DEF Ledger, Clean
  <2>2. Balanced'
    BY <1>1, <1>2, <2>1 DEF Balanced
  <2>3. ASSUME ~history'.doubled
        PROVE  Exact'
    BY <1>1, <1>2, <2>1, <2>3 DEF Exact
  <2> QED  BY <2>2, <2>3
<1> QED  BY <1>3 DEF Ledger

(* Failures that leave the books: of the kept ones K, F was filed and B of *)
(* it stays; R was reported, perhaps of what leaves too.                   *)
LeavesAtMost(K, F, B, R) ==
    /\ Cardinality(K \ (F \union R)) \in Nat /\ Cardinality(K \ (B \union R)) \in Nat
    /\ Cardinality(F \ B) \in Nat
    /\ Cardinality(K \ (B \union R)) <= Cardinality(K \ (F \union R)) + Cardinality(F \ B)
    /\ F \cap R = {} =>
       Cardinality(K \ (B \union R)) = Cardinality(K \ (F \union R)) + Cardinality(F \ B)

LEMMA Leaving ==
  ASSUME NEW K, IsFiniteSet(K), NEW F, F \subseteq K, NEW B, B \subseteq F,
         NEW R
  PROVE  LeavesAtMost(K, F, B, R)
<1> DEFINE out == (F \ B) \ R
           gone == K \ (F \union R)
           after == K \ (B \union R)
<1>1. /\ IsFiniteSet(F) /\ IsFiniteSet(F \ B) /\ IsFiniteSet(out)
      /\ IsFiniteSet(gone) /\ IsFiniteSet(after)
  <2>1. F \ B \in SUBSET K /\ F \in SUBSET K /\ out \in SUBSET K /\ gone \in SUBSET K
        /\ after \in SUBSET K
    OBVIOUS
  <2> QED  BY <2>1, FS_Subset
<1>2. after = gone \union out /\ gone \cap out = {}
  OBVIOUS
<1>3. /\ Cardinality(after) = Cardinality(gone) + Cardinality(out)
      /\ Cardinality(gone) \in Nat /\ Cardinality(out) \in Nat
  <2> HIDE DEF after, gone, out
  <2> QED  BY <1>1, <1>2, DisjointUnion
<1>4. Cardinality(out) <= Cardinality(F \ B)
  <2>1. out \in SUBSET (F \ B)
    OBVIOUS
  <2> QED  BY <1>1, <2>1, FS_Subset
<1>5. F \cap R = {} => Cardinality(out) = Cardinality(F \ B)
  <2>1. F \cap R = {} => out = F \ B
    OBVIOUS
  <2> QED  BY <2>1
<1>6. Cardinality(F \ B) \in Nat /\ Cardinality(after) \in Nat
  BY <1>1, FS_CardinalityType
<1> HIDE DEF out, gone, after
<1>7. /\ Cardinality(after) <= Cardinality(gone) + Cardinality(F \ B)
      /\ F \cap R = {} => Cardinality(after) = Cardinality(gone) + Cardinality(F \ B)
  BY <1>3, <1>4, <1>5, <1>6
<1> QED  BY <1>3, <1>6, <1>7 DEF gone, after, LeavesAtMost

(* The file, the history and the buffer of a run that holds it. *)
LEMMA BooksTyped ==
  ASSUME Shaped, Filed
  PROVE  /\ IsFiniteSet(history.kept) /\ IsFiniteSet(Unreported) /\ IsFiniteSet(Gone)
         /\ Cardinality(Gone) \in Nat /\ Cardinality(Unreported) \in Nat
         /\ Ids(failures.failures) \subseteq history.kept
         /\ centre.reported \subseteq history.kept
         /\ failures.dropped \in Nat /\ centre.dropped \in Nat
         /\ failures \in Buffers /\ Distinct(failures.failures)
<1>1. IsFiniteSet(history.kept)
  <2>1. Used \in Nat /\ history.kept \in SUBSET (1..Used)
    BY UsedType DEF Filed, WorldFiled
  <2>2. IsFiniteSet(1..Used)
    BY <2>1, FS_Interval
  <2> QED  BY <2>1, <2>2, FS_Subset
<1>2. Gone \in SUBSET history.kept /\ Unreported \in SUBSET history.kept
  BY DEF Gone, Unreported
<1>3. /\ IsFiniteSet(Gone) /\ IsFiniteSet(Unreported)
      /\ Cardinality(Gone) \in Nat /\ Cardinality(Unreported) \in Nat
  BY <1>1, <1>2, FS_Subset, FS_CardinalityType
<1> QED  BY <1>1, <1>3 DEF Filed, WorldFiled, IsFiled, Buffers

LEMMA HeldBuffer ==
  ASSUME Shaped, Filed, Balanced, NEW s \in Slots, Holds(slots[s])
  PROVE  Sheds(slots[s].buffer, failures)
<1>1. slots[s].began \in Nat
  BY DEF Filed, SlotFiled
<1> QED  BY <1>1, BooksTyped, AgeSheds DEF Balanced

(* No run but s. *)
LEMMA OnlyRun ==
  ASSUME Shaped, Inv, NEW s \in Slots, Running(s), ~history.overlapped
  PROVE  \A t \in Slots \ {s} : ~Holds(slots[t]) /\ ~Owes(slots[t])
<1>1. \A t \in Slots \ {s} : ~Running(t)
  BY DEF Inv, OneRun
<1>2. \A t \in Slots : Holds(slots[t]) \/ Owes(slots[t]) => Running(t)
  BY DEF Inv, RunsOnly, Holds, Owes, Running, At
<1> QED  BY <1>1, <1>2

(* The coordinator takes the run that holds the buffer. *)
LEMMA ReportLedger ==
  ASSUME Shaped, Inv, Filed, Filed', Ledger, NEW s \in Slots, Holds(slots[s]), Running(s),
         Taken(s), UNCHANGED failures, history'.kept = history.kept,
         history'.corrupted = history.corrupted, history'.overlapped = history.overlapped,
         OthersStay(s),
         \/ Owes(slots'[s]) /\ ~Holds(slots'[s]) /\ history'.doubled = history.doubled
         \/ /\ Holds(slots'[s]) /\ ~Owes(slots'[s]) /\ history'.doubled
            /\ slots'[s].buffer = slots[s].buffer /\ slots'[s].began = slots[s].began
  PROVE  Ledger'
<1> SUFFICES ASSUME Clean'
             PROVE  Balanced' /\ (~history'.doubled => Exact')
  BY DEF Ledger
<1>0. Clean /\ Balanced /\ (~history.doubled => Exact)
  BY DEF Clean, Ledger
<1> DEFINE b == slots[s].buffer
           K == history.kept
           F == Ids(failures.failures)
           B == Ids(b.failures)
           R == centre.reported
<1>1. /\ B \subseteq F /\ F \subseteq K /\ R \subseteq K /\ IsFiniteSet(K)
      /\ b.dropped = failures.dropped + Cardinality(F \ B)
      /\ failures.dropped \in Nat /\ centre.dropped \in Nat
  BY <1>0, HeldBuffer, BooksTyped DEF Sheds
<1>2. centre'.reported = R \union B /\ centre'.dropped = centre.dropped + b.dropped
  BY TakenFields DEF Running
<1>3. /\ Cardinality(K \ (F \union R)) \in Nat /\ Cardinality(K \ (B \union R)) \in Nat
      /\ Cardinality(F \ B) \in Nat
      /\ Cardinality(K \ (B \union R)) <= Cardinality(K \ (F \union R)) + Cardinality(F \ B)
      /\ F \cap R = {} =>
         Cardinality(K \ (B \union R)) = Cardinality(K \ (F \union R)) + Cardinality(F \ B)
  <2> HIDE DEF K, F, B, R
  <2>1. LeavesAtMost(K, F, B, R)
    BY <1>1, Leaving
  <2> QED  BY <2>1 DEF LeavesAtMost
<1>4. Gone = K \ (F \union R) /\ Unreported' = K \ (B \union R)
  BY <1>2 DEF Gone, Unreported
<1>5. Cardinality(Gone) <= failures.dropped + centre.dropped
  BY <1>0 DEF Balanced
<1>6. Cardinality(Unreported') <= centre'.dropped
  <2> HIDE DEF K, F, B, R, b
  <2> QED  BY <1>1, <1>2, <1>3, <1>4, <1>5
<1>7. Gone' \subseteq Unreported' /\ Gone' \subseteq Gone
  BY <1>2 DEF Gone, Unreported
<1>8. Cardinality(Gone') <= failures'.dropped + centre'.dropped
  <2>1. Cardinality(Gone') <= Cardinality(Gone) /\ Cardinality(Gone') \in Nat
        /\ Cardinality(Gone) \in Nat
    BY <1>7, BooksTyped, FS_Subset, FS_CardinalityType
  <2>2. b.dropped \in Nat
    BY <1>1, <1>3
  <2> HIDE DEF K, F, B, R, b
  <2> QED  BY <1>1, <1>2, <1>5, <2>1, <2>2
<1>9. \A t \in Slots : Holds(slots'[t]) => slots'[t].buffer = PrunedByAge(failures', slots'[t].began)
  <2>1. \A t \in Slots \ {s} : ~Holds(slots'[t])
    BY <1>0, OnlyRun DEF OthersStay, Clean
  <2>2. Holds(slots'[s]) => slots'[s].buffer = PrunedByAge(failures', slots'[s].began)
    BY <1>0 DEF Balanced
  <2> QED  BY <2>1, <2>2
<1>10. Balanced'
  BY <1>0, <1>6, <1>8, <1>9 DEF Balanced
<1>11. ASSUME ~history'.doubled
       PROVE  Exact'
  <2>1. Exact /\ Owes(slots'[s])
    BY <1>0, <1>11
  <2>2. \A t \in Slots : ~Owes(slots[t])
    <3>1. ~Owes(slots[s])
      BY DEF Holds, Owes
    <3> QED  BY <1>0, <3>1, OnlyRun DEF Clean
  <2>3. F \cap R = {} /\ Cardinality(Gone) = failures.dropped + centre.dropped
    BY <2>1, <2>2 DEF Exact
  <2>4. Cardinality(Unreported') = centre'.dropped
    <3> HIDE DEF K, F, B, R, b
    <3> QED  BY <1>1, <1>2, <1>3, <1>4, <2>3
  <2> QED  BY <2>1, <2>4 DEF Exact
<1> QED  BY <1>10, <1>11

(* The accepted run clears the file. *)
LEMMA FlushLedger ==
  ASSUME Shaped, Inv, Filed, Ledger, NEW s \in Slots, Flush(s)
  PROVE  Ledger'
<1>1. Owes(slots[s]) /\ ~Owes(slots'[s]) /\ ~Holds(slots'[s]) /\ Running(s)
  <2>1. slots[s].at = "flush" /\ slots'[s].at = "record" /\ slots'[s].class = slots[s].class
    BY FlushFields DEF Carries
  <2>2. slots[s].class = "ok" /\ slots[s].kind = "run"
    BY <2>1 DEF Filed, SlotFiled, Owes, Inv, RunsOnly
  <2> QED  BY <2>1, <2>2 DEF Owes, Holds, Running, At
<1>2. CASE failures' = failures /\ history'.doubled
  <2>1. OthersStay(s)
    BY FlushFields DEF Carries
  <2>2. /\ UNCHANGED failures /\ history'.kept = history.kept
        /\ centre'.reported = centre.reported /\ centre'.dropped = centre.dropped
        /\ history'.corrupted = history.corrupted /\ history'.overlapped = history.overlapped
    BY <1>2, FlushFields
  <2> QED  BY <1>1, <1>2, <2>1, <2>2, QuietLedger
<1>3. CASE failures' = EmptyBuffer /\ history'.doubled = history.doubled
  <2> SUFFICES ASSUME Clean'
               PROVE  Balanced' /\ (~history'.doubled => Exact')
    BY DEF Ledger
  <2>0. Clean /\ Balanced /\ (~history.doubled => Exact)
    BY FlushFields DEF Clean, Ledger
  <2>1. /\ Gone' = Unreported /\ centre' = centre /\ ~failures'.corrupt
        /\ failures'.dropped = 0 /\ Ids(failures'.failures) = {}
    BY <1>3, FlushFields, EmptyIsFiled DEF Gone, Unreported
  <2>2. Cardinality(Unreported) <= centre.dropped /\ centre.dropped \in Nat
    BY <1>1, <2>0, BooksTyped DEF Balanced
  <2>3. \A t \in Slots : ~Holds(slots'[t]) /\ ~Owes(slots'[t])
    <3>1. \A t \in Slots \ {s} : ~Holds(slots[t]) /\ ~Owes(slots[t])
      BY <1>1, <2>0, OnlyRun DEF Clean
    <3> QED  BY <1>1, <3>1, FlushFields DEF Carries, OthersStay
  <2>4. Cardinality(Gone') <= failures'.dropped + centre'.dropped
    BY <2>1, <2>2
  <2>5. Balanced'
    BY <2>1, <2>3, <2>4 DEF Balanced
  <2>6. ASSUME ~history'.doubled
        PROVE  Exact'
    <3>1. Exact
      BY <1>3, <2>0, <2>6
    <3>2. Cardinality(Unreported) = centre.dropped
      BY <1>1, <3>1 DEF Exact
    <3>3. Cardinality(Gone') = failures'.dropped + centre'.dropped
      BY <2>1, <2>2, <3>2
    <3>4. Ids(failures'.failures) \cap centre'.reported = {}
      BY <2>1
    <3> QED  BY <2>3, <3>3, <3>4 DEF Exact
  <2> QED  BY <2>5, <2>6
<1> QED  BY <1>2, <1>3, FlushFields

(* The run that failed keeps its failure. *)
LEMMA KeepLedger ==
  ASSUME Shaped, Inv, Filed, Ledger, NEW s \in Slots, Keep(s)
  PROVE  Ledger'
<1>1. slots[s].at = "keep" /\ Holds(slots[s]) /\ ~Owes(slots[s]) /\ Running(s)
  BY KeepFields DEF Inv, RunsOnly, Holds, Owes, Running, At
<1>2. OthersStay(s) /\ ~Holds(slots'[s]) /\ ~Owes(slots'[s])
  BY KeepFields, FreeFields DEF Frees, Holds, Owes
<1>3. CASE UNCHANGED failures /\ history'.kept = history.kept
  <2>1. /\ centre'.reported = centre.reported /\ centre'.dropped = centre.dropped
        /\ history'.corrupted = history.corrupted /\ history'.overlapped = history.overlapped
        /\ history'.doubled = history.doubled
    BY KeepFields
  <2> QED  BY <1>1, <1>2, <1>3, <2>1, QuietLedger
<1>4. CASE /\ failures' = Appended(slots[s].buffer, KeptBy(s), slots[s].began)
           /\ history'.kept = history.kept \union {slots[s].attempt}
  <2> SUFFICES ASSUME Clean'
               PROVE  Balanced' /\ (~history'.doubled => Exact')
    BY DEF Ledger
  <2>0. /\ Clean /\ Balanced /\ (~history.doubled => Exact)
        /\ history'.doubled = history.doubled /\ centre' = centre
    BY KeepFields DEF Clean, Ledger
  <2> DEFINE b == slots[s].buffer
             x == KeptBy(s)
             a == slots[s].attempt
             more == [b EXCEPT !.failures = Append(@, x)]
             K == history.kept
             F == Ids(failures.failures)
             B == Ids(b.failures)
             R == centre.reported
             M == Ids(more.failures)
             N == Ids(failures'.failures)
  <2>1. /\ B \subseteq F /\ F \subseteq K /\ R \subseteq K /\ IsFiniteSet(K)
        /\ b.dropped = failures.dropped + Cardinality(F \ B)
        /\ failures.dropped \in Nat /\ centre.dropped \in Nat
        /\ b.corrupt = failures.corrupt
    BY <1>1, <2>0, HeldBuffer, BooksTyped DEF Sheds
  <2>2. /\ b \in Buffers /\ Distinct(b.failures) /\ a \notin K /\ a \notin B
        /\ x \in Failure /\ x.attempt = a /\ slots[s].began \in Nat
    BY <1>1, KeptIsNew DEF IsFiled
  <2>3. M = B \union {a} /\ more.dropped = b.dropped /\ more.corrupt = b.corrupt
    <3> HIDE DEF b, x, a
    <3> QED  BY <2>2, AppendedBuffer
  <2>4. Sheds(failures', more)
    <3>1. failures' = Appended(b, x, slots[s].began)
      BY <1>4
    <3> HIDE DEF b, x
    <3> QED  BY <2>2, <3>1, AppendedSheds
  <2>5. N \subseteq M /\ failures'.dropped = b.dropped + Cardinality(M \ N)
        /\ failures'.corrupt = failures.corrupt
    BY <2>1, <2>3, <2>4 DEF Sheds
  <2> HIDE DEF more
  <2>6. Gone = K \ (F \union R) /\ Gone' = (K \union {a}) \ (N \union R)
    BY <1>4, <2>0 DEF Gone
  <2>7. /\ Cardinality(Gone) <= failures.dropped + centre.dropped
        /\ ~failures.corrupt
    BY <2>0 DEF Balanced
  <2>8. LeavesAtMost(K, F, B, R)
    <3> HIDE DEF K, F, B, R
    <3> QED  BY <2>1, Leaving
  <2> DEFINE L == K \union {a}
  <2>9. /\ IsFiniteSet(L) /\ M \subseteq L /\ L \ (M \union R) = K \ (B \union R)
    <3>1. IsFiniteSet(L)
      BY <2>1, FS_AddElement
    <3>2. a \notin R
      BY <2>1, <2>2
    <3> HIDE DEF K, F, B, R, M, a
    <3>3. M \subseteq L
      BY <2>1, <2>3
    <3>4. L \ (M \union R) = K \ (B \union R)
      BY <2>2, <2>3, <3>2
    <3> QED  BY <3>1, <3>3, <3>4
  <2>10. LeavesAtMost(L, M, N, R)
    <3> HIDE DEF L, M, N, R
    <3> QED  BY <2>5, <2>9, Leaving
  <2>11. Cardinality(L \ (M \union R)) = Cardinality(K \ (B \union R))
    BY <2>9
  <2> HIDE DEF b, x, K, F, B, R, M, N, L
  <2>16. /\ Cardinality(Gone) = Cardinality(K \ (F \union R))
         /\ Cardinality(Gone') = Cardinality(L \ (N \union R))
    BY <2>6 DEF L
  <2>17. /\ Cardinality(Gone) \in Nat /\ Cardinality(Gone') \in Nat
         /\ Cardinality(F \ B) \in Nat /\ Cardinality(M \ N) \in Nat
         /\ Cardinality(Gone') <= Cardinality(Gone) + Cardinality(F \ B) + Cardinality(M \ N)
         /\ F \cap R = {} /\ M \cap R = {} =>
            Cardinality(Gone') = Cardinality(Gone) + Cardinality(F \ B) + Cardinality(M \ N)
    <3>1. /\ Cardinality(K \ (F \union R)) \in Nat /\ Cardinality(K \ (B \union R)) \in Nat
          /\ Cardinality(L \ (N \union R)) \in Nat
          /\ Cardinality(F \ B) \in Nat /\ Cardinality(M \ N) \in Nat
          /\ Cardinality(K \ (B \union R)) <= Cardinality(K \ (F \union R)) + Cardinality(F \ B)
          /\ Cardinality(L \ (N \union R)) <= Cardinality(L \ (M \union R)) + Cardinality(M \ N)
      BY <2>8, <2>10 DEF LeavesAtMost
    <3>2. F \cap R = {} /\ M \cap R = {} =>
          /\ Cardinality(K \ (B \union R)) = Cardinality(K \ (F \union R)) + Cardinality(F \ B)
          /\ Cardinality(L \ (N \union R)) = Cardinality(L \ (M \union R)) + Cardinality(M \ N)
      BY <2>8, <2>10 DEF LeavesAtMost
    <3> QED  BY <2>11, <2>16, <3>1, <3>2
  <2>18. /\ failures'.dropped = failures.dropped + Cardinality(F \ B) + Cardinality(M \ N)
         /\ centre'.dropped = centre.dropped
         /\ failures.dropped \in Nat /\ centre.dropped \in Nat
    BY <2>0, <2>1, <2>5
  <2>12. Cardinality(Gone') <= failures'.dropped + centre'.dropped
    BY <2>7, <2>17, <2>18
  <2>13. \A t \in Slots : ~Holds(slots'[t]) /\ ~Owes(slots'[t]) /\ ~Owes(slots[t])
    <3>1. \A t \in Slots \ {s} : ~Holds(slots[t]) /\ ~Owes(slots[t])
      BY <1>1, <2>0, OnlyRun DEF Clean
    <3> QED  BY <1>1, <1>2, <3>1 DEF OthersStay
  <2>14. Balanced'
    BY <2>5, <2>7, <2>12, <2>13 DEF Balanced
  <2>15. ASSUME ~history'.doubled
         PROVE  Exact'
    <3>1. F \cap R = {} /\ Cardinality(Gone) = failures.dropped + centre.dropped
      BY <2>0, <2>13, <2>15 DEF Exact, F, R
    <3>2. M \cap R = {}
      <4>1. a \notin R
        BY <2>1, <2>2
      <4> QED  BY <2>1, <2>3, <3>1, <4>1
    <3>3. Cardinality(Gone') = failures'.dropped + centre'.dropped
      BY <2>17, <2>18, <3>1, <3>2
    <3>4. Ids(failures'.failures) \cap centre'.reported = {}
      BY <2>0, <2>5, <3>2 DEF N, R
    <3> QED  BY <2>13, <3>3, <3>4 DEF Exact
  <2> QED  BY <2>14, <2>15
<1> QED  BY <1>3, <1>4, KeepFields

LEMMA BeginLedger ==
  ASSUME Shaped, Inv, Filed, Ledger, NEW s \in Slots,
         BeginRun(s) \/ BeginAction(s) \/ BeginNight(s)
  PROVE  Ledger'
<1>1. ~Owes(slots[s]) /\ ~Holds(slots[s])
  BY BeginFields DEF Starts, At, Owes, Holds
<1>2. /\ UNCHANGED <<failures, centre>> /\ history'.kept = history.kept
      /\ history'.corrupted = history.corrupted /\ history'.doubled = history.doubled
      /\ history.overlapped => history'.overlapped
  BY BeginFields
<1>3. CASE \E kind \in {"action", "night"} : Starts(s, kind, EmptyBuffer)
  <2>1. OthersStay(s) /\ ~Owes(slots'[s]) /\ ~Holds(slots'[s])
    BY <1>3 DEF Starts, Owes, Holds
  <2> QED  BY <1>1, <1>2, <2>1, QuietLedger
<1>4. CASE /\ Starts(s, "run", PrunedByAge(Loaded, now))
           /\ history'.overlapped \/ \A t \in Slots : ~Running(t)
  <2> SUFFICES ASSUME Clean'
               PROVE  Balanced' /\ (~history'.doubled => Exact')
    BY DEF Ledger
  <2>1. Clean /\ Balanced /\ (~history.doubled => Exact)
    BY <1>2 DEF Clean, Ledger
  <2>2. \A t \in Slots : ~Holds(slots[t]) /\ ~Owes(slots[t])
    BY <1>4 DEF Clean, Inv, RunsOnly, Holds, Owes, Running, At
  <2>3. Loaded = failures
    BY <2>1 DEF Balanced, Loaded
  <2>4. /\ slots'[s].buffer = PrunedByAge(failures, slots'[s].began)
        /\ ~Owes(slots'[s]) /\ OthersStay(s)
    BY <1>4, <2>3 DEF Starts, Owes
  <2>5. Gone' = Gone /\ failures' = failures /\ centre' = centre
    BY <1>2 DEF Gone
  <2>6. /\ \A t \in Slots : ~Owes(slots'[t])
        /\ \A t \in Slots : Holds(slots'[t]) =>
              slots'[t].buffer = PrunedByAge(failures', slots'[t].began)
    BY <2>2, <2>4, <2>5 DEF OthersStay
  <2>7. Balanced'
    BY <2>1, <2>5, <2>6 DEF Balanced
  <2>8. ~history'.doubled => Exact'
    BY <1>2, <2>1, <2>2, <2>5, <2>6 DEF Exact
  <2> QED  BY <2>7, <2>8
<1> QED  BY <1>3, <1>4, BeginFields

LEMMA AnswerLedger ==
  ASSUME Shaped, Inv, Filed, Filed', Ledger, NEW s \in Slots,
         RunAccepted(s) \/ ActionAnswered(s) \/ CommandAnswered(s)
             \/ Declined(s) \/ AnswerLost(s) \/ Unconfirmed(s)
  PROVE  Ledger'
<1>1. /\ slots[s].at = "submit" /\ UNCHANGED failures
      /\ centre.dropped \in Nat
      /\ ~Owes(slots[s]) /\ (Holds(slots[s]) <=> slots[s].kind = "run")
      /\ Running(s) <=> slots[s].kind = "run"
  BY DEF RunAccepted, ActionAnswered, CommandAnswered, Declined, AnswerLost, Unconfirmed, At,
         Owes, Holds, Running, Filed, WorldFiled
<1>2. CASE RunAccepted(s)
  <2>1. Carries(s, "refresh", "ok") /\ slots[s].kind = "run" /\ Taken(s) /\ UNCHANGED history
    BY <1>2, AnswerCarries DEF RunAccepted
  <2>2. Owes(slots'[s]) /\ ~Holds(slots'[s]) /\ OthersStay(s)
    BY <2>1 DEF Carries, Owes, Holds
  <2> QED  BY <1>1, <2>1, <2>2, ReportLedger
<1>3. CASE ActionAnswered(s) \/ CommandAnswered(s)
  <2>1. /\ Carries(s, "record", "ok") /\ slots[s].kind # "run" /\ Taken(s) /\ UNCHANGED history
    BY <1>3, AnswerCarries DEF ActionAnswered, CommandAnswered
  <2>2. ~Owes(slots'[s]) /\ ~Holds(slots'[s]) /\ OthersStay(s)
    BY <2>1 DEF Carries, Owes, Holds
  <2>3. centre'.reported = centre.reported /\ centre'.dropped = centre.dropped
    BY <1>1, <2>1, TakenFields
  <2> QED  BY <1>1, <2>1, <2>2, <2>3, QuietLedger
<1>4. CASE Declined(s) \/ Unconfirmed(s)
  <2>1. /\ UNCHANGED <<centre, history>>
        /\ \E class : Carries(s, "record", class)
    BY <1>4, AnswerCarries DEF Declined, Unconfirmed
  <2>2. /\ ~Owes(slots'[s]) /\ OthersStay(s)
        /\ Holds(slots'[s]) => slots[s].kind = "run"
        /\ slots'[s].buffer = slots[s].buffer /\ slots'[s].began = slots[s].began
    BY <2>1 DEF Carries, Owes, Holds
  <2> QED  BY <1>1, <2>1, <2>2, QuietLedger
<1>5. CASE AnswerLost(s)
  <2> DEFINE yes == TRUE
  <2>1. /\ Carries(s, "record", "unreachable") /\ Taken(s)
        /\ history' = [history EXCEPT !.doubled = yes]
    BY <1>5, AnswerCarries DEF AnswerLost
  <2>2. yes
    OBVIOUS
  <2> HIDE DEF yes
  <2>3. /\ history'.kept = history.kept /\ history'.corrupted = history.corrupted
        /\ history'.overlapped = history.overlapped /\ history'.doubled
    BY <2>1, <2>2, DoubledField
  <2>4. /\ ~Owes(slots'[s]) /\ OthersStay(s)
        /\ Holds(slots'[s]) <=> slots[s].kind = "run"
        /\ slots'[s].buffer = slots[s].buffer /\ slots'[s].began = slots[s].began
    BY <2>1 DEF Carries, Owes, Holds
  <2>5. CASE slots[s].kind = "run"
    BY <1>1, <2>1, <2>3, <2>4, <2>5, ReportLedger
  <2>6. CASE slots[s].kind # "run"
    <3>1. centre'.reported = centre.reported /\ centre'.dropped = centre.dropped
      BY <1>1, <2>1, <2>6, TakenFields
    <3> QED  BY <1>1, <2>3, <2>4, <2>6, <3>1, QuietLedger
  <2> QED  BY <2>5, <2>6
<1> QED  BY <1>2, <1>3, <1>4, <1>5

LEMMA CacheLedger ==
  ASSUME Shaped, Inv, Filed, Ledger, NEW s \in Slots, Refresh(s) \/ StoreCache(s)
  PROVE  Ledger'
<1>1. /\ slots[s].at \in {"refresh", "cache"} /\ ~At(s, "free")
      /\ UNCHANGED <<failures, centre, history>>
  BY DEF Refresh, StoreCache, At
<1>2. \E point \in {"flush", "cache"} : Carries(s, point, slots[s].class)
  BY <1>1, RefreshCarries, GotoCarries DEF StoreCache
<1>3. Owes(slots[s]) /\ Owes(slots'[s]) /\ ~Holds(slots'[s]) /\ OthersStay(s)
  BY <1>1, <1>2 DEF Carries, Owes, Holds
<1> QED  BY <1>1, <1>3, QuietLedger

LEMMA RecordLedger ==
  ASSUME Shaped, Inv, Filed, Ledger, NEW s \in Slots,
         LocalError(s) \/ RecordRun(s) \/ RecordAction(s) \/ RecordNight(s) \/ RecordDegraded(s)
  PROVE  Ledger'
<1>1. /\ slots[s].at \in {"localError", "record"} /\ ~At(s, "free") /\ ~Owes(slots[s])
      /\ UNCHANGED <<failures, centre, history>>
  BY DEF LocalError, RecordRun, RecordAction, RecordNight, RecordDegraded, At, Owes
<1>2. CASE RecordDegraded(s)
  <2>1. Carries(s, "keep", slots[s].class)
    BY <1>1, <1>2, GotoCarries DEF RecordDegraded
  <2>2. /\ Holds(slots[s]) /\ ~Owes(slots'[s]) /\ OthersStay(s)
        /\ slots'[s].buffer = slots[s].buffer /\ slots'[s].began = slots[s].began
    BY <1>2, <2>1 DEF RecordDegraded, Carries, Owes, Holds, At
  <2> QED  BY <1>1, <2>2, QuietLedger
<1>3. CASE slots' = [slots EXCEPT ![s] = Free]
  <2>1. OthersStay(s) /\ slots'[s] = Free
    BY <1>1, <1>3, FreesSlot DEF Frees
  <2>2. ~Owes(slots'[s]) /\ ~Holds(slots'[s])
    BY <2>1, FreeFields DEF Owes, Holds
  <2> QED  BY <1>1, <2>1, <2>2, QuietLedger
<1> QED  BY <1>2, <1>3 DEF LocalError, RecordRun, RecordAction, RecordNight

LEMMA KilledLedger ==
  ASSUME Shaped, Inv, Filed, Ledger, NEW s \in Slots, Killed(s)
  PROVE  Ledger'
<1>1. /\ OthersStay(s) /\ slots'[s] = Free
      /\ UNCHANGED <<failures, centre>>
      /\ history'.kept = history.kept /\ history'.overlapped = history.overlapped
      /\ history'.corrupted = history.corrupted
      /\ history'.doubled = (history.doubled \/ slots[s].attempt \in centre.confirmed)
  BY KilledFields DEF Frees
<1>2. ~Owes(slots'[s]) /\ ~Holds(slots'[s])
  BY <1>1, FreeFields DEF Owes, Holds
<1>3. Owes(slots[s]) => slots[s].attempt \in centre.confirmed
  BY DEF Filed, SlotFiled, Inv, OkIsTaken
<1>4. /\ history.doubled => history'.doubled
      /\ Owes(slots[s]) => history'.doubled
  BY <1>1, <1>3
<1> QED  BY <1>1, <1>2, <1>4, QuietLedger

LEMMA WorldStepLedger ==
  ASSUME Shaped, Inv, Filed, Ledger, Corrupts \/ Tick \/ EditMacro \/ UNCHANGED vars
  PROVE  Ledger'
<1>1. CASE Corrupts
  BY <1>1, CorruptFields DEF Ledger, Clean
<1>2. CASE Tick \/ EditMacro \/ UNCHANGED vars
  <2>1. UNCHANGED <<failures, slots, history>>
    BY <1>2 DEF Tick, EditMacro, vars
  <2>2. centre'.reported = centre.reported /\ centre'.dropped = centre.dropped
    BY <1>2, EditFields DEF Tick, vars
  <2>3. Gone' = Gone /\ Unreported' = Unreported
    BY <2>1, <2>2 DEF Gone, Unreported
  <2> QED  BY <2>1, <2>2, <2>3 DEF Ledger, Clean, Balanced, Exact
<1> QED  BY <1>1, <1>2

LEMMA NextLedger ==
  ASSUME Shaped, Inv, Filed, Filed', Ledger, [Next]_vars
  PROVE  Ledger'
<1>1. ASSUME NEW s \in Slots, Process(s)
      PROVE  Ledger'
  BY <1>1, BeginLedger, AnswerLedger, CacheLedger, FlushLedger, RecordLedger, KeepLedger,
     KilledLedger DEF Process
<1> QED  BY <1>1, WorldStepLedger DEF Next

(* The inductive invariant: what is typed and filed, and the ledger. *)
THEOREM LedgerInvariant == Spec => [](Shaped /\ Inv /\ Filed /\ Ledger)
<1>1. Init => Shaped /\ Inv /\ Filed /\ Ledger
  BY InitShaped, InitInv, InitFiled, InitLedger
<1>2. Shaped /\ Inv /\ Filed /\ Ledger /\ [Next]_vars => (Shaped /\ Inv /\ Filed /\ Ledger)'
  <2> SUFFICES ASSUME Shaped, Inv, Filed, Ledger, [Next]_vars
               PROVE  Shaped' /\ Inv' /\ Filed' /\ Ledger'
    OBVIOUS
  <2>1. Shaped' /\ Inv'
    BY NextStep
  <2>2. Filed'
    BY NextFiled
  <2> QED  BY <2>1, <2>2, NextLedger
<1> QED  BY <1>1, <1>2, PTL DEF Spec

(* The files, the processes and the coordinator are of their types; the    *)
(* failure file never outgrows maxBufferedFailures (failurebuffer.go:17).  *)
THEOREM HelperTypes == Spec => []TypeOK
<1>1. Shaped /\ Filed => TypeOK
  <2> SUFFICES ASSUME Shaped, Filed PROVE TypeOK
    OBVIOUS
  <2> DEFINE SlotType ==
         [at : Points, kind : Kinds, macro : Macros, attempt : Attempts \union {NoAttempt},
          began : Nat, buffer : Buffers, class : Classes, revision : Nat, cache : [Macros -> Nat]]
  <2>1. ASSUME NEW s \in Slots
        PROVE  slots[s] \in SlotType
    <3> DEFINE p == slots[s]
    <3>1. IsSlot(p) /\ SlotFiled(p, history.kept, Used)
      BY DEF Shaped, Filed
    <3> HIDE DEF p
    <3>2. /\ p.at \in Points /\ p.kind \in Kinds /\ p.macro \in Macros
          /\ p.attempt \in Attempts \union {NoAttempt} /\ p.began \in Nat
          /\ p.buffer \in Buffers /\ p.class \in Classes /\ p.revision \in Nat
          /\ p.cache \in [Macros -> Nat]
      BY <3>1 DEF IsSlot, SlotFiled, IsFiled
    <3>3. p = [at |-> p.at, kind |-> p.kind, macro |-> p.macro, attempt |-> p.attempt,
               began |-> p.began, buffer |-> p.buffer, class |-> p.class,
               revision |-> p.revision, cache |-> p.cache]
      BY <3>1 DEF IsSlot
    <3>4. p \in SlotType
      BY <3>2, <3>3
    <3> QED  BY <3>4 DEF p
  <2> HIDE DEF SlotType
  <2>2. slots \in [Slots -> SlotType]
    BY <2>1 DEF Shaped
  <2>3. history.kept \subseteq Attempts /\ history.flushed \subseteq Attempts
    BY UsedType DEF Filed, WorldFiled
  <2>4. centre \in [revision : [Macros -> Nat], confirmed : SUBSET Attempts,
                    reported : SUBSET Attempts, dropped : Nat]
    BY <2>3 DEF Shaped, IsCentre, Filed, WorldFiled
  <2>5. history \in [kept : SUBSET Attempts, doubled : BOOLEAN, overlapped : BOOLEAN,
                     corrupted : BOOLEAN, flushed : SUBSET Attempts]
    BY <2>3 DEF Shaped, IsHistory, Filed, WorldFiled
  <2>6. /\ now \in Nat /\ failures \in Buffers /\ Len(failures.failures) <= MaxBuffered
        /\ records \in [Files -> [attempt : Attempts \union {NoAttempt}, class : Classes]]
        /\ cache \in [Macros -> Nat] /\ left \in [Bounded -> Nat]
    BY DEF Shaped, Filed, WorldFiled, IsFiled, RecordTypes
  <2> QED  BY <2>2, <2>4, <2>5, <2>6 DEF TypeOK, SlotType, Points
<1> QED  BY <1>1, LedgerInvariant, PTL

(* While runs do not overlap and the file stays readable, no failure is    *)
(* lost silently: as many as are neither in the file nor reported, the     *)
(* dropped counts admit (failurebuffer.go:34-45), whatever is killed,      *)
(* refused, lost or not written.                                           *)
THEOREM NoFailureLostSilently == Spec => []FailuresAreAccounted
<1>1. Ledger => FailuresAreAccounted
  BY DEF Ledger, Clean, Balanced, FailuresAreAccounted
<1> QED  BY <1>1, LedgerInvariant, PTL

(* ... and between runs the counts are exact, when nothing came between a  *)
(* coordinator's answer and the clearing of the file.                      *)
THEOREM DropsCountedOnce == Spec => []DropsAreCountedOnce
<1>1. Inv /\ Ledger => DropsAreCountedOnce
  <2> SUFFICES ASSUME Inv, Ledger, Clean, ~history.doubled, \A s \in Slots : ~Running(s)
               PROVE  Cardinality(Gone) = failures.dropped + centre.dropped
    BY DEF DropsAreCountedOnce, Clean
  <2>1. \A s \in Slots : ~Owes(slots[s])
    BY DEF Inv, RunsOnly, Owes, Running, At
  <2> QED  BY <2>1 DEF Ledger, Exact
<1> QED  BY <1>1, LedgerInvariant, PTL
=============================================================================
