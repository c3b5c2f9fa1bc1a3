----------------------------- MODULE MacroHelper -----------------------------
(***************************************************************************)
(* The Go helper that FPP forks for a command (cmd/showmesh-fpp-plugin):   *)
(* a macro run, an action or a night command, each a process of its own    *)
(* that submits one request and records the outcome on the host.  The      *)
(* failures a host could not report are kept in failures.json and ride in  *)
(* the next accepted run; nothing locks that file, status.json or          *)
(* macro-cache.json between processes.                                     *)
(*                                                                         *)
(* A step is one file read or write, or one exchange with the coordinator. *)
(* Every file is replaced whole by a rename (writeJSONFile()).  Messages,  *)
(* exit codes and the credential directory's repair are left out.          *)
(***************************************************************************)
EXTENDS Naturals, Sequences, FiniteSets

CONSTANTS
    Slots,             \* processes FPP may run at the same time
    Macros,
    NoAttempt,
    MaxBuffered,       \* maxBufferedFailures
    MaxAge,            \* maxFailureAge, in ticks
    Budget             \* bounds, by name

Bounded == {"attempts", "faults", "kills", "ticks", "edits"}

ASSUME HelperAssumption ==
    /\ Macros # {}
    /\ MaxBuffered \in Nat \ {0} /\ MaxAge \in Nat
    /\ Budget \in [Bounded -> Nat]

VARIABLES
    now,               \* the host's clock
    failures,          \* failures.json: the buffer, or what cannot be parsed
    cache,             \* macro-cache.json: the revision of each macro, 0 for none
    records,           \* status.json and night-status.json
    slots,             \* the processes
    centre,            \* the coordinator
    left,              \* what is left of Budget
    history            \* read by properties alone

vars == <<now, failures, cache, records, slots, centre, left, history>>

Spend(what) ==
    /\ left[what] > 0
    /\ left' = [left EXCEPT ![what] = @ - 1]

(* The failures of an attempt are that attempt. *)
Attempts == 1..Budget["attempts"]

Kinds == {"run", "action", "night"}

EmptyBuffer == [failures |-> <<>>, dropped |-> 0, corrupt |-> FALSE]

CorruptBuffer == [EmptyBuffer EXCEPT !.corrupt = TRUE]

(* status.json, which actions share, and night-status.json. *)
Files == {"run", "night"}

NoRecord == [attempt |-> NoAttempt, class |-> "none"]

Free ==
    [at |-> "free", kind |-> "run", macro |-> CHOOSE m \in Macros : TRUE,
     attempt |-> NoAttempt, began |-> 0, buffer |-> EmptyBuffer, class |-> "none",
     revision |-> 0, cache |-> [m \in Macros |-> 0]]

Init ==
    /\ now = 0
    /\ failures = EmptyBuffer
    /\ cache = [m \in Macros |-> 0]
    /\ records = [file \in Files |-> NoRecord]
    /\ slots = [s \in Slots |-> Free]
    /\ centre = [revision |-> [m \in Macros |-> 1], confirmed |-> {}, reported |-> {},
                 dropped |-> 0]
    /\ left = Budget
    /\ history = [kept |-> {}, doubled |-> FALSE, overlapped |-> FALSE, corrupted |-> FALSE,
                  flushed |-> {}]

At(s, point) == slots[s].at = point

Goto(s, point) == slots' = [slots EXCEPT ![s].at = point]

FileOf(kind) == IF kind = "night" THEN "night" ELSE "run"
-----------------------------------------------------------------------------
(* What a sequence holds at the positions in kept, in its order. *)
Picked(seq, kept) ==
    [n \in 1..Cardinality(kept) |->
        seq[CHOOSE i \in kept : Cardinality({j \in kept : j <= i}) = n]]

(* pruneByAge() and pruneByCount(): what is dropped is counted. *)
PrunedByAge(buffer, time) ==
    LET seq == buffer.failures
        kept == {i \in DOMAIN seq : time <= seq[i].time + MaxAge}
    IN  [buffer EXCEPT !.failures = Picked(seq, kept),
                       !.dropped = @ + Len(seq) - Cardinality(kept)]

(* Plausible bug: what does not fit is cut off. *)
CutByCount(buffer) ==
    LET excess == Len(buffer.failures) - MaxBuffered
    IN  IF excess <= 0 THEN buffer
        ELSE [buffer EXCEPT !.failures = SubSeq(@, excess + 1, Len(@))]

PrunedByCount(buffer) ==
    LET excess == Len(buffer.failures) - MaxBuffered
    IN  IF excess <= 0 THEN buffer
        ELSE [buffer EXCEPT !.failures = SubSeq(@, excess + 1, Len(@)),
                            !.dropped = @ + excess]

Appended(buffer, f, time) ==
    PrunedByCount(PrunedByAge([buffer EXCEPT !.failures = Append(@, f)], time))

(* A buffer that cannot be read counts as one dropped record. *)
Loaded == IF failures.corrupt THEN [EmptyBuffer EXCEPT !.dropped = 1] ELSE failures

Ids(seq) == {seq[i].attempt : i \in DOMAIN seq}

Running(s) == ~At(s, "free") /\ slots[s].kind = "run"
-----------------------------------------------------------------------------
(* Until the request; without a credential or an address the attempt ends  *)
(* as a local error.                                                       *)
Begins(s, kind, macro, buffer) ==
    /\ At(s, "free")
    /\ Spend("attempts")
    /\ \E point \in {"submit", "localError"} :
          slots' = [slots EXCEPT ![s] =
             [Free EXCEPT !.at = point, !.kind = kind, !.macro = macro, !.began = now,
                          !.attempt = Budget["attempts"] - left'["attempts"], !.buffer = buffer]]
    /\ UNCHANGED <<now, failures, cache, records, centre>>

(* cmdRun(), runMacro(): what is too old is not reported. *)
BeginRun(s) ==
    /\ \E macro \in Macros : Begins(s, "run", macro, PrunedByAge(Loaded, now))
    /\ history' = [history EXCEPT !.overlapped = @ \/ \E t \in Slots : Running(t)]

BeginAction(s) == Begins(s, "action", Free.macro, EmptyBuffer) /\ UNCHANGED history

BeginNight(s) == Begins(s, "night", Free.macro, EmptyBuffer) /\ UNCHANGED history

(* reportLocalError() and its like; a record that cannot be written is lost.*)
WriteRecord(s, class) ==
    \/ /\ records' = [records EXCEPT ![FileOf(slots[s].kind)] =
                         [attempt |-> slots[s].attempt, class |-> class]]
       /\ UNCHANGED left
    \/ Spend("faults") /\ UNCHANGED records

LocalError(s) ==
    /\ At(s, "localError")
    /\ WriteRecord(s, "local_error")
    /\ slots' = [slots EXCEPT ![s] = Free]
    /\ UNCHANGED <<now, failures, cache, centre, history>>

(* The coordinator takes a request; a run comes with the buffer. *)
Taken(s) ==
    centre' = [centre EXCEPT
        !.confirmed = @ \union {slots[s].attempt},
        !.reported = @ \union IF slots[s].kind = "run" THEN Ids(slots[s].buffer.failures) ELSE {},
        !.dropped = @ + IF slots[s].kind = "run" THEN slots[s].buffer.dropped ELSE 0]

Classified(s, point, class) ==
    slots' = [slots EXCEPT ![s].at = point, ![s].class = class,
                           ![s].revision = centre.revision[slots[s].macro]]

RunAccepted(s) ==
    /\ At(s, "submit") /\ slots[s].kind = "run"
    /\ Taken(s)
    /\ Classified(s, "refresh", "ok")
    /\ UNCHANGED <<now, failures, cache, records, left, history>>

ActionAnswered(s) ==
    /\ At(s, "submit") /\ slots[s].kind = "action"
    /\ Taken(s)
    /\ Classified(s, "record", "ok")
    /\ UNCHANGED <<now, failures, cache, records, left, history>>

CommandAnswered(s) ==
    /\ At(s, "submit") /\ slots[s].kind = "night"
    /\ Taken(s)
    /\ Classified(s, "record", "ok")
    /\ UNCHANGED <<now, failures, cache, records, left, history>>

(* classifyHTTPStatus() on a refusal, and a transport failure. *)
Declined(s) ==
    /\ At(s, "submit")
    /\ Spend("faults")
    /\ \E class \in {"refused", "rejected", "unreachable"} : Classified(s, "record", class)
    /\ UNCHANGED <<now, failures, cache, records, centre, history>>

(* The request is taken and the answer is lost, or does not arrive in time.*)
AnswerLost(s) ==
    /\ At(s, "submit")
    /\ Spend("faults")
    /\ Taken(s)
    /\ Classified(s, "record", "unreachable")
    /\ history' = [history EXCEPT !.doubled = TRUE]
    /\ UNCHANGED <<now, failures, cache, records>>

(* Plausible bug: any 2xx is an accepted run. *)
ClassOfAny2xx == "ok"

(* A 2xx that does not name the run, the action or the command. *)
ClassOfUnconfirmed == "unreachable"

Unconfirmed(s) ==
    /\ At(s, "submit")
    /\ Spend("faults")
    /\ Classified(s, IF slots[s].kind = "run" /\ ClassOfUnconfirmed = "ok"
                     THEN "refresh" ELSE "record", ClassOfUnconfirmed)
    /\ UNCHANGED <<now, failures, cache, records, centre, history>>
-----------------------------------------------------------------------------
(* Plausible bug: a macro is read once. *)
FreshOnceCached(s) == cache[slots[s].macro] # 0

(* refreshMacroCacheIfStale(): whether to ask, and the answer. *)
Fresh(s) == cache[slots[s].macro] = slots[s].revision

Refresh(s) ==
    /\ At(s, "refresh")
    /\ \/ /\ Fresh(s)
          /\ Goto(s, "flush")
          /\ UNCHANGED left
       \/ /\ ~Fresh(s)
          /\ slots' = [slots EXCEPT ![s].at = "cache", ![s].cache = cache,
                                    ![s].revision = centre.revision[slots[s].macro]]
          /\ UNCHANGED left
       \/ ~Fresh(s) /\ Spend("faults") /\ Goto(s, "flush")
    /\ UNCHANGED <<now, failures, cache, records, centre, history>>

(* updateMacroCache() has loaded the cache by now. *)
StoreCache(s) ==
    /\ At(s, "cache")
    /\ Goto(s, "flush")
    /\ \/ /\ cache' = [slots[s].cache EXCEPT ![slots[s].macro] = slots[s].revision]
          /\ UNCHANGED left
       \/ Spend("faults") /\ UNCHANGED cache
    /\ UNCHANGED <<now, failures, records, centre, history>>

(* reportOK(): the file is cleared, whatever it holds by now. *)
Flush(s) ==
    /\ At(s, "flush")
    /\ Goto(s, "record")
    /\ \/ /\ failures' = EmptyBuffer
          /\ history' = [history EXCEPT !.flushed = @ \union Ids(failures.failures)]
          /\ UNCHANGED left
       \/ /\ Spend("faults")
          /\ history' = [history EXCEPT !.doubled = TRUE]
          /\ UNCHANGED failures
    /\ UNCHANGED <<now, cache, records, centre>>

(* The last act of an accepted run, and of an action or a command. *)
RecordRun(s) ==
    /\ At(s, "record") /\ slots[s].kind = "run" /\ slots[s].class = "ok"
    /\ WriteRecord(s, "ok")
    /\ slots' = [slots EXCEPT ![s] = Free]
    /\ UNCHANGED <<now, failures, cache, centre, history>>

RecordAction(s) ==
    /\ At(s, "record") /\ slots[s].kind = "action"
    /\ WriteRecord(s, slots[s].class)
    /\ slots' = [slots EXCEPT ![s] = Free]
    /\ UNCHANGED <<now, failures, cache, centre, history>>

RecordNight(s) ==
    /\ At(s, "record") /\ slots[s].kind = "night"
    /\ WriteRecord(s, slots[s].class)
    /\ slots' = [slots EXCEPT ![s] = Free]
    /\ UNCHANGED <<now, failures, cache, centre, history>>

(* reportDegraded(): the record comes before the buffer. *)
RecordDegraded(s) ==
    /\ At(s, "record") /\ slots[s].kind = "run" /\ slots[s].class # "ok"
    /\ WriteRecord(s, slots[s].class)
    /\ Goto(s, "keep")
    /\ UNCHANGED <<now, failures, cache, centre, history>>

(* ... which is the one it read before it asked. *)
Keep(s) ==
    /\ At(s, "keep")
    /\ LET p == slots[s]
       IN  \/ /\ failures' = Appended(p.buffer, [attempt |-> p.attempt, time |-> p.began], p.began)
              /\ history' = [history EXCEPT !.kept = @ \union {p.attempt}]
              /\ UNCHANGED left
           \/ Spend("faults") /\ UNCHANGED <<failures, history>>
    /\ slots' = [slots EXCEPT ![s] = Free]
    /\ UNCHANGED <<now, cache, records, centre>>
-----------------------------------------------------------------------------
(* FPP or the host ends a process anywhere. *)
Killed(s) ==
    /\ ~At(s, "free")
    /\ Spend("kills")
    /\ slots' = [slots EXCEPT ![s] = Free]
    /\ history' = [history EXCEPT !.doubled = @ \/ slots[s].attempt \in centre.confirmed]
    /\ UNCHANGED <<now, failures, cache, records, centre>>

(* The storage under failures.json goes bad. *)
Corrupts ==
    /\ Spend("faults")
    /\ failures' = CorruptBuffer
    /\ history' = [history EXCEPT !.corrupted = TRUE]
    /\ UNCHANGED <<now, cache, records, slots, centre>>

Tick ==
    /\ Spend("ticks")
    /\ now' = now + 1
    /\ UNCHANGED <<failures, cache, records, slots, centre, history>>

(* A macro is changed on the coordinator. *)
EditMacro ==
    /\ Spend("edits")
    /\ \E m \in Macros : centre' = [centre EXCEPT !.revision[m] = @ + 1]
    /\ UNCHANGED <<now, failures, cache, records, slots, history>>

Process(s) ==
    \/ BeginRun(s) \/ BeginAction(s) \/ BeginNight(s) \/ LocalError(s)
    \/ RunAccepted(s) \/ ActionAnswered(s) \/ CommandAnswered(s)
    \/ Declined(s) \/ AnswerLost(s) \/ Unconfirmed(s)
    \/ Refresh(s) \/ StoreCache(s) \/ Flush(s)
    \/ RecordRun(s) \/ RecordAction(s) \/ RecordNight(s) \/ RecordDegraded(s) \/ Keep(s)
    \/ Killed(s)

Next == (\E s \in Slots : Process(s)) \/ Corrupts \/ Tick \/ EditMacro

Spec == Init /\ [][Next]_vars
-----------------------------------------------------------------------------
Buffers ==
    [failures : Seq([attempt : Attempts, time : Nat]), dropped : Nat, corrupt : BOOLEAN]

Classes == {"none", "ok", "refused", "rejected", "unreachable", "local_error"}

(* The file never outgrows the bound (failurebuffer.go:17-20). *)
TypeOK ==
    /\ now \in Nat
    /\ failures \in Buffers /\ Len(failures.failures) <= MaxBuffered
    /\ cache \in [Macros -> Nat]
    /\ records \in [Files ->
                       [attempt : Attempts \union {NoAttempt}, class : Classes]]
    /\ slots \in [Slots ->
           [at : {"free", "submit", "localError", "refresh", "cache", "flush", "record", "keep"},
            kind : Kinds, macro : Macros, attempt : Attempts \union {NoAttempt}, began : Nat,
            buffer : Buffers, class : Classes, revision : Nat, cache : [Macros -> Nat]]]
    /\ centre \in [revision : [Macros -> Nat], confirmed : SUBSET Attempts,
                   reported : SUBSET Attempts, dropped : Nat]
    /\ left \in [Bounded -> Nat]
    /\ history \in [kept : SUBSET Attempts, doubled : BOOLEAN, overlapped : BOOLEAN,
                    corrupted : BOOLEAN, flushed : SUBSET Attempts]

(* Failures that were kept once and are neither in the file nor reported.  *)
Gone == history.kept \ (Ids(failures.failures) \union centre.reported)

(* One run at a time loses no failure silently: each one kept is in the    *)
(* file, was reported with an accepted run, or is counted as dropped in    *)
(* one or the other, though processes are killed and writes fail           *)
(* (failurebuffer.go:34-45).                                               *)
FailuresAreAccounted ==
    ~history.overlapped /\ ~history.corrupted
    => Cardinality(Gone) <= failures.dropped + centre.dropped

(* ... and the count is exact when nothing was killed or failed between    *)
(* the coordinator's answer and the clearing of the file.                  *)
DropsAreCountedOnce ==
    /\ ~history.overlapped /\ ~history.corrupted /\ ~history.doubled
    /\ \A s \in Slots : ~Running(s)
    => Cardinality(Gone) = failures.dropped + centre.dropped

(* A record that says ok is of an attempt the coordinator confirmed, by    *)
(* naming it, whichever process wrote last (client.go:101-130).            *)
OkIsConfirmed ==
    \A file \in Files :
        records[file].class = "ok" => records[file].attempt \in centre.confirmed

(* The definition a refusal will state is at least as new as the one the   *)
(* last recorded run executed, when every read and write of it went well   *)
(* (run.go:229-246).                                                       *)
CacheFollowsRuns ==
    \A s \in Slots :
        At(s, "flush") /\ left["faults"] = Budget["faults"] /\ ~history.overlapped
        => cache[slots[s].macro] >= slots[s].revision

(* run.go:202-206: "the buffer's contents (if any) were included in THIS   *)
(* request's priorFailures".                                               *)
FlushedWasReported == history.flushed \subseteq centre.reported
=============================================================================
