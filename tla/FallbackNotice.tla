---------------------------- MODULE FallbackNotice ----------------------------
(***************************************************************************)
(* What an operator is told (native/adapters/shared/fallback_executor.h):  *)
(* the one notice on FPP's warning list, and fallback-status.json.         *)
(*                                                                         *)
(* Both threads of the executor end a step of theirs with refreshNotice()  *)
(* and publishStatus().  Each holds a lock of its own while it reads the   *)
(* state, under mutex_, and while it acts on what it read, so that of two  *)
(* that race the last one has read the newest state.                       *)
(*                                                                         *)
(* A notice is its form, the reason it gives and the cutoff it names; the  *)
(* facts, and what is told of them, are one record.                        *)
(***************************************************************************)
EXTENDS ActivationResolver

CONSTANTS
    NoFacts            \* nothing has been read; no status was written

(* What the notice and the status are made from: state_, the detector's    *)
(* verdict, the last probe, undecided_ and the counters.                   *)
FactsType ==
    [mode : {"normal", "fallback", "resting"}, cutoff : Nat,
     boundary : {"none", "started", "started-on-some", "not-started", "nothing-to-start"},
     problem : PlayerWords \union {"none"}, waiting : BOOLEAN, lost : BOOLEAN,
     reachable : BOOLEAN, authorized : Nat, notDelivered : Nat]

ASSUME NoticeAssumption == NoFacts \notin FactsType

VARIABLES
    raised,            \* raisedNotice_, which FPP shows
    noticing,          \* what each thread has read, and holds noticeMutex_ for
    status,            \* fallback-status.json, and writtenStatus_
    publishing         \* ... and holds statusFileMutex_ for

noticeVars == <<raised, noticing, status, publishing>>

Threads == {"tick", "worker"}

Notice(form, because, cutoff) == [form |-> form, because |-> because, cutoff |-> cutoff]

Silence == Notice("none", "none", 0)

(* Whether a reason counts at all, and which one comes first. *)
Concerned(facts) == facts.mode = "fallback" \/ (facts.mode = "normal" /\ facts.lost)

Problem(facts, program, now) ==
    IF ~Concerned(facts) THEN "none"
    ELSE IF UnusableBecause(program, now) # "none" THEN UnusableBecause(program, now)
    ELSE IF facts.mode = "fallback" /\ facts.boundary = "not-started" THEN facts.problem
    ELSE "none"

InNormal(facts, problem) ==
    IF ~facts.lost THEN Silence
    ELSE IF problem = "none" THEN Notice("will-start", "none", 0)
    ELSE Notice("cannot-start", problem, 0)

(* Every form names whether the coordinator answers again. *)
Told(facts, answering, silent) == IF facts.reachable THEN answering ELSE silent

InFallback(facts, problem) ==
    IF problem # "none" \/ facts.boundary = "not-started"
    THEN Notice(Told(facts, "not-starting-until-handed-back", "not-starting"), problem, 0)
    ELSE IF facts.boundary = "started-on-some"
    THEN Notice(Told(facts, "on-some-nodes-until-handed-back", "on-some-nodes"), "none", 0)
    ELSE IF facts.reachable THEN Notice("starting-until-handed-back", "none", 0)
    ELSE Notice("starting", "none", facts.cutoff)

(* FallbackNotice() *)
NoticeOf(facts, problem) ==
    IF facts.waiting /\ facts.mode # "normal" THEN Notice("waiting-for-fpp", "none", 0)
    ELSE IF facts.mode = "normal" THEN InNormal(facts, problem)
    ELSE IF facts.mode = "resting"
    THEN Notice(Told(facts, "resting-until-handed-back", "resting"), "none", facts.cutoff)
    ELSE InFallback(facts, problem)
-----------------------------------------------------------------------------
NothingRead == [thread \in Threads |-> NoFacts]

NoticeInit ==
    /\ raised = Silence
    /\ noticing = NothingRead
    /\ status = NoFacts
    /\ publishing = NothingRead

(* Plausible bug: the state is read before the lock is held. *)
ReadUnlocked(thread, facts) ==
    /\ noticing' = [noticing EXCEPT ![thread] = facts]
    /\ UNCHANGED <<raised, status, publishing>>

(* refreshNotice(): takes its lock, then reads the state ... *)
RefreshBegins(thread, facts) ==
    /\ noticing = NothingRead
    /\ noticing' = [noticing EXCEPT ![thread] = facts]
    /\ UNCHANGED <<raised, status, publishing>>

(* ... then the installed program, and lets go when the notice is raised. *)
RefreshEnds(thread, program, now) ==
    /\ noticing[thread] # NoFacts
    /\ raised' = NoticeOf(noticing[thread], Problem(noticing[thread], program, now))
    /\ noticing' = [noticing EXCEPT ![thread] = NoFacts]
    /\ UNCHANGED <<status, publishing>>

(* publishStatus(): the state, then the notice, which may be the newer. *)
PublishBegins(thread, facts) ==
    /\ publishing = NothingRead
    /\ publishing' = [publishing EXCEPT ![thread] = facts]
    /\ UNCHANGED <<raised, noticing, status>>

(* notice() waits for noticeMutex_.  A status that cannot be written stays *)
(* as it was, to be tried again as one that differs.                       *)
PublishEnds(thread, written) ==
    /\ publishing[thread] # NoFacts
    /\ noticing = NothingRead
    /\ status' = IF written THEN [facts |-> publishing[thread], message |-> raised] ELSE status
    /\ publishing' = [publishing EXCEPT ![thread] = NoFacts]
    /\ UNCHANGED <<raised, noticing>>
=============================================================================
