----------------------------- MODULE NodeDelivery -----------------------------
(***************************************************************************)
(* DeliverActivation() (native/adapters/shared/fallback_node_delivery.h):  *)
(* one thread per node sends one signed activation, the identical body at  *)
(* every retry, and follows the table of section 5.8 for each answer.      *)
(*                                                                         *)
(* The nodes are external and modelled from that table: a node remembers   *)
(* the execution ids it has processed and answers a repeated one with what *)
(* came of it first.  A request that timed out may still reach its node,   *)
(* at any later moment and more than once.                                 *)
(***************************************************************************)
EXTENDS ActivationResolver

CONSTANTS
    TransientAttemptLimit   \* kTransientAttemptLimit

ASSUME LimitAssumption == TransientAttemptLimit \in Nat

VARIABLES
    deliveries,        \* for each node the locals of its DeliverActivation()
    sent,              \* for each node the requests that may still reach it
    nodes              \* for each node what it knows, and what it has started

deliveryVars == <<deliveries, sent, nodes>>

(* "refused" is every word that the table does not name. *)
Outcomes ==
    TargetProblems \union
        {"none", "authorized", "refused", "unknown", "not-ready", "rate-limited",
         "program-not-installed", "no-response", "unrecognized-answer", "plugin-stopping",
         "cutoff-passed"}

NoDelivery == [at |-> "none", occurrence |-> 0, attempts |-> 0, limitedOnce |-> FALSE,
               resent |-> FALSE, outcome |-> "none"]

(* A delivery that is about to ask for the first time. *)
Delivery(occurrence) == [NoDelivery EXCEPT !.at = "ask", !.occurrence = occurrence]

(* recordPlayerDecision(): this player does not ask the node at all. *)
NotAsked(occurrence, problem) ==
    [NoDelivery EXCEPT !.at = "done", !.occurrence = occurrence, !.outcome = problem]

DeliveryAt(node, point) == deliveries[node].at = point

Delivers(node, delivery) == deliveries' = [deliveries EXCEPT ![node] = delivery]

Ends(delivery, outcome) == [delivery EXCEPT !.at = "done", !.outcome = outcome]

(* Plausible bug: every attempt is signed with an execution id of its own. *)
ExecutionDrawnAnew(delivery) == 10 * delivery.attempts + delivery.occurrence

(* Drawn once for an occurrence and a node: the occurrence stands for it. *)
ExecutionId(delivery) == delivery.occurrence

RequestOf(delivery) ==
    [execution |-> ExecutionId(delivery), occurrence |-> delivery.occurrence]

(* Attempts are told apart up to the limit. *)
Counted(attempts) ==
    IF attempts < TransientAttemptLimit THEN attempts + 1 ELSE TransientAttemptLimit

Asking(delivery) == [delivery EXCEPT !.at = "wait", !.attempts = Counted(@)]

(* The cutoff is checked before each request, a retry and a program alike. *)
Ask(node) ==
    /\ DeliveryAt(node, "ask")
    /\ Delivers(node, Asking(deliveries[node]))
    /\ sent' = [sent EXCEPT ![node] = @ \union {RequestOf(Asking(deliveries[node]))}]
    /\ UNCHANGED nodes

CutOff(node) ==
    /\ deliveries[node].at \in {"ask", "hand"}
    /\ Delivers(node, Ends(deliveries[node], "cutoff-passed"))
    /\ UNCHANGED <<sent, nodes>>

HandProgram(node) ==
    /\ DeliveryAt(node, "hand")
    /\ Delivers(node, [deliveries[node] EXCEPT !.at = "ask", !.resent = TRUE])
    /\ \E taken \in BOOLEAN : nodes' = [nodes EXCEPT ![node].program = @ \/ taken]
    /\ UNCHANGED sent

PauseEnds(node) ==
    /\ DeliveryAt(node, "pause")
    /\ Delivers(node, [deliveries[node] EXCEPT !.at = "ask"])
    /\ UNCHANGED <<sent, nodes>>

StopsInPause(node) ==
    /\ DeliveryAt(node, "pause")
    /\ Delivers(node, Ends(deliveries[node], "plugin-stopping"))
    /\ UNCHANGED <<sent, nodes>>
-----------------------------------------------------------------------------
(* ClassifyNodeAnswer() *)
TransientWords == {"no-response", "not-ready"}

AfterTransient(delivery, word) ==
    IF delivery.attempts >= TransientAttemptLimit THEN Ends(delivery, word)
    ELSE [delivery EXCEPT !.at = "pause"]

(* Plausible bug: that the one retry was used is not kept. *)
RateLimitForgotten(delivery, word) ==
    IF delivery.limitedOnce THEN Ends(delivery, word) ELSE [delivery EXCEPT !.at = "pause"]

AfterRateLimit(delivery, word) ==
    IF delivery.limitedOnce THEN Ends(delivery, word)
    ELSE [delivery EXCEPT !.at = "pause", !.limitedOnce = TRUE]

AfterProgramMissing(delivery, word) ==
    IF delivery.resent THEN Ends(delivery, word) ELSE [delivery EXCEPT !.at = "hand"]

(* Plausible bug: a replay is taken for a success. *)
ReplayIsSuccess(delivery, first) == Ends(delivery, "authorized")

(* What came of the execution the first time is its result. *)
AfterReplay(delivery, first) == Ends(delivery, first)

AfterWord(delivery, word) ==
    IF word \in TransientWords THEN AfterTransient(delivery, word)
    ELSE IF word = "rate-limited" THEN AfterRateLimit(delivery, word)
    ELSE IF word = "program-not-installed" THEN AfterProgramMissing(delivery, word)
    ELSE Ends(delivery, word)
-----------------------------------------------------------------------------
(* The node, external.  It answers a request it has processed with what    *)
(* came of it first, unless it restarted since; it processes any other, or *)
(* has a reason not to.                                                    *)
Processed(node, request) == request.execution \in nodes[node].processed

FirstOutcome(node, request) ==
    IF request.execution \in nodes[node].started THEN "authorized"
    ELSE IF request.execution \in nodes[node].refused THEN "refused"
    ELSE "unknown"

(* What it knows once it has started the cue, refused it, or restarted. *)
Started(known, request) ==
    [known EXCEPT !.processed = @ \union {request.execution},
                  !.started = @ \union {request.execution},
                  !.cued = [known.cued EXCEPT ![request.occurrence] = @ + 1]]

Refused(known, request) ==
    [known EXCEPT !.processed = @ \union {request.execution},
                  !.refused = @ \union {request.execution}]

Forgetful(known) == [known EXCEPT !.started = {}, !.refused = {}]

Becomes(node, known) == nodes' = [nodes EXCEPT ![node] = known]

(* The words a node has for a request that it does not process. *)
Unprocessed(node) ==
    IF nodes[node].program THEN {"not-ready", "rate-limited"} ELSE {"program-not-installed"}

Handles(node, request, word) ==
    /\ ~Processed(node, request)
    /\ \/ nodes[node].program /\ word = "authorized" /\ Becomes(node, Started(nodes[node], request))
       \/ nodes[node].program /\ word = "refused" /\ Becomes(node, Refused(nodes[node], request))
       \/ word \in Unprocessed(node) /\ UNCHANGED nodes

(* A request that its sender gave up on, or whose answer is lost. *)
HandlesUnheard(node) ==
    /\ \E request \in sent[node], word \in Outcomes : Handles(node, request, word)
    /\ UNCHANGED <<deliveries, sent>>

(* It still knows what it has processed, and no longer what came of it.    *)
NodeRestarts(node) ==
    /\ Becomes(node, Forgetful(nodes[node]))
    /\ UNCHANGED <<deliveries, sent>>
-----------------------------------------------------------------------------
Answered(node, word) ==
    /\ DeliveryAt(node, "wait")
    /\ Handles(node, RequestOf(deliveries[node]), word)
    /\ Delivers(node, AfterWord(deliveries[node], word))
    /\ UNCHANGED sent

Replayed(node) ==
    /\ DeliveryAt(node, "wait")
    /\ Processed(node, RequestOf(deliveries[node]))
    /\ Delivers(node, AfterReplay(deliveries[node],
                                  FirstOutcome(node, RequestOf(deliveries[node]))))
    /\ UNCHANGED <<sent, nodes>>

(* A timeout, or an answer that no ShowMesh node gave; a 5xx is transient. *)
AnsweredOtherwise(node, word) ==
    /\ DeliveryAt(node, "wait")
    /\ word \in {"no-response", "unrecognized-answer"}
    /\ \/ Delivers(node, AfterWord(deliveries[node], word))
       \/ Delivers(node, AfterTransient(deliveries[node], word))
    /\ UNCHANGED <<sent, nodes>>
=============================================================================
