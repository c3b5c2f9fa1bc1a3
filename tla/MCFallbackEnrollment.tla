------------------------- MODULE MCFallbackEnrollment -------------------------
(* Small instances of FallbackEnrollment for TLC. *)
EXTENDS FallbackEnrollment

MCBudget == [requests |-> 2, coordinators |-> 1, copies |-> 1, handBacks |-> 1,
             faults |-> 1, ends |-> 1]

(* Two pairings, with another coordinator between them. *)
TwoPairings == [MCBudget EXCEPT !["handBacks"] = 0, !["faults"] = 0, !["ends"] = 0]

(* One pairing, a restart, and a coordinator that loses the executor key. *)
Restarted == [MCBudget EXCEPT !["requests"] = 1, !["handBacks"] = 0]

(* One pairing and a hand-back, with the one coordinator. *)
HandedBackOnce == [MCBudget EXCEPT !["requests"] = 1, !["coordinators"] = 0, !["ends"] = 0]

MCStarts == {TwoPairings, Restarted, HandedBackOnce}
=============================================================================
