-------------------------- MODULE MCFallbackExecutor --------------------------
(* Small instances of FallbackExecutor for TLC. *)
EXTENDS FallbackExecutor

CONSTANTS p1, p2, e1, e2

(* Two entries of a playlist, the question for the next entry, a stop, and *)
(* an entry of another playlist whose identity does not resolve.           *)
MCCallbacks == {<<"playing", p1, e1>>, <<"playing", p1, e2>>, <<"query_next", p1, e2>>,
                <<"stop", p1, NoEntry>>, <<"playing", p2, NoEntry>>}

(* An entry and the stop of its playlist. *)
MCFewCallbacks == {<<"playing", p1, e1>>, <<"stop", p1, NoEntry>>}

(* The second copy outlives the first by an instant. *)
MCExpiry == <<1, 2>>

MCOneExpiry == <<1>>

MCOneMapped == <<{e1}>>

MCMapped == <<{e1, e2}, {e1, e2}>>

MCSafetyBudget == [events |-> 3, probes |-> 1, saves |-> 0, fetches |-> 0, ends |-> 1]

MCProgressBudget == [events |-> 2, probes |-> 1, saves |-> 1, fetches |-> 1, ends |-> 1]
=============================================================================
