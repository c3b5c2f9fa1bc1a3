------------------------ MODULE MCObservationPipeline ------------------------
(* A small instance of ObservationPipeline for TLC. *)
EXTENDS ObservationPipeline

CONSTANTS e1, e2

(* Announcements of two entries, the question for the next entry, a stop   *)
(* that names its playlist and the end of a run that names none.           *)
MCCallbacks == {<<"playing", e1>>, <<"start", e2>>, <<"query_next", e2>>,
                <<"stop", e1>>, <<"playing", NoEntry>>}
=============================================================================
