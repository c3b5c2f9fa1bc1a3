------------------------- MODULE MCFallbackDelivery -------------------------
(* FallbackDelivery on two nodes, with one program of every kind that the  *)
(* code tells apart.                                                       *)
EXTENDS FallbackDelivery

CONSTANTS n1, n2, k1

MCNodes == {n1, n2}
MCKeys == {k1}

Whole(entries) ==
    [verifies |-> TRUE, expires |-> 1, enrolls |-> TRUE, rulesKnown |-> TRUE,
     generation |-> TRUE, entries |-> entries]

Cue == [key |-> k1, complete |-> TRUE, targets |-> {n1}, live |-> {n1},
        addressed |-> {n1}, catalogued |-> {n1}]

Good == Whole(<<Cue>>)
Both == Whole(<<[Cue EXCEPT !.targets = {n1, n2}, !.live = {n1, n2},
                           !.addressed = {n1, n2}, !.catalogued = {n1, n2}]>>)
OneAddressed == Whole(<<[Cue EXCEPT !.targets = {n1, n2}]>>)
NoneCatalogued == Whole(<<[Cue EXCEPT !.catalogued = {}]>>)
Later == [Good EXCEPT !.expires = 2]
Unrelated == Whole(<<>>)
Twice == Whole(<<Cue, Cue>>)
Inert == Whole(<<[Cue EXCEPT !.live = {}]>>)
Lacking == Whole(<<[Cue EXCEPT !.complete = FALSE]>>)
Forged == [Good EXCEPT !.verifies = FALSE]
Foreign == [Good EXCEPT !.enrolls = FALSE]
Newer == [Good EXCEPT !.rulesKnown = FALSE]

MCPrograms == {Good, Both, OneAddressed, NoneCatalogued, Later, Unrelated, Twice, Inert, Lacking,
               Forged, Foreign, Newer}

Of(what) == [w \in Bounded |-> IF w \in DOMAIN what THEN what[w] ELSE 0]

Start(installed, holders, saved, budget) ==
    [program |-> installed, holders |-> holders, saved |-> saved, budget |-> budget]

(* Two entries, with a network and a node that do what they may. *)
Unreliable ==
    {Start(Good, holders, TRUE, Of([entries |-> 2, late |-> 1, others |-> 1, restarts |-> 1])) :
        holders \in {{}, {n1}}}

(* One entry that two nodes are asked for, and a stop of the plugin. *)
TwoNodes ==
    {Start(p, {n1}, TRUE, Of([entries |-> 1, others |-> 1, stops |-> 1])) :
        p \in {Both, OneAddressed}}

(* One entry of a saved fallback, while ticks find the coordinator lost or back. *)
Concurrent ==
    {Start(Good, {n1}, TRUE, Of([ticks |-> 2, entries |-> 1]))}
    \union {Start(p, {n1}, TRUE, Of([ticks |-> 1, entries |-> 1])) :
               p \in {NoneCatalogued, Unrelated, NoProgram}}

(* A program of any kind is installed meanwhile. *)
EveryProgram ==
    {Start(Good, {n1}, FALSE, Of([ticks |-> 2, entries |-> 1, installs |-> 1]))}

(* A write fails, and a callback starts nothing. *)
Untold ==
    {Start(Good, {n1}, saved, Of([ticks |-> 1, callbacks |-> 2, writes |-> 1])) :
        saved \in BOOLEAN}

MCStarts == UNION {Unreliable, TwoNodes, Concurrent, EveryProgram, Untold}
=============================================================================
