-------------------------- MODULE MCBrightnessSync --------------------------
(* Small instances of BrightnessSync for TLC. *)
EXTENDS BrightnessSync

(* Hosts 2 and 3 have the same identity, as two that have none yet do. *)
MCInstanceId == [host \in Hosts |-> IF host = 1 THEN 1 ELSE 2]

Group(senders, instants, commands, orders, gates, lost, copies, stops) ==
    [senders |-> senders, instants |-> instants,
     bounds |-> [commands |-> commands, orders |-> orders, gates |-> gates, lost |-> lost,
                 copies |-> copies, stops |-> stops]]

(* Three players whose clocks read the same millisecond; two and a remote, *)
(* with clocks that differ, players of one identity or of two, on a        *)
(* network that loses and repeats payloads, or with restarts.  At 1 a      *)
(* clock is not plausible, and too far behind a state changed twice at 4.  *)
MCGroups ==
    {Group({1, 2, 3}, {4}, 2, 0, 0, 0, 0, 0),
     Group({1, 2}, {1, 4}, 2, 0, 0, 0, 1, 0),
     Group({2, 3}, {1, 4}, 2, 0, 0, 0, 1, 0),
     Group({1, 2}, {1, 4}, 1, 1, 1, 0, 0, 0),
     Group({1, 3}, {1, 4}, 2, 0, 0, 0, 1, 0),
     Group({1, 2}, {4}, 0, 2, 2, 0, 1, 0),
     Group({1, 2}, {1, 4}, 1, 0, 0, 1, 0, 1),
     Group({1, 2}, {4}, 0, 1, 1, 1, 1, 1)}
=============================================================================
