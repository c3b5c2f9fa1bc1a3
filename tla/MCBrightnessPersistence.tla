----------------------- MODULE MCBrightnessPersistence -----------------------
(* Small instances of BrightnessPersistence for TLC. *)
EXTENDS BrightnessPersistence

(* A peer that closed its gate while its key is stale, and one with a dark *)
(* ceiling, an open gate and a key that may be the newer.                  *)
MCPeerStates ==
    {[changedAt |-> 0, value |-> [v \in Values |-> Settled(Full)], closed |-> TRUE, gateRevision |-> 2],
     [changedAt |-> 3, value |-> [v \in Values |-> Settled(0)], closed |-> FALSE, gateRevision |-> 0]}

(* A fade that lies ahead, and one that is under way. *)
MCWindows == {<<2, 4>>, <<3, 5>>}

Allow(commands, gates, peers, ends, faults, instants) ==
    [commands |-> commands, gates |-> gates, peers |-> peers, ends |-> ends, faults |-> faults,
     instants |-> instants]

(* Fades over a restart; the gate over a fault and a restart, written twice *)
(* or written and adopted; and fades together with either.                  *)
MCBudgets == {Allow(2, 0, 0, 1, 0, 1), Allow(0, 2, 0, 1, 1, 0), Allow(0, 1, 1, 1, 1, 0),
              Allow(1, 1, 0, 1, 0, 0), Allow(1, 0, 1, 1, 0, 0)}

MCBrighterBudgets == {Allow(2, 0, 0, 1, 0, 0)}
=============================================================================
