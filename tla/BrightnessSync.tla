--------------------------- MODULE BrightnessSync ---------------------------
(***************************************************************************)
(* Hosts that exchange their full brightness state over MultiSync: the     *)
(* ordering key and the weather gate of native/src/brightness.cpp, and the *)
(* publishing and adopting of native/src/runtime.cpp.                      *)
(*                                                                         *)
(* The ceiling and the gain with their fades are one value here, since the *)
(* exchange only copies and compares them; its number is also its content  *)
(* hash.  What a host renders and saves is in BrightnessPersistence.       *)
(*                                                                         *)
(* Every local change of the shared state is numbered.  The number, called *)
(* write, travels with the state; the code has none, and only properties   *)
(* read it.                                                                *)
(***************************************************************************)
EXTENDS Integers, FiniteSets

CONSTANTS
    Hosts,
    InstanceId,          \* each host's identity, a number for its order
    MaxValue,            \* values are 1 .. MaxValue
    SafeValue,           \* what an untrusted restart settles on
    Earliest,            \* kEarliestPlausibleEpochMillis
    Ahead,               \* kMaxOrderingKeyAheadOfNowMillis
    MaxGateRevision,     \* kMaxWeatherGateRevision
    Groups               \* the groups of hosts, one to a behaviour: the
                         \* senders, which have MultiSync enabled; the
                         \* instants their clocks may read, in any order;
                         \* and bounds on commands, orders, gate writes,
                         \* lost and copied payloads, and stops

Bounded == {"commands", "orders", "gates", "lost", "copies", "stops"}

ASSUME HostAssumption == InstanceId \in [Hosts -> Nat]

ASSUME NumberAssumption ==
    /\ MaxValue \in Nat
    /\ SafeValue \in 1 .. MaxValue
    /\ Earliest \in Nat
    /\ Ahead \in Nat
    /\ MaxGateRevision \in Nat

ASSUME GroupAssumption ==
    Groups \subseteq [senders : SUBSET Hosts, instants : SUBSET Nat, bounds : [Bounded -> Nat]]

VARIABLES
    group,       \* the group, for good
    engine,      \* engine_ of each host; of a stopped one, its saved record
    up,          \* the hosts whose plugin runs
    changed,     \* the hosts whose state is not published as it is now
    inFlight,    \* the payloads on the network, each with its receiver
    order,       \* the coordinator's latest order about the weather gate
    left,        \* what is left of the budget
    history      \* read by properties alone

vars == <<group, engine, up, changed, inFlight, order, left, history>>

Spend(what) ==
    /\ left[what] > 0
    /\ left' = [left EXCEPT ![what] = @ - 1]

Senders == group.senders
Instants == group.instants

Value == 1 .. MaxValue

(* orderingContentHash() of a value; a host that never changed has the     *)
(* empty hash.                                                             *)
Hash(value) == value
EmptyHash == 0

Capped(revision) == IF revision < MaxGateRevision THEN revision ELSE MaxGateRevision

Later(a, b) == IF a < b THEN b ELSE a
-----------------------------------------------------------------------------
(* A host that has never changed, once the hosts have exchanged their first *)
(* states: these tie on time zero, and the greatest identity it heard wins. *)
Fresh(host, greatest) ==
    [value |-> MaxValue, at |-> 0, by |-> InstanceId[greatest],
     hash |-> IF greatest = host THEN EmptyHash ELSE Hash(MaxValue),
     closed |-> FALSE, gateRevision |-> 0, write |-> 0]

Greatest(host, heard) ==
    /\ heard \in Senders \union {host}
    /\ \A sender \in Senders \union {host} : InstanceId[sender] <= InstanceId[heard]
    /\ heard = host => \A sender \in Senders \ {host} : InstanceId[sender] < InstanceId[host]

(* captureState(): the sender's own identity, whosever state it holds. *)
Captured(host) ==
    [value |-> engine[host].value, at |-> engine[host].at, by |-> InstanceId[host],
     closed |-> engine[host].closed, gateRevision |-> engine[host].gateRevision,
     write |-> engine[host].write]

NextWrite == history.writes + 1

(* Plausible bug: the clock's reading alone. *)
StampNow(held, now) == now

(* bumpRevision(): a local change orders after whatever it replaces. *)
Stamp(held, now) == Later(now, held.at + 1)

Bumped(held, host, now) ==
    [held EXCEPT !.at = Stamp(held, now), !.by = InstanceId[host], !.hash = Hash(held.value),
                 !.write = NextWrite]

LocalChange(host, held) ==
    /\ engine' = [engine EXCEPT ![host] = held]
    /\ changed' = changed \union {host}

(* The history of a local change: what it replaced must not come back. *)
Numbered(host) ==
    [history EXCEPT !.writes = NextWrite, !.replaced[host] = @ \union {engine[host].write}]

Init ==
    /\ group \in Groups
    /\ \E heard \in [Hosts -> Hosts] :
          /\ \A host \in Hosts : Greatest(host, heard[host])
          /\ engine = [host \in Hosts |-> Fresh(host, heard[host])]
    /\ up = Hosts
    /\ changed = {}
    /\ inFlight = {}
    /\ order = [closed |-> FALSE, revision |-> 0]
    /\ left = group.bounds
    /\ history = [writes |-> 0, replaced |-> [host \in Hosts |-> {}], closes |-> {},
                  disturbed |-> {}]
-----------------------------------------------------------------------------
(* setCeiling(), setGain() and setGainBetween(), by their routes. *)
Command(host, value, now) ==
    /\ host \in up
    /\ Spend("commands")
    /\ LocalChange(host, Bumped([engine[host] EXCEPT !.value = value], host, now))
    /\ history' = Numbered(host)
    /\ UNCHANGED <<up, inFlight, order>>

(* The coordinator orders the gates closed, or open at a newer revision. *)
NewOrder ==
    /\ Spend("orders")
    /\ order' = [closed |-> ~order.closed, revision |-> order.revision + 1]
    /\ UNCHANGED <<engine, up, changed, inFlight, history>>

(* setWeatherGate(): at least one above what the host has. *)
RaisedRevision(held, revision) ==
    Later(Capped(held.gateRevision + 1), Capped(revision))

(* The coordinator writes its order to one host, and may do so again. *)
GateWrite(host, now) ==
    /\ host \in up
    /\ order.revision > 0
    /\ Spend("gates")
    /\ LET raised == RaisedRevision(engine[host], order.revision)
       IN  /\ LocalChange(host, Bumped([engine[host] EXCEPT !.closed = order.closed,
                                                            !.gateRevision = raised],
                                       host, now))
           /\ history' = [Numbered(host) EXCEPT
                              !.closes = IF order.closed THEN @ \union {raised} ELSE @]
    /\ UNCHANGED <<up, inFlight, order>>

(* publishBrightnessIfChanged(): to every other host, those that do not    *)
(* run missing it; a host that has MultiSync disabled keeps it to itself.  *)
Publish(host) ==
    /\ host \in up \intersect changed
    /\ changed' = changed \ {host}
    /\ inFlight' = inFlight \union
           (IF host \in Senders THEN [to : up \ {host}, state : {Captured(host)}] ELSE {})
    /\ UNCHANGED <<engine, up, order, left, history>>
-----------------------------------------------------------------------------
(* adoptState() *)

ClosesGate(held, state) == state.closed /\ state.gateRevision > held.gateRevision

WithPeerGate(held, state) ==
    IF ClosesGate(held, state)
    THEN [held EXCEPT !.closed = TRUE, !.gateRevision = Capped(state.gateRevision)]
    ELSE held

Plausible(at) == at = 0 \/ at >= Earliest

Acceptable(state, now) == Plausible(state.at) /\ state.at - Ahead <= now

(* Plausible bugs: the key has no third tier; or a tie is adopted. *)
NewerWithoutHash(state, held) ==
    \/ state.at > held.at
    \/ state.at = held.at /\ state.by > held.by

NewerOrEqual(state, held) ==
    \/ state.at > held.at
    \/ state.at = held.at /\ state.by >= held.by

(* (stateChangedAtMillis, instanceId, hash), compared in this order. *)
Newer(state, held) ==
    \/ state.at > held.at
    \/ state.at = held.at /\ state.by > held.by
    \/ state.at = held.at /\ state.by = held.by /\ Hash(state.value) > held.hash

Adopts(held, state, now) == Acceptable(state, now) /\ Newer(state, held)

(* The key is kept as received, not made anew from the host's own. *)
WithPeerValue(held, state) ==
    [held EXCEPT !.value = state.value, !.at = state.at, !.by = state.by,
                 !.hash = Hash(state.value), !.write = state.write]

(* Plausible bug: the gate is adopted with the rest, or not at all. *)
ReceivedTogether(held, state, now) ==
    IF Adopts(held, state, now)
    THEN WithPeerValue(WithPeerGate(held, state), state)
    ELSE held

Received(held, state, now) ==
    IF Adopts(held, state, now)
    THEN WithPeerValue(WithPeerGate(held, state), state)
    ELSE WithPeerGate(held, state)

Revises(held, state, now) == ClosesGate(held, state) \/ Adopts(held, state, now)

Adopt(payload, now) ==
    LET held == engine[payload.to]
    IN  /\ payload \in inFlight
        /\ engine' = [engine EXCEPT ![payload.to] = Received(held, payload.state, now)]
        /\ changed' = IF Revises(held, payload.state, now)
                      THEN changed \union {payload.to} ELSE changed
        /\ history' = IF Acceptable(payload.state, now)
                      THEN history
                      ELSE [history EXCEPT !.disturbed = @ \union {"refused"}]
        /\ UNCHANGED <<up, order>>

Receive(payload, now) ==
    /\ Adopt(payload, now)
    /\ inFlight' = inFlight \ {payload}
    /\ UNCHANGED left

(* The network delivers a payload and will deliver it once more. *)
ReceiveCopy(payload, now) ==
    /\ Adopt(payload, now)
    /\ Spend("copies")
    /\ UNCHANGED inFlight

Lose(payload) ==
    /\ payload \in inFlight
    /\ Spend("lost")
    /\ inFlight' = inFlight \ {payload}
    /\ history' = [history EXCEPT !.disturbed = @ \union {"lost"}]
    /\ UNCHANGED <<engine, up, changed, order>>
-----------------------------------------------------------------------------
(* A stop writes the state; what is on its way to the host is missed. *)
Stop(host) ==
    /\ host \in up
    /\ Spend("stops")
    /\ up' = up \ {host}
    /\ inFlight' = {payload \in inFlight : payload.to # host}
    /\ history' = [history EXCEPT !.disturbed = @ \union {"restarted"}]
    /\ UNCHANGED <<engine, changed, order>>

(* restoreFromPersisted() of a trusted record: the key's identity is the   *)
(* host's own again.  An implausible key is not taken from the record, and *)
(* its state counts as a new one.                                          *)
Restored(host) ==
    IF Plausible(engine[host].at)
    THEN [engine[host] EXCEPT !.by = InstanceId[host], !.hash = Hash(engine[host].value)]
    ELSE [engine[host] EXCEPT !.at = 0, !.by = InstanceId[host], !.hash = EmptyHash,
                              !.write = NextWrite]

(* settleSafeAfterUntrustedRestart(), from a backup that has the gate. *)
Settled(host, now) ==
    Bumped([engine[host] EXCEPT !.value = SafeValue, !.at = 0], host, now)

(* Every start publishes once.  Where the record's key is forgotten, what  *)
(* the host had replaced may come back from its peers.                     *)
Start(host, held, forgets) ==
    /\ host \in Hosts \ up
    /\ up' = up \union {host}
    /\ LocalChange(host, held)
    /\ history' = [history EXCEPT !.replaced[host] = IF forgets THEN {} ELSE @,
                                  !.writes = Later(@, held.write)]
    /\ UNCHANGED <<inFlight, order, left>>

StartTrusted(host) == Start(host, Restored(host), ~Plausible(engine[host].at))

StartUntrusted(host, now) == Start(host, Settled(host, now), TRUE)

Next ==
    /\ \/ NewOrder
       \/ \E host \in Hosts :
             \/ Publish(host)
             \/ Stop(host)
             \/ StartTrusted(host)
             \/ \E now \in Instants :
                   \/ \E value \in Value : Command(host, value, now)
                   \/ GateWrite(host, now)
                   \/ StartUntrusted(host, now)
       \/ \E payload \in inFlight :
             \/ Lose(payload)
             \/ \E now \in Instants : Receive(payload, now) \/ ReceiveCopy(payload, now)
    /\ UNCHANGED group

(* The worker of a running host publishes within its poll, and a payload   *)
(* that is not lost arrives; that a stopped host starts again is FPP's.    *)
Fairness ==
    /\ \A host \in Hosts : WF_vars(Publish(host) /\ UNCHANGED group)
    /\ WF_vars(\E payload \in inFlight, now \in Instants :
                  Receive(payload, now) /\ UNCHANGED group)

Spec == Init /\ [][Next]_vars /\ Fairness
-----------------------------------------------------------------------------
State ==
    [value : Value, at : Nat, by : Nat, closed : BOOLEAN, gateRevision : 0 .. MaxGateRevision,
     write : Nat]

Held ==
    [value : Value, at : Nat, by : Nat, hash : Value \union {EmptyHash}, closed : BOOLEAN,
     gateRevision : 0 .. MaxGateRevision, write : Nat]

History ==
    [writes : Nat, replaced : [Hosts -> SUBSET Nat], closes : SUBSET Nat,
     disturbed : SUBSET {"refused", "lost", "restarted"}]

(* Every variable keeps its type; no gate revision passes the limit. *)
TypeOK ==
    /\ group \in Groups
    /\ engine \in [Hosts -> Held]
    /\ up \subseteq Hosts
    /\ changed \subseteq Hosts
    /\ inFlight \subseteq [to : Hosts, state : State]
    /\ order \in [closed : BOOLEAN, revision : Nat]
    /\ left \in [Bounded -> Nat]
    /\ history \in History

Quiet == up = Hosts /\ changed = {} /\ inFlight = {}

(* A host that may not send keeps a change of its own to itself. *)
KeepsItsOwn(host, sender) ==
    /\ host \notin Senders
    /\ engine[host].by = InstanceId[host]
    /\ ~Newer(Captured(sender), engine[host])

(* Two nodes that each ran a command converge on the same state whichever  *)
(* of them adopts first, and whatever order and copies payloads arrive in: *)
(* once nothing is on its way, every host holds what the senders hold.  A  *)
(* lost payload, a restart or a clock too far behind may keep them apart   *)
(* until the next change, since nothing is sent again.                     *)
Agreement ==
    Quiet /\ history.disturbed = {} =>
        \A sender \in Senders, host \in Hosts :
            engine[host].value = engine[sender].value \/ KeepsItsOwn(host, sender)

(* A sender's closed gate reaches every host whose gate is not newer, open *)
(* or closed, whatever their clocks say and whosever value is the newer.   *)
GateSpreads ==
    Quiet /\ history.disturbed \subseteq {"refused"} =>
        \A sender \in Senders, host \in Hosts :
            engine[sender].closed => engine[host].gateRevision >= engine[sender].gateRevision

(* What a host has replaced by a change of its own never comes back to it, *)
(* however late a payload or a peer's copy of it arrives, even when the    *)
(* change fell into the same millisecond or the clock was set back.        *)
ReplacedNeverReturns ==
    \A host \in Hosts : engine[host].write \notin history.replaced[host]

(* Hosts pass a closed gate on at the revision a coordinator's close was   *)
(* stored at; revisions do not climb as the hosts answer each other.       *)
ClosedGateWasWritten ==
    \A host \in Hosts :
        engine[host].closed => engine[host].gateRevision \in history.closes

(* The exchange ends: adopting is publishing, but no two hosts send the    *)
(* same state to and fro for ever.                                         *)
Settles == <>[](up \intersect changed = {} /\ inFlight = {})
=============================================================================
