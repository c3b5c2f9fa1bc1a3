------------------------ MODULE BrightnessSync_proofs ------------------------
(***************************************************************************)
(* The safety properties of BrightnessSync, for any number of hosts, any   *)
(* senders among them, and any order of payloads and copies.               *)
(***************************************************************************)
EXTENDS BrightnessSync, TLAPS

(* Every copy of a state is of a write made so far, and was made at one    *)
(* time, which its key keeps.                                              *)
WritesNumbered ==
    /\ \A host \in Hosts : engine[host].write <= history.writes
    /\ \A payload \in inFlight : payload.state.write <= history.writes
    /\ \A host \in Hosts : \A write \in history.replaced[host] : write <= history.writes

OneTimeEach ==
    /\ \A a, b \in Hosts : engine[a].write = engine[b].write => engine[a].at = engine[b].at
    /\ \A a \in Hosts, p \in inFlight :
           engine[a].write = p.state.write => engine[a].at = p.state.at
    /\ \A p, q \in inFlight : p.state.write = q.state.write => p.state.at = q.state.at

(* What a host replaced is older than what it holds, wherever a copy is. *)
ReplacedIsOlder ==
    \A host \in Hosts : \A write \in history.replaced[host] :
        /\ \A other \in Hosts : engine[other].write = write => engine[other].at < engine[host].at
        /\ \A p \in inFlight : p.state.write = write => p.state.at < engine[host].at

WriteInv == TypeOK /\ WritesNumbered /\ OneTimeEach /\ ReplacedIsOlder

GateInv ==
    /\ ClosedGateWasWritten
    /\ \A p \in inFlight : p.state.closed => p.state.gateRevision \in history.closes

(* Until a payload is lost or a host stops, a closed gate is at a host, or *)
(* about to be published, or on its way.                                   *)
GateOnItsWay ==
    history.disturbed \subseteq {"refused"} =>
        /\ up = Hosts
        /\ \A sender \in Senders, host \in Hosts :
               \/ ~engine[sender].closed
               \/ engine[host].gateRevision >= engine[sender].gateRevision
               \/ sender \in changed
               \/ \E p \in inFlight :
                      /\ p.to = host
                      /\ p.state.closed
                      /\ p.state.gateRevision = engine[sender].gateRevision

-----------------------------------------------------------------------------
(* Types.  What each operator returns, field by field, is stated once; the *)
(* steps below use these facts and not the records.                        *)

LEMMA GroupType ==
    ASSUME group \in Groups
    PROVE  /\ Senders \subseteq Hosts
           /\ Instants \subseteq Nat
           /\ group.bounds \in [Bounded -> Nat]
  BY GroupAssumption DEF Senders, Instants

LEMMA CappedType ==
    ASSUME NEW r \in Nat
    PROVE  /\ Capped(r) \in 0 .. MaxGateRevision
           /\ r \in 0 .. MaxGateRevision => Capped(r) = r
  BY NumberAssumption DEF Capped

LEMMA RaisedType ==
    ASSUME NEW held \in Held, NEW r \in Nat
    PROVE  /\ RaisedRevision(held, r) \in 0 .. MaxGateRevision
           /\ RaisedRevision(held, r) >= held.gateRevision
  <1>1. held.gateRevision \in 0 .. MaxGateRevision
    BY DEF Held
  <1> QED
    BY <1>1, NumberAssumption DEF RaisedRevision, Later, Capped

(* A local change keeps value and gate, takes a new number and a later key. *)
LEMMA BumpedFields ==
    ASSUME NEW held \in Held, NEW host \in Hosts, NEW now \in Nat, history.writes \in Nat
    PROVE  /\ Bumped(held, host, now) \in Held
           /\ Bumped(held, host, now).value = held.value
           /\ Bumped(held, host, now).at > held.at
           /\ Bumped(held, host, now).by = InstanceId[host]
           /\ Bumped(held, host, now).hash = held.value
           /\ Bumped(held, host, now).closed = held.closed
           /\ Bumped(held, host, now).gateRevision = held.gateRevision
           /\ Bumped(held, host, now).write = history.writes + 1
  <1>1. Stamp(held, now) \in Nat /\ Stamp(held, now) > held.at
    BY DEF Stamp, Later, Held
  <1>2. InstanceId[host] \in Nat
    BY HostAssumption
  <1> DEFINE key == [held EXCEPT !.at = Stamp(held, now), !.by = InstanceId[host]]
  <1>3. /\ key \in Held
        /\ key.at = Stamp(held, now) /\ key.by = InstanceId[host] /\ key.value = held.value
        /\ key.closed = held.closed /\ key.gateRevision = held.gateRevision
    BY <1>1, <1>2 DEF Held
  <1>4. Bumped(held, host, now) =
            [key EXCEPT !.hash = held.value, !.write = history.writes + 1]
    BY DEF Bumped, Hash, NextWrite, Held
  <1> HIDE DEF key
  <1>5. held.value \in Value /\ history.writes + 1 \in Nat
    BY DEF Held
  <1> QED
    BY <1>1, <1>3, <1>4, <1>5 DEF Held

LEMMA CapturedFields ==
    ASSUME engine \in [Hosts -> Held], NEW host \in Hosts
    PROVE  /\ Captured(host) \in State
           /\ Captured(host).value = engine[host].value
           /\ Captured(host).at = engine[host].at
           /\ Captured(host).by = InstanceId[host]
           /\ Captured(host).closed = engine[host].closed
           /\ Captured(host).gateRevision = engine[host].gateRevision
           /\ Captured(host).write = engine[host].write
  BY HostAssumption DEF Captured, Held, State

(* What a payload makes of a host's state: gate and value each for itself. *)
LEMMA ReceivedFields ==
    ASSUME NEW held \in Held, NEW state \in State, NEW now \in Nat
    PROVE  /\ Received(held, state, now) \in Held
           /\ Adopts(held, state, now) =>
                 /\ Received(held, state, now).value = state.value
                 /\ Received(held, state, now).at = state.at
                 /\ Received(held, state, now).by = state.by
                 /\ Received(held, state, now).hash = state.value
                 /\ Received(held, state, now).write = state.write
           /\ ~Adopts(held, state, now) =>
                 /\ Received(held, state, now).value = held.value
                 /\ Received(held, state, now).at = held.at
                 /\ Received(held, state, now).by = held.by
                 /\ Received(held, state, now).hash = held.hash
                 /\ Received(held, state, now).write = held.write
           /\ ClosesGate(held, state) =>
                 /\ Received(held, state, now).closed
                 /\ Received(held, state, now).gateRevision = state.gateRevision
           /\ ~ClosesGate(held, state) =>
                 /\ Received(held, state, now).closed = held.closed
                 /\ Received(held, state, now).gateRevision = held.gateRevision
  <1>1. state.gateRevision \in 0 .. MaxGateRevision
    BY DEF State
  <1>2. Capped(state.gateRevision) = state.gateRevision
    BY <1>1, CappedType, NumberAssumption
  <1> DEFINE gated == WithPeerGate(held, state)
  <1>3. /\ gated \in Held
        /\ gated.value = held.value /\ gated.at = held.at /\ gated.by = held.by
        /\ gated.hash = held.hash /\ gated.write = held.write
        /\ ClosesGate(held, state) => gated.closed /\ gated.gateRevision = state.gateRevision
        /\ ~ClosesGate(held, state) =>
              gated.closed = held.closed /\ gated.gateRevision = held.gateRevision
    <2>1. CASE ClosesGate(held, state)
      BY <1>1, <1>2, <2>1 DEF WithPeerGate, Held
    <2>2. CASE ~ClosesGate(held, state)
      BY <2>2 DEF WithPeerGate, Held
    <2> QED
      BY <2>1, <2>2
  <1> HIDE DEF gated
  <1>4. /\ WithPeerValue(gated, state) \in Held
        /\ WithPeerValue(gated, state).value = state.value
        /\ WithPeerValue(gated, state).at = state.at
        /\ WithPeerValue(gated, state).by = state.by
        /\ WithPeerValue(gated, state).hash = state.value
        /\ WithPeerValue(gated, state).write = state.write
        /\ WithPeerValue(gated, state).closed = gated.closed
        /\ WithPeerValue(gated, state).gateRevision = gated.gateRevision
    BY <1>3 DEF WithPeerValue, Held, State, Hash
  <1>5. Received(held, state, now) =
            IF Adopts(held, state, now) THEN WithPeerValue(gated, state) ELSE gated
    BY DEF Received, gated
  <1> QED
    BY <1>3, <1>4, <1>5

LEMMA RestoredFields ==
    ASSUME engine \in [Hosts -> Held], NEW host \in Hosts, history.writes \in Nat
    PROVE  /\ Restored(host) \in Held
           /\ Restored(host).closed = engine[host].closed
           /\ Restored(host).gateRevision = engine[host].gateRevision
           /\ IF Plausible(engine[host].at)
              THEN /\ Restored(host).at = engine[host].at
                   /\ Restored(host).write = engine[host].write
              ELSE Restored(host).write = history.writes + 1
  <1>1. engine[host] \in Held /\ InstanceId[host] \in Nat
    BY HostAssumption
  <1>2. CASE Plausible(engine[host].at)
    <2>1. engine[host].value \in Value
      BY <1>1 DEF Held
    <2>2. Restored(host) =
              [engine[host] EXCEPT !.by = InstanceId[host], !.hash = engine[host].value]
      BY <1>2 DEF Restored, Hash
    <2>3. /\ Restored(host) \in Held
          /\ Restored(host).closed = engine[host].closed
          /\ Restored(host).gateRevision = engine[host].gateRevision
          /\ Restored(host).at = engine[host].at
          /\ Restored(host).write = engine[host].write
      BY <1>1, <2>1, <2>2 DEF Held
    <2> QED
      BY <1>2, <2>3
  <1>3. CASE ~Plausible(engine[host].at)
    <2> DEFINE unkeyed == [engine[host] EXCEPT !.at = 0, !.by = InstanceId[host]]
    <2>1. /\ unkeyed \in Held
          /\ unkeyed.closed = engine[host].closed
          /\ unkeyed.gateRevision = engine[host].gateRevision
      BY <1>1 DEF Held
    <2>2. Restored(host) = [unkeyed EXCEPT !.hash = EmptyHash, !.write = history.writes + 1]
      BY <1>1, <1>3 DEF Restored, NextWrite, Held
    <2> HIDE DEF unkeyed
    <2>3. /\ Restored(host) \in Held
          /\ Restored(host).closed = engine[host].closed
          /\ Restored(host).gateRevision = engine[host].gateRevision
          /\ Restored(host).write = history.writes + 1
      <3> DEFINE w == history.writes + 1
      <3>1. w \in Nat
        OBVIOUS
      <3> HIDE DEF w
      <3>2. Restored(host) = [unkeyed EXCEPT !.hash = EmptyHash, !.write = w]
        BY <2>2 DEF w
      <3>3. /\ Restored(host) \in Held
            /\ Restored(host).closed = unkeyed.closed
            /\ Restored(host).gateRevision = unkeyed.gateRevision
            /\ Restored(host).write = w
        BY <2>1, <3>1, <3>2 DEF Held
      <3> QED
        BY <2>1, <3>3 DEF w
    <2> QED
      BY <1>3, <2>3
  <1> QED
    BY <1>2, <1>3

LEMMA SettledFields ==
    ASSUME engine \in [Hosts -> Held], NEW host \in Hosts, NEW now \in Nat,
           history.writes \in Nat
    PROVE  /\ Settled(host, now) \in Held
           /\ Settled(host, now).closed = engine[host].closed
           /\ Settled(host, now).gateRevision = engine[host].gateRevision
           /\ Settled(host, now).write = history.writes + 1
  <1> DEFINE dark == [engine[host] EXCEPT !.value = SafeValue, !.at = 0]
  <1>1. /\ dark \in Held
        /\ dark.closed = engine[host].closed
        /\ dark.gateRevision = engine[host].gateRevision
    BY NumberAssumption DEF Held, Value
  <1>2. Settled(host, now) = Bumped(dark, host, now)
    BY DEF Settled
  <1> HIDE DEF dark
  <1> QED
    BY <1>1, <1>2, BumpedFields

LEMMA InitType == Init => TypeOK
  <1> SUFFICES ASSUME Init
               PROVE  TypeOK
    OBVIOUS
  <1>1. group \in Groups /\ left = group.bounds
    BY DEF Init
  <1>2. PICK heard \in [Hosts -> Hosts] :
            engine = [host \in Hosts |-> Fresh(host, heard[host])]
    BY DEF Init
  <1>3. \A host \in Hosts : Fresh(host, heard[host]) \in Held
    BY NumberAssumption, HostAssumption DEF Fresh, Held, Value, EmptyHash, Hash
  <1>4. engine \in [Hosts -> Held]
    BY <1>2, <1>3
  <1>5. /\ history.writes = 0 /\ history.closes = {}
        /\ history \in History
    BY DEF Init, History
  <1> QED
    BY <1>1, <1>4, <1>5, GroupType DEF Init, TypeOK

LEMMA SpendType ==
    ASSUME left \in [Bounded -> Nat], NEW what \in Bounded, Spend(what)
    PROVE  left' \in [Bounded -> Nat]
  BY DEF Spend

LEMMA StepType == TypeOK /\ [Next]_vars => TypeOK'
  <1> SUFFICES ASSUME TypeOK, [Next]_vars
               PROVE  TypeOK'
    OBVIOUS
  <1>t. /\ group \in Groups
        /\ engine \in [Hosts -> Held]
        /\ up \subseteq Hosts
        /\ changed \subseteq Hosts
        /\ inFlight \subseteq [to : Hosts, state : State]
        /\ order \in [closed : BOOLEAN, revision : Nat]
        /\ left \in [Bounded -> Nat]
        /\ history \in History
    BY DEF TypeOK
  <1>w. history.writes \in Nat
    BY <1>t DEF History
  <1>g. Senders \subseteq Hosts /\ Instants \subseteq Nat
    BY <1>t, GroupType
  <1>n. \A host \in Hosts : Numbered(host) \in History
    <2> SUFFICES ASSUME NEW host \in Hosts
                 PROVE  Numbered(host) \in History
      OBVIOUS
    <2>1. /\ engine[host].write \in Nat
          /\ history.replaced \in [Hosts -> SUBSET Nat]
      BY <1>t DEF Held, History
    <2> DEFINE r == [history.replaced EXCEPT ![host] = @ \union {engine[host].write}]
    <2>2. r \in [Hosts -> SUBSET Nat]
      BY <2>1
    <2>3. Numbered(host) = [history EXCEPT !.writes = history.writes + 1, !.replaced = r]
      BY <1>t DEF Numbered, NextWrite, History
    <2> DEFINE w == history.writes + 1
    <2>4. w \in Nat
      BY <1>w
    <2> HIDE DEF r, w
    <2>5. Numbered(host) = [history EXCEPT !.writes = w, !.replaced = r]
      BY <2>3 DEF w
    <2> QED
      BY <1>t, <2>2, <2>4, <2>5 DEF History
  <1>1. ASSUME NEW host \in Hosts, NEW now \in Instants, NEW value \in Value,
               Command(host, value, now), UNCHANGED group
        PROVE  TypeOK'
    <2> DEFINE held == [engine[host] EXCEPT !.value = value]
    <2>1. held \in Held
      BY <1>t DEF Held
    <2> HIDE DEF held
    <2>2. Bumped(held, host, now) \in Held
      BY <1>g, <1>w, <2>1, BumpedFields
    <2>3. engine' = [engine EXCEPT ![host] = Bumped(held, host, now)]
          /\ changed' = changed \union {host}
      BY <1>1 DEF Command, LocalChange, held
    <2>4. left' \in [Bounded -> Nat]
      BY <1>1, <1>t, SpendType DEF Command, Bounded
    <2> QED
      BY <1>1, <1>t, <1>n, <2>2, <2>3, <2>4 DEF TypeOK, Command
  <1>2. ASSUME NewOrder, UNCHANGED group
        PROVE  TypeOK'
    <2>1. left' \in [Bounded -> Nat]
      BY <1>2, <1>t, SpendType DEF NewOrder, Bounded
    <2>2. history' \in History
      BY <1>2, <1>t DEF NewOrder, History
    <2>3. order' \in [closed : BOOLEAN, revision : Nat]
      BY <1>2, <1>t DEF NewOrder
    <2> QED
      BY <1>2, <1>t, <2>1, <2>2, <2>3 DEF TypeOK, NewOrder
  <1>3. ASSUME NEW host \in Hosts, NEW now \in Instants, GateWrite(host, now), UNCHANGED group
        PROVE  TypeOK'
    <2> DEFINE raised == RaisedRevision(engine[host], order.revision)
               held == [engine[host] EXCEPT !.closed = order.closed, !.gateRevision = raised]
    <2>1. raised \in 0 .. MaxGateRevision
      BY <1>t, RaisedType
    <2>2. held \in Held
      <3> HIDE DEF raised
      <3> QED
        BY <1>t, <2>1 DEF Held
    <2>3. /\ engine' = [engine EXCEPT ![host] = Bumped(held, host, now)]
          /\ changed' = changed \union {host}
      BY <1>3 DEF GateWrite, LocalChange
    <2>4. Bumped(held, host, now) \in Held
      <3> HIDE DEF held
      <3> QED
        BY <1>g, <1>w, <2>2, BumpedFields
    <2>5. left' \in [Bounded -> Nat]
      BY <1>3, <1>t, SpendType DEF GateWrite, Bounded
    <2>6. history' \in History
      <3> DEFINE c == IF order.closed THEN history.closes \union {raised} ELSE history.closes
      <3>1. Numbered(host).closes = history.closes
        BY <1>t DEF Numbered, History
      <3>2. history' = [Numbered(host) EXCEPT !.closes = c]
        BY <1>3, <3>1 DEF GateWrite
      <3>3. c \in SUBSET Nat
        BY <1>t, <2>1, NumberAssumption DEF History
      <3>4. Numbered(host) \in History
        BY <1>n
      <3> HIDE DEF c
      <3> QED
        BY <3>2, <3>3, <3>4 DEF History
    <2> HIDE DEF held
    <2> QED
      BY <1>3, <1>t, <2>3, <2>4, <2>5, <2>6 DEF TypeOK, GateWrite
  <1>4. ASSUME NEW host \in Hosts, Publish(host), UNCHANGED group
        PROVE  TypeOK'
    <2>1. Captured(host) \in State
      BY <1>t, CapturedFields
    <2>2. [to : up \ {host}, state : {Captured(host)}] \subseteq [to : Hosts, state : State]
      BY <1>t, <2>1
    <2>3. inFlight' \subseteq [to : Hosts, state : State]
      BY <1>4, <1>t, <2>2 DEF Publish
    <2> QED
      BY <1>4, <1>t, <2>3 DEF TypeOK, Publish
  <1>5. ASSUME NEW payload \in inFlight, NEW now \in Instants, Adopt(payload, now),
               UNCHANGED group, inFlight' \subseteq inFlight, left' \in [Bounded -> Nat]
        PROVE  TypeOK'
    <2>1. payload.to \in Hosts /\ payload.state \in State
      BY <1>t
    <2>2. Received(engine[payload.to], payload.state, now) \in Held
      BY <1>t, <1>g, <2>1, ReceivedFields
    <2>3. engine' = [engine EXCEPT ![payload.to] =
                        Received(engine[payload.to], payload.state, now)]
      BY <1>5 DEF Adopt
    <2>4. changed' \subseteq Hosts
      BY <1>5, <1>t, <2>1 DEF Adopt
    <2>5. history' \in History
      BY <1>5, <1>t DEF Adopt, History
    <2> QED
      BY <1>5, <1>t, <2>1, <2>2, <2>3, <2>4, <2>5 DEF TypeOK, Adopt
  <1>6. ASSUME NEW payload \in inFlight, Lose(payload), UNCHANGED group
        PROVE  TypeOK'
    <2>1. left' \in [Bounded -> Nat]
      BY <1>6, <1>t, SpendType DEF Lose, Bounded
    <2>2. history' \in History
      BY <1>6, <1>t DEF Lose, History
    <2> QED
      BY <1>6, <1>t, <2>1, <2>2 DEF TypeOK, Lose
  <1>7. ASSUME NEW host \in Hosts, Stop(host), UNCHANGED group
        PROVE  TypeOK'
    <2>1. left' \in [Bounded -> Nat]
      BY <1>7, <1>t, SpendType DEF Stop, Bounded
    <2>2. history' \in History
      BY <1>7, <1>t DEF Stop, History
    <2> QED
      BY <1>7, <1>t, <2>1, <2>2 DEF TypeOK, Stop
  <1>8. ASSUME NEW host \in Hosts, NEW held \in Held, NEW forgets, Start(host, held, forgets),
               UNCHANGED group
        PROVE  TypeOK'
    <2>1. history' \in History
      <3> DEFINE r == [history.replaced EXCEPT ![host] = IF forgets THEN {} ELSE @]
                 w == Later(history.writes, held.write)
      <3>1. r \in [Hosts -> SUBSET Nat] /\ w \in Nat
        BY <1>t DEF History, Held, Later
      <3>2. history' = [history EXCEPT !.replaced = r, !.writes = w]
        BY <1>8, <1>t DEF Start, History
      <3> HIDE DEF r, w
      <3> QED
        BY <1>t, <3>1, <3>2 DEF History
    <2>2. engine' \in [Hosts -> Held]
      BY <1>8, <1>t DEF Start, LocalChange
    <2> QED
      BY <1>8, <1>t, <2>1, <2>2 DEF TypeOK, Start, LocalChange
  <1>9. CASE UNCHANGED vars
    BY <1>9, <1>t DEF vars, TypeOK
  <1>10. ASSUME NEW payload \in inFlight, NEW now \in Instants,
                Receive(payload, now) \/ ReceiveCopy(payload, now), UNCHANGED group
         PROVE  TypeOK'
    <2>1. left' \in [Bounded -> Nat]
      BY <1>10, <1>t, SpendType DEF Receive, ReceiveCopy, Bounded
    <2> QED
      BY <1>10, <1>5, <2>1 DEF Receive, ReceiveCopy
  <1>11. ASSUME NEW host \in Hosts, UNCHANGED group,
                \/ StartTrusted(host)
                \/ \E now \in Instants : StartUntrusted(host, now)
         PROVE  TypeOK'
    <2>1. Restored(host) \in Held
      BY <1>t, <1>w, RestoredFields
    <2>2. \A now \in Instants : Settled(host, now) \in Held
      BY <1>t, <1>w, <1>g, SettledFields
    <2> QED
      BY <1>8, <1>11, <2>1, <2>2 DEF StartTrusted, StartUntrusted
  <1> QED
    BY <1>1, <1>2, <1>3, <1>4, <1>6, <1>7, <1>9, <1>10, <1>11 DEF Next

(* Types are kept: no clock, no order of payloads and no write takes a     *)
(* gate revision past kMaxWeatherGateRevision.                             *)
THEOREM TypeCorrect == Spec => []TypeOK
  BY InitType, StepType, PTL DEF Spec
-----------------------------------------------------------------------------
(* Writes and what they replace. *)

LEMMA InitWrites == Init => WriteInv
  <1> SUFFICES ASSUME Init
               PROVE  WriteInv
    OBVIOUS
  <1>1. TypeOK
    BY InitType
  <1>2. PICK heard \in [Hosts -> Hosts] :
            engine = [host \in Hosts |-> Fresh(host, heard[host])]
    BY DEF Init
  <1>3. \A host \in Hosts : engine[host].write = 0 /\ engine[host].at = 0
    BY <1>2 DEF Fresh
  <1>4. /\ inFlight = {} /\ history.writes = 0
        /\ \A host \in Hosts : history.replaced[host] = {}
    BY DEF Init
  <1> QED
    BY <1>1, <1>3, <1>4 DEF WriteInv, WritesNumbered, OneTimeEach, ReplacedIsOlder

(* A change of one host's state under a new number. *)
LEMMA NewWrite ==
    ASSUME WriteInv, TypeOK', NEW host \in Hosts,
           \A other \in Hosts \ {host} : /\ engine'[other] = engine[other]
                                         /\ history'.replaced[other] = history.replaced[other],
           engine'[host].write = history.writes + 1,
           history'.writes = history.writes + 1,
           inFlight' \subseteq inFlight,
           \/ history'.replaced[host] = {}
           \/ /\ engine'[host].at > engine[host].at
              /\ history'.replaced[host] = history.replaced[host] \union {engine[host].write}
    PROVE  WriteInv'
  <1>1. /\ history.writes \in Nat
        /\ \A a \in Hosts : /\ engine[a].write \in Nat /\ engine[a].at \in Nat
                            /\ engine'[a].write \in Nat /\ engine'[a].at \in Nat
                            /\ history.replaced[a] \subseteq Nat
        /\ \A p \in inFlight : p.state.write \in Nat /\ p.state.at \in Nat
    BY DEF WriteInv, TypeOK, History, Held, State
  <1>2. WritesNumbered'
    BY <1>1 DEF WriteInv, WritesNumbered
  <1>3. OneTimeEach'
    <2>1. ASSUME NEW a \in Hosts, a # host
          PROVE  engine'[a].write # engine'[host].write
      BY <1>1, <2>1 DEF WriteInv, WritesNumbered
    <2>2. ASSUME NEW p \in inFlight'
          PROVE  p.state.write # engine'[host].write
      BY <1>1 DEF WriteInv, WritesNumbered
    <2> QED
      BY <2>1, <2>2 DEF WriteInv, OneTimeEach
  <1>4. ReplacedIsOlder'
    <2> SUFFICES ASSUME NEW h \in Hosts, NEW w \in history'.replaced[h]
                 PROVE  /\ \A other \in Hosts :
                               engine'[other].write = w => engine'[other].at < engine'[h].at
                        /\ \A p \in inFlight' : p.state.write = w => p.state.at < engine'[h].at
      BY DEF ReplacedIsOlder
    <2>1. CASE h # host
      <3>1. w \in history.replaced[h] /\ engine'[h] = engine[h]
        BY <2>1
      <3>2. w # engine'[host].write
        BY <3>1, <1>1 DEF WriteInv, WritesNumbered
      <3> QED
        BY <3>1, <3>2 DEF WriteInv, ReplacedIsOlder
    <2>2. CASE h = host
      <3>1. /\ engine'[host].at > engine[host].at
            /\ w \in history.replaced[host] \/ w = engine[host].write
        BY <2>2
      <3>2. w # engine'[host].write
        BY <3>1, <1>1 DEF WriteInv, WritesNumbered
      <3>3. CASE w \in history.replaced[host]
        <4>1. ASSUME NEW other \in Hosts, engine'[other].write = w
              PROVE  engine'[other].at < engine'[host].at
          <5>1. other # host /\ engine'[other] = engine[other]
            BY <3>2, <4>1
          <5>2. engine[other].at < engine[host].at
            BY <3>3, <4>1, <5>1 DEF WriteInv, ReplacedIsOlder
          <5> QED
            BY <1>1, <3>1, <5>1, <5>2
        <4>2. ASSUME NEW p \in inFlight', p.state.write = w
              PROVE  p.state.at < engine'[host].at
          <5>1. p.state.at < engine[host].at
            BY <3>3, <4>2 DEF WriteInv, ReplacedIsOlder
          <5> QED
            BY <1>1, <3>1, <5>1
        <4> QED
          BY <2>2, <4>1, <4>2
      <3>4. CASE w = engine[host].write
        <4>1. ASSUME NEW other \in Hosts, engine'[other].write = w
              PROVE  engine'[other].at < engine'[host].at
          <5>1. other # host /\ engine'[other] = engine[other]
            BY <3>2, <4>1
          <5>2. engine[other].at = engine[host].at
            BY <3>4, <4>1, <5>1 DEF WriteInv, OneTimeEach
          <5> QED
            BY <1>1, <3>1, <5>1, <5>2
        <4>2. ASSUME NEW p \in inFlight', p.state.write = w
              PROVE  p.state.at < engine'[host].at
          <5>1. p.state.at = engine[host].at
            BY <3>4, <4>2 DEF WriteInv, OneTimeEach
          <5> QED
            BY <1>1, <3>1, <5>1
        <4> QED
          BY <2>2, <4>1, <4>2
      <3> QED
        BY <3>1, <3>3, <3>4
    <2> QED
      BY <2>1, <2>2
  <1> QED
    BY <1>2, <1>3, <1>4 DEF WriteInv

(* Nothing new but copies of what is there, and no host goes back. *)
LEMMA CopiedWrites ==
    ASSUME WriteInv, TypeOK',
           history'.writes = history.writes, history'.replaced = history.replaced,
           \A a \in Hosts : /\ engine'[a].at >= engine[a].at
                           /\ \/ /\ engine'[a].write = engine[a].write
                                 /\ engine'[a].at = engine[a].at
                              \/ \E p \in inFlight : /\ engine'[a].write = p.state.write
                                                      /\ engine'[a].at = p.state.at,
           \A q \in inFlight' : \/ q \in inFlight
                               \/ \E a \in Hosts : /\ q.state.write = engine[a].write
                                                   /\ q.state.at = engine[a].at
    PROVE  WriteInv'
  <1>1. /\ history.writes \in Nat
        /\ \A a \in Hosts : /\ engine[a].write \in Nat /\ engine[a].at \in Nat
                            /\ engine'[a].write \in Nat /\ engine'[a].at \in Nat
                            /\ history.replaced[a] \subseteq Nat
        /\ \A p \in inFlight : p.state.write \in Nat /\ p.state.at \in Nat
    BY DEF WriteInv, TypeOK, History, Held, State
  <1> DEFINE Copy(write, at) ==
                 \/ \E a \in Hosts : engine[a].write = write /\ engine[a].at = at
                 \/ \E p \in inFlight : p.state.write = write /\ p.state.at = at
  <1>2. \A a \in Hosts : Copy(engine'[a].write, engine'[a].at)
    OBVIOUS
  <1>3. \A q \in inFlight' : Copy(q.state.write, q.state.at)
    OBVIOUS
  <1>4. \A write, s, t : Copy(write, s) /\ Copy(write, t) => s = t
    BY DEF WriteInv, OneTimeEach
  <1>5. \A write, t : Copy(write, t) => write <= history.writes
    BY DEF WriteInv, WritesNumbered
  <1>6. \A h \in Hosts : \A w \in history.replaced[h] : \A t :
            Copy(w, t) => t < engine[h].at /\ t \in Nat
    BY <1>1 DEF WriteInv, ReplacedIsOlder
  <1> HIDE DEF Copy
  <1>7. WritesNumbered'
    BY <1>2, <1>3, <1>5 DEF WriteInv, WritesNumbered
  <1>8. OneTimeEach'
    BY <1>2, <1>3, <1>4 DEF OneTimeEach
  <1>9. ReplacedIsOlder'
    <2> SUFFICES ASSUME NEW h \in Hosts, NEW w \in history.replaced[h]
                 PROVE  /\ \A other \in Hosts :
                               engine'[other].write = w => engine'[other].at < engine'[h].at
                        /\ \A p \in inFlight' : p.state.write = w => p.state.at < engine'[h].at
      BY DEF ReplacedIsOlder
    <2>1. \A t : Copy(w, t) => t < engine'[h].at
      BY <1>1, <1>6
    <2> QED
      BY <1>2, <1>3, <2>1
  <1> QED
    BY <1>7, <1>8, <1>9 DEF WriteInv
(* Each step makes a new write or copies. *)
LEMMA NumberedFields ==
    ASSUME history \in History, NEW host \in Hosts
    PROVE  /\ Numbered(host).writes = history.writes + 1
           /\ Numbered(host).replaced[host] = history.replaced[host] \union {engine[host].write}
           /\ \A other \in Hosts \ {host} :
                  Numbered(host).replaced[other] = history.replaced[other]
           /\ Numbered(host).closes = history.closes
           /\ Numbered(host).disturbed = history.disturbed
  BY DEF Numbered, NextWrite, History

LEMMA NewerIsLater ==
    ASSUME NEW state \in State, NEW held \in Held, Newer(state, held)
    PROVE  state.at >= held.at
  BY DEF Newer, State, Held

LEMMA AdoptedFields ==
    ASSUME TypeOK, NEW payload \in inFlight, NEW now \in Instants, Adopt(payload, now)
    PROVE  /\ payload.to \in Hosts /\ payload.state \in State /\ now \in Nat
           /\ engine'[payload.to] = Received(engine[payload.to], payload.state, now)
           /\ \A other \in Hosts \ {payload.to} : engine'[other] = engine[other]
           /\ history'.writes = history.writes
           /\ history'.replaced = history.replaced
           /\ history'.closes = history.closes
  <1>1. /\ payload.to \in Hosts /\ payload.state \in State /\ now \in Nat
        /\ engine \in [Hosts -> Held]
        /\ history \in History
    BY GroupType DEF TypeOK
  <1>2. engine' = [engine EXCEPT ![payload.to] =
                      Received(engine[payload.to], payload.state, now)]
    BY DEF Adopt
  <1>3. /\ history'.writes = history.writes
        /\ history'.replaced = history.replaced
        /\ history'.closes = history.closes
    BY <1>1 DEF Adopt, History
  <1> QED
    BY <1>1, <1>2, <1>3

LEMMA StepWrites == WriteInv /\ [Next]_vars => WriteInv'
  <1> SUFFICES ASSUME WriteInv, [Next]_vars
               PROVE  WriteInv'
    OBVIOUS
  <1>t. /\ TypeOK /\ TypeOK'
        /\ engine \in [Hosts -> Held] /\ history \in History /\ history.writes \in Nat
        /\ Instants \subseteq Nat
    BY StepType, GroupType DEF WriteInv, TypeOK, History
  <1>s. \A a \in Hosts : engine[a].at \in Nat /\ engine[a].write \in Nat
    BY <1>t DEF Held
  <1>1. ASSUME NEW host \in Hosts, NEW now \in Instants, NEW value \in Value,
               Command(host, value, now)
        PROVE  WriteInv'
    <2> DEFINE held == [engine[host] EXCEPT !.value = value]
    <2>1. held \in Held /\ held.at = engine[host].at
      BY <1>t DEF Held
    <2>2. engine' = [engine EXCEPT ![host] = Bumped(held, host, now)]
      BY <1>1 DEF Command, LocalChange
    <2> HIDE DEF held
    <2>3. /\ engine'[host].write = history.writes + 1
          /\ engine'[host].at > engine[host].at
          /\ \A other \in Hosts \ {host} : engine'[other] = engine[other]
      BY <1>t, <2>1, <2>2, BumpedFields
    <2>4. history' = Numbered(host) /\ inFlight' = inFlight
      BY <1>1 DEF Command
    <2> QED
      BY <1>t, <2>3, <2>4, NumberedFields, NewWrite
  <1>2. ASSUME NEW host \in Hosts, NEW now \in Instants, GateWrite(host, now)
        PROVE  WriteInv'
    <2> DEFINE raised == RaisedRevision(engine[host], order.revision)
               held == [engine[host] EXCEPT !.closed = order.closed, !.gateRevision = raised]
    <2>1. raised \in 0 .. MaxGateRevision /\ order.closed \in BOOLEAN
      BY <1>t, RaisedType DEF TypeOK
    <2>2. held \in Held /\ held.at = engine[host].at
      <3> HIDE DEF raised
      <3> QED
        BY <1>t, <2>1 DEF Held
    <2>3. engine' = [engine EXCEPT ![host] = Bumped(held, host, now)]
      BY <1>2 DEF GateWrite, LocalChange
    <2>5. /\ history'.writes = Numbered(host).writes
          /\ history'.replaced = Numbered(host).replaced
          /\ inFlight' = inFlight
      BY <1>2, <1>t DEF GateWrite, Numbered, History
    <2> HIDE DEF held
    <2>4. /\ engine'[host].write = history.writes + 1
          /\ engine'[host].at > engine[host].at
          /\ \A other \in Hosts \ {host} : engine'[other] = engine[other]
      BY <1>t, <2>2, <2>3, BumpedFields
    <2> QED
      BY <1>t, <2>4, <2>5, NumberedFields, NewWrite
  <1>3. ASSUME NEW host \in Hosts, Publish(host)
        PROVE  WriteInv'
    <2>1. \A q \in inFlight' : q \in inFlight \/ q.state = Captured(host)
      BY <1>3 DEF Publish
    <2> QED
      BY <1>3, <1>t, <1>s, <2>1, CapturedFields, CopiedWrites DEF Publish
  <1>4. ASSUME NEW payload \in inFlight, NEW now \in Instants, Adopt(payload, now),
               inFlight' \subseteq inFlight
        PROVE  WriteInv'
    <2>1. \A a \in Hosts :
              /\ engine'[a].at >= engine[a].at
              /\ \/ engine'[a].write = engine[a].write /\ engine'[a].at = engine[a].at
                 \/ engine'[a].write = payload.state.write /\ engine'[a].at = payload.state.at
      <3> TAKE a \in Hosts
      <3>1. CASE a # payload.to
        BY <1>4, <1>t, <1>s, <3>1, AdoptedFields
      <3>2. CASE a = payload.to /\ Adopts(engine[a], payload.state, now)
        BY <1>4, <1>t, <3>2, AdoptedFields, ReceivedFields, NewerIsLater DEF Adopts
      <3>3. CASE a = payload.to /\ ~Adopts(engine[a], payload.state, now)
        BY <1>4, <1>t, <1>s, <3>3, AdoptedFields, ReceivedFields
      <3> QED
        BY <3>1, <3>2, <3>3
    <2> QED
      BY <1>4, <1>t, <2>1, AdoptedFields, CopiedWrites
  <1>5. ASSUME engine' = engine, inFlight' \subseteq inFlight,
               history'.writes = history.writes, history'.replaced = history.replaced
        PROVE  WriteInv'
    BY <1>5, <1>t, <1>s, CopiedWrites
  <1>6. ASSUME NEW host \in Hosts, StartTrusted(host)
        PROVE  WriteInv'
    <2>1. /\ engine'[host] = Restored(host)
          /\ \A other \in Hosts \ {host} : engine'[other] = engine[other]
          /\ inFlight' = inFlight
      BY <1>6, <1>t DEF StartTrusted, Start, LocalChange
    <2>2. CASE Plausible(engine[host].at)
      <3>1. /\ history'.writes = Later(history.writes, engine[host].write)
            /\ history'.replaced = history.replaced
        BY <1>6, <1>t, <2>2, RestoredFields DEF StartTrusted, Start, History
      <3>2. history'.writes = history.writes
        BY <1>t, <1>s, <3>1 DEF WriteInv, WritesNumbered, Later
      <3>3. \A a \in Hosts : engine'[a].write = engine[a].write /\ engine'[a].at = engine[a].at
        BY <1>t, <2>1, <2>2, RestoredFields
      <3> QED
        BY <1>t, <1>s, <2>1, <3>1, <3>2, <3>3, CopiedWrites
    <2>3. CASE ~Plausible(engine[host].at)
      <3>1. engine'[host].write = history.writes + 1
        BY <1>t, <2>1, <2>3, RestoredFields
      <3>2. /\ history'.writes = Later(history.writes, history.writes + 1)
            /\ history'.replaced[host] = {}
            /\ \A other \in Hosts \ {host} :
                   history'.replaced[other] = history.replaced[other]
        BY <1>6, <1>t, <2>3, RestoredFields DEF StartTrusted, Start, History
      <3>3. history'.writes = history.writes + 1
        BY <1>t, <3>2 DEF Later
      <3> QED
        BY <1>t, <2>1, <3>1, <3>2, <3>3, NewWrite
    <2> QED
      BY <2>2, <2>3
  <1>7. ASSUME NEW host \in Hosts, NEW now \in Instants, StartUntrusted(host, now)
        PROVE  WriteInv'
    <2>1. /\ engine'[host] = Settled(host, now)
          /\ \A other \in Hosts \ {host} : engine'[other] = engine[other]
          /\ inFlight' = inFlight
      BY <1>7, <1>t DEF StartUntrusted, Start, LocalChange
    <2>2. engine'[host].write = history.writes + 1
      BY <1>t, <2>1, SettledFields
    <2>3. /\ history'.writes = Later(history.writes, history.writes + 1)
          /\ history'.replaced[host] = {}
          /\ \A other \in Hosts \ {host} : history'.replaced[other] = history.replaced[other]
      BY <1>7, <1>t, SettledFields DEF StartUntrusted, Start, History
    <2>4. history'.writes = history.writes + 1
      BY <1>t, <2>3 DEF Later
    <2> QED
      BY <1>t, <2>1, <2>2, <2>3, <2>4, NewWrite
  <1>8. CASE NewOrder
    BY <1>5, <1>8, <1>t DEF NewOrder, History
  <1>9. ASSUME NEW host \in Hosts, Stop(host)
        PROVE  WriteInv'
    BY <1>5, <1>9, <1>t DEF Stop, History
  <1>10. ASSUME NEW payload \in inFlight, Lose(payload)
         PROVE  WriteInv'
    BY <1>5, <1>10, <1>t DEF Lose, History
  <1>11. ASSUME NEW payload \in inFlight, NEW now \in Instants,
                Receive(payload, now) \/ ReceiveCopy(payload, now)
         PROVE  WriteInv'
    BY <1>4, <1>11 DEF Receive, ReceiveCopy
  <1>12. CASE UNCHANGED vars
    BY <1>5, <1>12 DEF vars
  <1> QED
    BY <1>1, <1>2, <1>3, <1>6, <1>7, <1>8, <1>9, <1>10, <1>11, <1>12 DEF Next

(* A change made at a host is not undone by a late payload or by a peer's  *)
(* copy of what it replaced, whatever the clocks do.                       *)
THEOREM ReplacedStaysReplaced == Spec => []ReplacedNeverReturns
  <1>1. WriteInv => ReplacedNeverReturns
    <2> SUFFICES ASSUME WriteInv, NEW host \in Hosts,
                        engine[host].write \in history.replaced[host]
                 PROVE  FALSE
      BY DEF ReplacedNeverReturns
    <2>1. engine[host].at < engine[host].at
      BY DEF WriteInv, ReplacedIsOlder
    <2>2. engine[host].at \in Nat
      BY DEF WriteInv, TypeOK, Held
    <2> QED
      BY <2>1, <2>2
  <1> QED
    BY <1>1, InitWrites, StepWrites, PTL DEF Spec
-----------------------------------------------------------------------------
(* Gates. *)

(* A gate write stores a revision above the host's own. *)
LEMMA GateWriteFields ==
    ASSUME TypeOK, NEW host \in Hosts, NEW now \in Instants, GateWrite(host, now)
    PROVE  LET raised == RaisedRevision(engine[host], order.revision)
           IN  /\ raised \in 0 .. MaxGateRevision
               /\ raised >= engine[host].gateRevision
               /\ engine'[host].closed = order.closed
               /\ engine'[host].gateRevision = raised
               /\ engine'[host].at > engine[host].at
               /\ engine'[host].by = InstanceId[host]
               /\ \A other \in Hosts \ {host} : engine'[other] = engine[other]
               /\ changed' = changed \union {host}
               /\ inFlight' = inFlight /\ up' = up
               /\ history'.closes =
                      IF order.closed THEN history.closes \union {raised} ELSE history.closes
               /\ history'.disturbed = history.disturbed
  <1> DEFINE raised == RaisedRevision(engine[host], order.revision)
             held == [engine[host] EXCEPT !.closed = order.closed, !.gateRevision = raised]
  <1>t. /\ engine \in [Hosts -> Held] /\ history \in History /\ history.writes \in Nat
        /\ now \in Nat /\ order.closed \in BOOLEAN /\ order.revision \in Nat
    BY GroupType DEF TypeOK, History
  <1>1. raised \in 0 .. MaxGateRevision /\ raised >= engine[host].gateRevision
    BY <1>t, RaisedType
  <1>2. /\ held \in Held /\ held.closed = order.closed /\ held.gateRevision = raised
        /\ held.at = engine[host].at
    <2> HIDE DEF raised
    <2> QED
      BY <1>t, <1>1 DEF Held
  <1>3. /\ engine' = [engine EXCEPT ![host] = Bumped(held, host, now)]
        /\ changed' = changed \union {host}
        /\ inFlight' = inFlight /\ up' = up
    BY DEF GateWrite, LocalChange
  <1>4. /\ history'.closes = IF order.closed THEN Numbered(host).closes \union {raised}
                             ELSE Numbered(host).closes
        /\ history'.disturbed = Numbered(host).disturbed
    <2>1. Numbered(host).closes = history.closes
      BY <1>t, NumberedFields
    <2> DEFINE c == IF order.closed THEN history.closes \union {raised} ELSE history.closes
    <2>3. history' = [Numbered(host) EXCEPT !.closes = c]
      BY <2>1 DEF GateWrite
    <2>4. Numbered(host) \in [writes : {Numbered(host).writes}, replaced : {Numbered(host).replaced},
                              closes : {history.closes},
                              disturbed : {Numbered(host).disturbed}]
      BY <1>t DEF Numbered, History
    <2>5. history'.closes = c /\ history'.disturbed = Numbered(host).disturbed
      <3> HIDE DEF c
      <3> QED
        BY <2>3, <2>4
    <2> QED
      BY <2>1, <2>5
  <1> HIDE DEF held
  <1>5. /\ engine'[host].closed = order.closed
        /\ engine'[host].gateRevision = raised
        /\ engine'[host].at > engine[host].at
        /\ engine'[host].by = InstanceId[host]
        /\ \A other \in Hosts \ {host} : engine'[other] = engine[other]
    BY <1>t, <1>2, <1>3, BumpedFields
  <1> QED
    BY <1>t, <1>1, <1>3, <1>4, <1>5, NumberedFields

LEMMA CommandFields ==
    ASSUME TypeOK, NEW host \in Hosts, NEW now \in Instants, NEW value \in Value,
           Command(host, value, now)
    PROVE  /\ engine'[host].closed = engine[host].closed
           /\ engine'[host].gateRevision = engine[host].gateRevision
           /\ engine'[host].at > engine[host].at
           /\ engine'[host].by = InstanceId[host]
           /\ \A other \in Hosts \ {host} : engine'[other] = engine[other]
           /\ changed' = changed \union {host}
           /\ inFlight' = inFlight /\ up' = up
           /\ history'.closes = history.closes
           /\ history'.disturbed = history.disturbed
  <1> DEFINE held == [engine[host] EXCEPT !.value = value]
  <1>t. /\ engine \in [Hosts -> Held] /\ history \in History /\ history.writes \in Nat
        /\ now \in Nat
    BY GroupType DEF TypeOK, History
  <1>1. /\ held \in Held /\ held.closed = engine[host].closed
        /\ held.gateRevision = engine[host].gateRevision
        /\ held.at = engine[host].at
    BY <1>t DEF Held
  <1>2. /\ engine' = [engine EXCEPT ![host] = Bumped(held, host, now)]
        /\ changed' = changed \union {host}
        /\ inFlight' = inFlight /\ up' = up
        /\ history' = Numbered(host)
    BY DEF Command, LocalChange
  <1> HIDE DEF held
  <1> QED
    BY <1>t, <1>1, <1>2, BumpedFields, NumberedFields

LEMMA InitGates == Init => GateInv /\ GateOnItsWay
  <1> SUFFICES ASSUME Init
               PROVE  GateInv /\ GateOnItsWay
    OBVIOUS
  <1>1. PICK heard \in [Hosts -> Hosts] :
            engine = [host \in Hosts |-> Fresh(host, heard[host])]
    BY DEF Init
  <1>2. \A host \in Hosts : engine[host].closed = FALSE
    BY <1>1 DEF Fresh
  <1>3. inFlight = {} /\ up = Hosts /\ Senders \subseteq Hosts
    BY GroupType DEF Init
  <1> QED
    BY <1>2, <1>3 DEF GateInv, GateOnItsWay, ClosedGateWasWritten

LEMMA StepGateInv == TypeOK /\ GateInv /\ [Next]_vars => GateInv'
  <1> SUFFICES ASSUME TypeOK, GateInv, [Next]_vars
               PROVE  GateInv'
    OBVIOUS
  <1>t. /\ engine \in [Hosts -> Held] /\ history \in History /\ history.writes \in Nat
        /\ Instants \subseteq Nat
    BY GroupType DEF TypeOK, History
  <1>1. ASSUME NEW host \in Hosts, NEW now \in Instants, NEW value \in Value,
               Command(host, value, now)
        PROVE  GateInv'
    BY <1>1, CommandFields DEF GateInv, ClosedGateWasWritten
  <1>2. ASSUME NEW host \in Hosts, NEW now \in Instants, GateWrite(host, now)
        PROVE  GateInv'
    <2> DEFINE raised == RaisedRevision(engine[host], order.revision)
    <2>1. /\ engine'[host].closed = order.closed
          /\ engine'[host].gateRevision = raised
          /\ \A other \in Hosts \ {host} : engine'[other] = engine[other]
          /\ inFlight' = inFlight
          /\ history'.closes =
                 IF order.closed THEN history.closes \union {raised} ELSE history.closes
      BY <1>2, GateWriteFields
    <2> HIDE DEF raised
    <2>2. engine'[host].closed => engine'[host].gateRevision \in history'.closes
      BY <2>1
    <2>3. history.closes \subseteq history'.closes
      BY <2>1
    <2> QED
      BY <2>1, <2>2, <2>3 DEF GateInv, ClosedGateWasWritten
  <1>3. ASSUME NEW host \in Hosts, Publish(host)
        PROVE  GateInv'
    <2>1. \A q \in inFlight' : q \in inFlight \/ q.state = Captured(host)
      BY <1>3 DEF Publish
    <2>2. Captured(host).closed => Captured(host).gateRevision \in history.closes
      BY <1>t, CapturedFields DEF GateInv, ClosedGateWasWritten
    <2> QED
      BY <1>3, <2>1, <2>2 DEF GateInv, ClosedGateWasWritten, Publish
  <1>4. ASSUME NEW payload \in inFlight, NEW now \in Instants, Adopt(payload, now),
               inFlight' \subseteq inFlight
        PROVE  GateInv'
    <2>1. /\ payload.to \in Hosts
          /\ engine'[payload.to].closed => engine'[payload.to].gateRevision \in history.closes
      <3>1. CASE ClosesGate(engine[payload.to], payload.state)
        BY <1>4, <1>t, <3>1, AdoptedFields, ReceivedFields DEF GateInv, ClosesGate
      <3>2. CASE ~ClosesGate(engine[payload.to], payload.state)
        BY <1>4, <1>t, <3>2, AdoptedFields, ReceivedFields DEF GateInv, ClosedGateWasWritten
      <3> QED
        BY <3>1, <3>2, <1>4, AdoptedFields
    <2> QED
      BY <1>4, <2>1, AdoptedFields DEF GateInv, ClosedGateWasWritten
  <1>5. ASSUME engine' = engine, inFlight' \subseteq inFlight, history'.closes = history.closes
        PROVE  GateInv'
    BY <1>5 DEF GateInv, ClosedGateWasWritten
  <1>6. ASSUME NEW host \in Hosts, NEW held \in Held, NEW forgets, Start(host, held, forgets),
               held.closed = engine[host].closed,
               held.gateRevision = engine[host].gateRevision
        PROVE  GateInv'
    <2>1. /\ engine'[host] = held
          /\ \A other \in Hosts \ {host} : engine'[other] = engine[other]
          /\ inFlight' = inFlight
      BY <1>6, <1>t DEF Start, LocalChange
    <2>2. history'.closes = history.closes
      BY <1>6, <1>t DEF Start, History
    <2> QED
      BY <1>6, <2>1, <2>2 DEF GateInv, ClosedGateWasWritten
  <1>7. ASSUME NEW host \in Hosts, StartTrusted(host)
        PROVE  GateInv'
    BY <1>6, <1>7, <1>t, RestoredFields DEF StartTrusted
  <1>8. ASSUME NEW host \in Hosts, NEW now \in Instants, StartUntrusted(host, now)
        PROVE  GateInv'
    BY <1>6, <1>8, <1>t, SettledFields DEF StartUntrusted
  <1>9. CASE NewOrder
    BY <1>5, <1>9, <1>t DEF NewOrder, History
  <1>10. ASSUME NEW host \in Hosts, Stop(host)
         PROVE  GateInv'
    BY <1>5, <1>10, <1>t DEF Stop, History
  <1>11. ASSUME NEW payload \in inFlight, Lose(payload)
         PROVE  GateInv'
    BY <1>5, <1>11, <1>t DEF Lose, History
  <1>12. ASSUME NEW payload \in inFlight, NEW now \in Instants,
                Receive(payload, now) \/ ReceiveCopy(payload, now)
         PROVE  GateInv'
    BY <1>4, <1>12 DEF Receive, ReceiveCopy
  <1>13. CASE UNCHANGED vars
    BY <1>5, <1>13 DEF vars
  <1> QED
    BY <1>1, <1>2, <1>3, <1>7, <1>8, <1>9, <1>10, <1>11, <1>12, <1>13 DEF Next

(* A host's gate is closed only at a revision at which a coordinator's     *)
(* close was stored: hosts hand it on and do not raise it.                 *)
THEOREM GatesAreWritten == Spec => []ClosedGateWasWritten
  <1>1. GateInv => ClosedGateWasWritten
    BY DEF GateInv
  <1> QED
    BY <1>1, TypeCorrect, InitGates, StepGateInv, PTL DEF Spec
LEMMA GateRevisionGrows ==
    ASSUME NEW held \in Held, NEW state \in State, NEW now \in Nat
    PROVE  /\ Received(held, state, now).gateRevision >= held.gateRevision
           /\ state.closed => Received(held, state, now).gateRevision >= state.gateRevision
  <1>1. held.gateRevision \in Nat /\ state.gateRevision \in Nat
    BY NumberAssumption DEF Held, State
  <1>2. CASE ClosesGate(held, state)
    <2>1. Received(held, state, now).gateRevision = state.gateRevision
      BY <1>2, ReceivedFields
    <2>2. state.gateRevision > held.gateRevision
      BY <1>2 DEF ClosesGate
    <2> QED
      BY <1>1, <2>1, <2>2
  <1>3. CASE ~ClosesGate(held, state)
    <2>1. Received(held, state, now).gateRevision = held.gateRevision
      BY <1>3, ReceivedFields
    <2>2. state.closed => state.gateRevision <= held.gateRevision
      BY <1>1, <1>3 DEF ClosesGate
    <2> QED
      BY <1>1, <2>1, <2>2
  <1> QED
    BY <1>2, <1>3

LEMMA PublishFields ==
    ASSUME TypeOK, NEW host \in Hosts, Publish(host)
    PROVE  /\ engine' = engine /\ up' = up /\ history' = history
           /\ changed' = changed \ {host}
           /\ inFlight \subseteq inFlight'
           /\ \A q \in inFlight' : \/ q \in inFlight
                                   \/ /\ host \in Senders
                                      /\ q.state = Captured(host)
                                      /\ q.to \in up \ {host}
           /\ host \in Senders => \A other \in up \ {host} :
                  [to |-> other, state |-> Captured(host)] \in inFlight'
  BY DEF Publish

LEMMA StepGateOnItsWay == TypeOK /\ GateOnItsWay /\ [Next]_vars => GateOnItsWay'
  <1> SUFFICES ASSUME TypeOK, GateOnItsWay, [Next]_vars,
                      history'.disturbed \subseteq {"refused"}
               PROVE  /\ up' = Hosts
                      /\ \A sender \in Senders', host \in Hosts :
                            \/ ~engine'[sender].closed
                            \/ engine'[host].gateRevision >= engine'[sender].gateRevision
                            \/ sender \in changed'
                            \/ \E p \in inFlight' :
                                   /\ p.to = host
                                   /\ p.state.closed
                                   /\ p.state.gateRevision = engine'[sender].gateRevision
    BY DEF GateOnItsWay
  <1> DEFINE OnItsWay(sender, host) ==
                 \/ ~engine[sender].closed
                 \/ engine[host].gateRevision >= engine[sender].gateRevision
                 \/ sender \in changed
                 \/ \E p \in inFlight : /\ p.to = host
                                        /\ p.state.closed
                                        /\ p.state.gateRevision = engine[sender].gateRevision
             Goal == up' = Hosts /\ \A sender \in Senders', host \in Hosts : OnItsWay(sender, host)'
  <1>t. /\ engine \in [Hosts -> Held] /\ history \in History /\ history.writes \in Nat
        /\ Instants \subseteq Nat /\ Senders \subseteq Hosts
        /\ \A a \in Hosts : engine[a].gateRevision \in Nat
        /\ \A p \in inFlight : /\ p.to \in Hosts /\ p.state \in State
                               /\ p.state.gateRevision \in Nat
    BY GroupType, NumberAssumption DEF TypeOK, History, Held, State
  <1>u. ASSUME history.disturbed \subseteq {"refused"}
        PROVE  up = Hosts /\ \A sender \in Senders, host \in Hosts : OnItsWay(sender, host)
    BY <1>u DEF GateOnItsWay
  <1>v. Senders' = Senders
    BY DEF Next, vars, Senders
  (* One host's own change of state, its gate never older than before. *)
  <1>1. ASSUME NEW host \in Hosts, changed' = changed \union {host}, inFlight' = inFlight,
               up' = up, history'.disturbed = history.disturbed,
               \A other \in Hosts \ {host} : engine'[other] = engine[other],
               engine'[host].gateRevision >= engine[host].gateRevision,
               engine'[host].gateRevision \in Nat
        PROVE  Goal
    <2>1. up = Hosts /\ \A s \in Senders, h \in Hosts : OnItsWay(s, h)
      BY <1>1, <1>u
    <2>2. ASSUME NEW s \in Senders, NEW h \in Hosts
          PROVE  OnItsWay(s, h)'
      <3>1. CASE s = host
        BY <1>1, <3>1
      <3>2. CASE s # host
        <4>1. engine'[s] = engine[s]
          BY <1>1, <1>t, <3>2
        <4>2. engine'[h].gateRevision >= engine[h].gateRevision
          BY <1>1, <1>t
        <4>3. engine'[h].gateRevision \in Nat
          BY <1>1, <1>t
        <4> QED
          BY <1>1, <1>t, <2>1, <4>1, <4>2, <4>3
      <3> QED
        BY <3>1, <3>2
    <2> QED
      BY <1>1, <1>v, <2>1, <2>2
  <1>2. ASSUME NEW host \in Hosts, Publish(host)
        PROVE  Goal
    <2>1. up = Hosts /\ \A s \in Senders, h \in Hosts : OnItsWay(s, h)
      BY <1>2, <1>u, PublishFields
    <2>2. ASSUME NEW s \in Senders, NEW h \in Hosts
          PROVE  OnItsWay(s, h)'
      <3>1. CASE s # host
        BY <1>2, <2>1, <3>1, PublishFields
      <3>2. CASE s = host /\ h = s
        BY <1>2, <1>t, <3>2, PublishFields
      <3>3. CASE s = host /\ h # s
        <4> DEFINE p == [to |-> h, state |-> Captured(s)]
        <4>1. p \in inFlight'
          BY <1>2, <2>1, <3>3, PublishFields
        <4>2. /\ p.to = h
              /\ p.state.closed = engine[s].closed
              /\ p.state.gateRevision = engine[s].gateRevision
          BY <1>t, CapturedFields
        <4>3. engine' = engine
          BY <1>2, PublishFields
        <4> QED
          BY <4>1, <4>2, <4>3
      <3> QED
        BY <3>1, <3>2, <3>3
    <2> QED
      BY <1>2, <1>v, <2>1, <2>2, PublishFields
  <1>3. ASSUME NEW payload \in inFlight, NEW now \in Instants, Adopt(payload, now),
               inFlight \ {payload} \subseteq inFlight'
        PROVE  Goal
    <2> DEFINE r == payload.to
               next == Received(engine[r], payload.state, now)
    <2>1. history.disturbed \subseteq history'.disturbed
      BY <1>3, <1>t DEF Adopt, History
    <2>2. up = Hosts /\ up' = up /\ \A s \in Senders, h \in Hosts : OnItsWay(s, h)
      BY <1>3, <1>u, <2>1 DEF Adopt
    <2>3. /\ r \in Hosts
          /\ engine'[r] = next
          /\ \A other \in Hosts \ {r} : engine'[other] = engine[other]
      BY <1>3, AdoptedFields
    <2>4. /\ next \in Held
          /\ next.gateRevision \in Nat
          /\ next.gateRevision >= engine[r].gateRevision
          /\ payload.state.closed => next.gateRevision >= payload.state.gateRevision
      <3>1. engine[r] \in Held /\ payload.state \in State /\ now \in Nat
        BY <1>3, <1>t, AdoptedFields
      <3>2. next \in Held
        BY <3>1, ReceivedFields
      <3>3. /\ next.gateRevision >= engine[r].gateRevision
            /\ payload.state.closed => next.gateRevision >= payload.state.gateRevision
        BY <3>1, GateRevisionGrows
      <3>4. next.gateRevision \in Nat
        <4> HIDE DEF next
        <4> QED
          BY <3>2, NumberAssumption DEF Held
      <3> QED
        BY <3>2, <3>3, <3>4
    <2>5. \A h \in Hosts : /\ engine'[h].gateRevision \in Nat
                           /\ engine'[h].gateRevision >= engine[h].gateRevision
      BY <1>t, <2>3, <2>4
    <2>6. ASSUME NEW s \in Senders, NEW h \in Hosts
          PROVE  OnItsWay(s, h)'
      <3>1. CASE s = r /\ ClosesGate(engine[r], payload.state)
        BY <1>3, <3>1 DEF Adopt, Revises
      <3>2. CASE ~(s = r /\ ClosesGate(engine[r], payload.state))
        <4>1. /\ engine'[s].closed = engine[s].closed
              /\ engine'[s].gateRevision = engine[s].gateRevision
          <5>1. CASE s # r
            BY <1>t, <2>3, <5>1
          <5>2. CASE s = r /\ ~ClosesGate(engine[r], payload.state)
            BY <1>3, <1>t, <2>3, <5>2, AdoptedFields, ReceivedFields
          <5> QED
            BY <3>2, <5>1, <5>2
        <4>2. OnItsWay(s, h)
          BY <2>2
        <4>3. changed \subseteq changed'
          BY <1>3 DEF Adopt
        <4>4. CASE \E p \in inFlight : /\ p.to = h
                                       /\ p.state.closed
                                       /\ p.state.gateRevision = engine[s].gateRevision
          <5>1. PICK p \in inFlight : /\ p.to = h
                                      /\ p.state.closed
                                      /\ p.state.gateRevision = engine[s].gateRevision
            BY <4>4
          <5>2. CASE p \in inFlight'
            BY <4>1, <5>1, <5>2
          <5>3. CASE p \notin inFlight'
            <6>1. p = payload
              BY <1>3, <5>1, <5>3
            <6>2. engine'[h].gateRevision >= engine[s].gateRevision
              BY <2>3, <2>4, <5>1, <6>1
            <6> QED
              BY <4>1, <6>2
          <5> QED
            BY <5>2, <5>3
        <4>5. CASE ~engine[s].closed \/ s \in changed
          BY <4>1, <4>3, <4>5
        <4>6. CASE engine[h].gateRevision >= engine[s].gateRevision
          BY <1>t, <2>5, <4>1, <4>6
        <4> QED
          BY <4>2, <4>4, <4>5, <4>6
      <3> QED
        BY <3>1, <3>2
    <2> QED
      BY <1>v, <2>2, <2>6
  <1>4. ASSUME UNCHANGED <<engine, up, changed, inFlight>>,
               history'.disturbed = history.disturbed
        PROVE  Goal
    BY <1>4, <1>u, <1>v
  <1>5. ASSUME NEW host \in Hosts, NEW now \in Instants, NEW value \in Value,
               Command(host, value, now)
        PROVE  Goal
    <2>1. engine[host].gateRevision \in Nat
      BY <1>t
    <2> QED
      BY <1>1, <1>5, <2>1, CommandFields
  <1>6. ASSUME NEW host \in Hosts, NEW now \in Instants, GateWrite(host, now)
        PROVE  Goal
    <2> DEFINE raised == RaisedRevision(engine[host], order.revision)
    <2>1. /\ raised \in 0 .. MaxGateRevision
          /\ raised >= engine[host].gateRevision
          /\ engine'[host].gateRevision = raised
          /\ \A other \in Hosts \ {host} : engine'[other] = engine[other]
          /\ changed' = changed \union {host}
          /\ inFlight' = inFlight /\ up' = up
          /\ history'.disturbed = history.disturbed
      BY <1>6, GateWriteFields
    <2> HIDE DEF raised, Goal
    <2>2. raised \in Nat
      BY <2>1, NumberAssumption
    <2> QED
      BY <1>1, <2>1, <2>2
  <1>7. ASSUME NewOrder
        PROVE  Goal
    BY <1>4, <1>7, <1>t DEF NewOrder, History
  <1>8. ASSUME NEW host \in Hosts, Stop(host)
        PROVE  FALSE
    <2>1. "restarted" \in history'.disturbed
      BY <1>8, <1>t DEF Stop, History
    <2> QED
      BY <2>1
  <1>9. ASSUME NEW payload \in inFlight, Lose(payload)
        PROVE  FALSE
    <2>1. "lost" \in history'.disturbed
      BY <1>9, <1>t DEF Lose, History
    <2> QED
      BY <2>1
  <1>10. ASSUME NEW host \in Hosts, NEW held, NEW forgets, Start(host, held, forgets)
         PROVE  FALSE
    <2>1. history'.disturbed = history.disturbed /\ host \notin up
      BY <1>10, <1>t DEF Start, History
    <2> QED
      BY <1>u, <2>1
  <1>11. ASSUME NEW payload \in inFlight, NEW now \in Instants,
                Receive(payload, now) \/ ReceiveCopy(payload, now)
         PROVE  Goal
    <2> HIDE DEF Goal
    <2> QED
      BY <1>3, <1>11 DEF Receive, ReceiveCopy
  <1>12. ASSUME UNCHANGED vars
         PROVE  Goal
    BY <1>4, <1>12 DEF vars
  <1> HIDE DEF Goal
  <1>13. ASSUME NEW host \in Hosts,
                \/ StartTrusted(host)
                \/ \E now \in Instants : StartUntrusted(host, now)
         PROVE  FALSE
    BY <1>10, <1>13 DEF StartTrusted, StartUntrusted
  <1>14. Goal
    <2>1. CASE Next
      <3>1. CASE NewOrder
        BY <1>7, <3>1
      <3>2. ASSUME NEW host \in Hosts,
                   \/ Publish(host)
                   \/ Stop(host)
                   \/ StartTrusted(host)
                   \/ \E now \in Instants :
                         \/ \E value \in Value : Command(host, value, now)
                         \/ GateWrite(host, now)
                         \/ StartUntrusted(host, now)
            PROVE  Goal
        <4>1. CASE Publish(host)
          BY <1>2, <4>1
        <4>2. CASE Stop(host)
          BY <1>8, <4>2
        <4>3. CASE \E now \in Instants : \E value \in Value : Command(host, value, now)
          BY <1>5, <4>3
        <4>4. CASE \E now \in Instants : GateWrite(host, now)
          BY <1>6, <4>4
        <4>5. CASE StartTrusted(host) \/ \E now \in Instants : StartUntrusted(host, now)
          BY <1>13, <4>5
        <4> QED
          BY <3>2, <4>1, <4>2, <4>3, <4>4, <4>5
      <3>3. ASSUME NEW payload \in inFlight,
                   \/ Lose(payload)
                   \/ \E now \in Instants : Receive(payload, now) \/ ReceiveCopy(payload, now)
            PROVE  Goal
        BY <1>9, <1>11, <3>3
      <3> QED
        BY <2>1, <3>1, <3>2, <3>3 DEF Next
    <2> QED
      BY <1>12, <2>1
  <1> QED
    BY <1>14 DEF Goal

(* While no payload is lost and no host stops, a sender's closed gate      *)
(* reaches every host whose gate is not newer, whatever the clocks say.    *)
THEOREM GatesSpread == Spec => []GateSpreads
  <1>1. TypeOK /\ GateOnItsWay => GateSpreads
    BY GroupType DEF GateOnItsWay, GateSpreads, Quiet, TypeOK
  <1> QED
    BY <1>1, TypeCorrect, InitGates, StepGateOnItsWay, PTL DEF Spec
-----------------------------------------------------------------------------
(***************************************************************************)
(* Hosts agree, for any number of them, any senders among them, and any    *)
(* order of payloads and copies, if no two hosts have the same identity.   *)
(***************************************************************************)
DistinctIdentities == \A a, b \in Hosts : InstanceId[a] = InstanceId[b] => a = b

Foreign(host) == engine[host].by # InstanceId[host]

(* An identity other than a host's own came to it from a sender. *)
KeysAreSenders ==
    /\ \A host \in Hosts : Foreign(host) =>
           /\ \E sender \in Senders : engine[host].by = InstanceId[sender]
           /\ engine[host].hash = Hash(engine[host].value)
    /\ \A p \in inFlight :
           \E sender \in Senders : p.state.by = InstanceId[sender] /\ p.to # sender

(* A sender's state, as it is now, has reached a host or will. *)
StateOnItsWay ==
    \A sender \in Senders, host \in Hosts :
        \/ host = sender
        \/ sender \in changed
        \/ ~Newer(Captured(sender), engine[host])
        \/ [to |-> host, state |-> Captured(sender)] \in inFlight

(* A key was sent to all hosts at once: each has it, a greater one, or it  *)
(* on its way.                                                             *)
Reaches(state, host) ==
    \/ ~Newer(state, engine[host])
    \/ \E p \in inFlight : /\ p.to = host
                           /\ p.state.at = state.at
                           /\ p.state.by = state.by
                           /\ p.state.value = state.value

KeysSpread ==
    /\ \A a \in Hosts : Foreign(a) =>
           \A host \in Hosts : InstanceId[host] # engine[a].by => Reaches(engine[a], host)
    /\ \A p \in inFlight : \A host \in Hosts :
           InstanceId[host] # p.state.by => Reaches(p.state, host)

(* What is under a host's identity is no later than its state, and while   *)
(* the host holds a change of its own, is that change or earlier.          *)
OwnChangeAlone ==
    \A host \in Hosts :
        /\ \A a \in Hosts \ {host} : engine[a].by = InstanceId[host] =>
               /\ engine[a].at <= engine[host].at
               /\ engine[a].at = engine[host].at /\ ~Foreign(host)
                      => engine[a].value = engine[host].value
        /\ \A p \in inFlight : p.state.by = InstanceId[host] =>
               /\ p.state.at <= engine[host].at
               /\ p.state.at = engine[host].at /\ ~Foreign(host)
                      => p.state.value = engine[host].value

KeysInv ==
    /\ up = Hosts
    /\ KeysAreSenders
    /\ StateOnItsWay
    /\ KeysSpread
    /\ OwnChangeAlone

KeyInv == history.disturbed = {} => KeysInv
-----------------------------------------------------------------------------
(* Types, and the order of keys. *)

LEMMA KeyTypes ==
    ASSUME TypeOK
    PROVE  /\ \A h \in Hosts : /\ engine[h] \in Held /\ engine[h].at \in Nat
                               /\ engine[h].by \in Nat /\ engine[h].hash \in Nat
                               /\ engine[h].value \in Nat /\ InstanceId[h] \in Nat
           /\ \A p \in inFlight : /\ p.to \in Hosts /\ p.state \in State
                                  /\ p.state.at \in Nat /\ p.state.by \in Nat
                                  /\ p.state.value \in Nat
           /\ Senders \subseteq Hosts
           /\ engine \in [Hosts -> Held] /\ history \in History
  BY GroupType, HostAssumption, NumberAssumption
     DEF TypeOK, Held, State, Value, EmptyHash

(* What is not newer than a key is not newer than a greater one. *)
NoOlder(next, held) ==
    \A state \in State \union Held : Newer(state, next) => Newer(state, held)

LEMMA LaterIsNoOlder ==
    ASSUME NEW held \in Held, NEW next \in Held, next.at > held.at
    PROVE  NoOlder(next, held)
  <1>1. held.at \in Nat /\ next.at \in Nat /\ \A state \in State \union Held : state.at \in Nat
    BY DEF Held, State
  <1> QED
    BY <1>1 DEF NoOlder, Newer

(* Receiving leaves a key that is no older than the payload's or its own. *)
LEMMA ReceivedKey ==
    ASSUME NEW held \in Held, NEW state \in State, NEW now \in Nat, Acceptable(state, now),
           NEW next, next = Received(held, state, now)
    PROVE  /\ next \in Held
           /\ NoOlder(next, held)
           /\ ~Newer(state, next)
           /\ Newer(state, held) =>
                 /\ next.value = state.value /\ next.at = state.at /\ next.by = state.by
                 /\ next.hash = Hash(state.value)
           /\ ~Newer(state, held) =>
                 /\ next.value = held.value /\ next.at = held.at /\ next.by = held.by
                 /\ next.hash = held.hash
           /\ ~Revises(held, state, now) => next = held
  <1>1. Adopts(held, state, now) <=> Newer(state, held)
    BY DEF Adopts
  <1>2. /\ next \in Held
        /\ Newer(state, held) =>
              /\ next.value = state.value /\ next.at = state.at /\ next.by = state.by
              /\ next.hash = Hash(state.value)
        /\ ~Newer(state, held) =>
              /\ next.value = held.value /\ next.at = held.at /\ next.by = held.by
              /\ next.hash = held.hash
    BY <1>1, ReceivedFields DEF Hash
  <1>3. ~Revises(held, state, now) => next = held
    BY DEF Revises, Received, WithPeerGate
  <1>4. \A x \in State \union Held : x.at \in Nat /\ x.by \in Nat /\ x.value \in Nat
    BY NumberAssumption DEF State, Held, Value
  <1>5. held.at \in Nat /\ held.by \in Nat /\ held.hash \in Nat
    BY NumberAssumption DEF Held, Value, EmptyHash
  <1>6. CASE Newer(state, held)
    <2>1. /\ next.at = state.at /\ next.by = state.by /\ next.hash = Hash(state.value)
      BY <1>2, <1>6
    <2>2. ~Newer(state, next)
      BY <1>4, <2>1 DEF Newer, Hash
    <2>3. ASSUME NEW x \in State \union Held, Newer(x, next)
          PROVE  Newer(x, held)
      <3>1. state \in State \union Held
        OBVIOUS
      <3> QED
        BY <1>4, <1>5, <1>6, <2>1, <2>3, <3>1 DEF Newer, Hash
    <2> QED
      BY <1>2, <1>3, <2>2, <2>3 DEF NoOlder
  <1>7. CASE ~Newer(state, held)
    <2>1. next.at = held.at /\ next.by = held.by /\ next.hash = held.hash
      BY <1>2, <1>7
    <2>2. ~Newer(state, next)
      BY <1>7, <2>1 DEF Newer
    <2>3. NoOlder(next, held)
      BY <2>1 DEF NoOlder, Newer
    <2> QED
      BY <1>2, <1>3, <2>2, <2>3
  <1> QED
    BY <1>6, <1>7

(* No step makes any host's key older, so a key that a host has or that is *)
(* on its way to it stays so until it is delivered.                        *)
LEMMA ReachesStill ==
    ASSUME NEW x \in State \union Held, NEW host \in Hosts, Reaches(x, host),
           NoOlder(engine'[host], engine[host]),
           NEW y \in State \union Held, y.at = x.at, y.by = x.by, y.value = x.value,
           \A p \in inFlight \ inFlight' :
               p.to = host => p.state \in State /\ ~Newer(p.state, engine'[host])
    PROVE  \/ ~Newer(y, engine'[host])
           \/ \E p \in inFlight' : /\ p.to = host
                                   /\ p.state.at = y.at
                                   /\ p.state.by = y.by
                                   /\ p.state.value = y.value
  <1>1. CASE ~Newer(x, engine[host])
    BY <1>1 DEF NoOlder, Newer
  <1>2. CASE \E p \in inFlight : /\ p.to = host
                                /\ p.state.at = x.at
                                /\ p.state.by = x.by
                                /\ p.state.value = x.value
    <2>1. PICK p \in inFlight : /\ p.to = host
                               /\ p.state.at = x.at
                               /\ p.state.by = x.by
                               /\ p.state.value = x.value
      BY <1>2
    <2>2. CASE p \in inFlight'
      BY <2>1, <2>2
    <2>3. CASE p \notin inFlight'
      BY <2>1, <2>3 DEF Newer
    <2> QED
      BY <2>2, <2>3
  <1> QED
    BY <1>1, <1>2 DEF Reaches

LEMMA InitKeys == Init => KeyInv
  <1> SUFFICES ASSUME Init
               PROVE  KeysInv
    BY DEF KeyInv
  <1>1. PICK heard \in [Hosts -> Hosts] :
            /\ \A host \in Hosts : Greatest(host, heard[host])
            /\ engine = [host \in Hosts |-> Fresh(host, heard[host])]
    BY DEF Init
  <1>2. /\ up = Hosts /\ changed = {} /\ inFlight = {} /\ Senders \subseteq Hosts
    BY GroupType DEF Init
  <1>3. \A h \in Hosts : /\ engine[h].at = 0 /\ engine[h].value = MaxValue
                        /\ engine[h].by = InstanceId[heard[h]]
                        /\ engine[h].hash = IF heard[h] = h THEN 0 ELSE MaxValue
    BY <1>1 DEF Fresh, Hash, EmptyHash
  <1>4. \A h \in Hosts : InstanceId[h] \in Nat
    BY HostAssumption
  <1>5. \A h \in Hosts :
            /\ heard[h] \in Senders \union {h}
            /\ \A s \in Senders : InstanceId[s] <= InstanceId[heard[h]]
            /\ heard[h] = h => \A s \in Senders \ {h} : InstanceId[s] < InstanceId[h]
    BY <1>1 DEF Greatest
  <1>6. KeysAreSenders
    BY <1>2, <1>3, <1>5 DEF KeysAreSenders, Foreign, Hash
  <1>7. StateOnItsWay
    <2>1. \A s \in Senders : /\ Captured(s).at = 0 /\ Captured(s).value = MaxValue
                            /\ Captured(s).by = InstanceId[s]
      BY <1>2, <1>3 DEF Captured
    <2>2. ASSUME NEW s \in Senders, NEW h \in Hosts, h # s
          PROVE  ~Newer(Captured(s), engine[h])
      <3>1. /\ heard[h] \in Hosts /\ s \in Hosts
            /\ InstanceId[s] <= InstanceId[heard[h]]
            /\ heard[h] = h => InstanceId[s] < InstanceId[heard[h]]
        BY <1>1, <1>2, <1>5, <2>2
      <3> QED
        BY <1>3, <1>4, <2>1, <3>1, NumberAssumption DEF Newer, Hash
    <2> QED
      BY <2>2 DEF StateOnItsWay
  <1>8. KeysSpread
    <2>1. ASSUME NEW a \in Hosts, Foreign(a), NEW h \in Hosts, InstanceId[h] # engine[a].by
          PROVE  ~Newer(engine[a], engine[h])
      <3>1. heard[a] \in Senders
        BY <1>3, <1>5, <2>1 DEF Foreign
      <3>2. /\ heard[h] \in Hosts /\ heard[a] \in Hosts
            /\ InstanceId[heard[a]] <= InstanceId[heard[h]]
        BY <1>1, <1>5, <3>1
      <3>3. InstanceId[heard[h]] = InstanceId[heard[a]] => heard[h] # h
        BY <1>3, <2>1
      <3> QED
        BY <1>3, <1>4, <3>2, <3>3, NumberAssumption DEF Newer, Hash
    <2> QED
      BY <1>2, <2>1 DEF KeysSpread, Reaches
  <1>9. OwnChangeAlone
    BY <1>2, <1>3 DEF OwnChangeAlone
  <1> QED
    BY <1>2, <1>6, <1>7, <1>8, <1>9 DEF KeysInv
-----------------------------------------------------------------------------
(* The steps. *)

(* A host's own change: later than all it held, and still to be published. *)
LEMMA LocalKeeps ==
    ASSUME TypeOK, TypeOK', DistinctIdentities, KeysInv, Senders' = Senders,
           NEW host \in Hosts, changed' = changed \union {host},
           inFlight' = inFlight, up' = up,
           \A other \in Hosts \ {host} : engine'[other] = engine[other],
           engine'[host].at > engine[host].at, engine'[host].by = InstanceId[host]
    PROVE  KeysInv'
  <1>t. /\ \A h \in Hosts : /\ engine[h] \in Held /\ engine'[h] \in Held
                            /\ engine[h].at \in Nat /\ engine'[h].at \in Nat
                            /\ InstanceId[h] \in Nat
        /\ \A p \in inFlight : p.to \in Hosts /\ p.state \in State /\ p.state.at \in Nat
        /\ Senders \subseteq Hosts
        /\ engine \in [Hosts -> Held] /\ engine' \in [Hosts -> Held]
    BY KeyTypes DEF TypeOK, Held
  <1>1. \A h \in Hosts : NoOlder(engine'[h], engine[h])
    <2>1. NoOlder(engine'[host], engine[host])
      BY <1>t, LaterIsNoOlder
    <2>2. ASSUME NEW h \in Hosts, h # host
          PROVE  NoOlder(engine'[h], engine[h])
      BY <2>2 DEF NoOlder
    <2> QED
      BY <2>1, <2>2
  <1>2. KeysAreSenders'
    BY <1>t DEF KeysInv, KeysAreSenders, Foreign
  <1>3. StateOnItsWay'
    <2>1. ASSUME NEW s \in Senders, NEW h \in Hosts, h # s, s \notin changed'
          PROVE  \/ ~Newer(Captured(s)', engine'[h])
                 \/ [to |-> h, state |-> Captured(s)'] \in inFlight'
      <3>1. engine'[s] = engine[s] /\ s \notin changed
        BY <1>t, <2>1
      <3>2. Captured(s)' = Captured(s) /\ Captured(s) \in State
        BY <1>t, <3>1, CapturedFields DEF Captured
      <3>3. \/ ~Newer(Captured(s), engine[h])
            \/ [to |-> h, state |-> Captured(s)] \in inFlight
        BY <2>1, <3>1 DEF KeysInv, StateOnItsWay
      <3> QED
        BY <1>1, <3>2, <3>3 DEF NoOlder
    <2> QED
      BY <2>1 DEF StateOnItsWay
  <1>4. KeysSpread'
    <2>1. ASSUME NEW a \in Hosts, Foreign(a)', NEW h \in Hosts, InstanceId[h] # engine'[a].by
          PROVE  \/ ~Newer(engine'[a], engine'[h])
                 \/ \E p \in inFlight' : /\ p.to = h
                                         /\ p.state.at = engine'[a].at
                                         /\ p.state.by = engine'[a].by
                                         /\ p.state.value = engine'[a].value
      <3>1. engine'[a] = engine[a]
        BY <2>1 DEF Foreign
      <3>2. Reaches(engine[a], h)
        BY <2>1, <3>1 DEF KeysInv, KeysSpread, Foreign
      <3> QED
        BY <1>t, <1>1, <3>1, <3>2, ReachesStill
    <2>2. ASSUME NEW q \in inFlight', NEW h \in Hosts, InstanceId[h] # q.state.by
          PROVE  \/ ~Newer(q.state, engine'[h])
                 \/ \E p \in inFlight' : /\ p.to = h
                                         /\ p.state.at = q.state.at
                                         /\ p.state.by = q.state.by
                                         /\ p.state.value = q.state.value
      <3>1. q.state \in State /\ Reaches(q.state, h)
        BY <1>t, <2>2 DEF KeysInv, KeysSpread
      <3> QED
        BY <1>1, <3>1, ReachesStill
    <2> QED
      BY <2>1, <2>2 DEF KeysSpread, Reaches
  <1>5. OwnChangeAlone'
    <2>1. ASSUME NEW h \in Hosts, NEW a \in Hosts \ {h}, engine'[a].by = InstanceId[h]
          PROVE  /\ engine'[a].at <= engine'[h].at
                 /\ engine'[a].at = engine'[h].at /\ ~Foreign(h)'
                        => engine'[a].value = engine'[h].value
      <3>1. a # host
        BY <2>1 DEF DistinctIdentities
      <3>2. engine'[a] = engine[a]
        BY <3>1
      <3> QED
        BY <1>t, <2>1, <3>2 DEF KeysInv, OwnChangeAlone, Foreign
    <2>2. ASSUME NEW h \in Hosts, NEW p \in inFlight, p.state.by = InstanceId[h]
          PROVE  /\ p.state.at <= engine'[h].at
                 /\ p.state.at = engine'[h].at /\ ~Foreign(h)'
                        => p.state.value = engine'[h].value
      BY <1>t, <2>2 DEF KeysInv, OwnChangeAlone, Foreign
    <2> QED
      BY <2>1, <2>2 DEF OwnChangeAlone
  <1> QED
    BY <1>2, <1>3, <1>4, <1>5 DEF KeysInv

(* A host's state under its own identity, to every other host. *)
LEMMA PublishKeeps ==
    ASSUME TypeOK, DistinctIdentities, KeysInv, Senders' = Senders,
           NEW host \in Hosts, Publish(host)
    PROVE  KeysInv'
  <1>t. /\ \A h \in Hosts : /\ engine[h] \in Held /\ engine[h].at \in Nat
                            /\ engine[h].by \in Nat /\ engine[h].value \in Nat
                            /\ engine[h].hash \in Nat /\ InstanceId[h] \in Nat
        /\ \A p \in inFlight : p.to \in Hosts /\ p.state \in State /\ p.state.at \in Nat
        /\ Senders \subseteq Hosts
        /\ engine \in [Hosts -> Held]
    BY KeyTypes
  <1>u. /\ Captured(host) \in State
        /\ Captured(host).value = engine[host].value
        /\ Captured(host).at = engine[host].at
        /\ Captured(host).by = InstanceId[host]
    BY <1>t, CapturedFields
  <1>p. /\ engine' = engine /\ up' = up /\ up = Hosts
        /\ changed' = changed \ {host}
        /\ inFlight \subseteq inFlight'
        /\ \A q \in inFlight' : \/ q \in inFlight
                                \/ /\ host \in Senders
                                   /\ q.state = Captured(host)
                                   /\ q.to \in Hosts \ {host}
        /\ host \in Senders => \A other \in Hosts \ {host} :
               [to |-> other, state |-> Captured(host)] \in inFlight'
    BY PublishFields DEF KeysInv
  <1>1. \A h \in Hosts : NoOlder(engine'[h], engine[h])
    BY <1>p DEF NoOlder
  <1>2. KeysAreSenders'
    BY <1>p, <1>u DEF KeysInv, KeysAreSenders, Foreign
  <1>3. StateOnItsWay'
    <2>1. ASSUME NEW s \in Senders, NEW h \in Hosts, h # s, s \notin changed'
          PROVE  \/ ~Newer(Captured(s), engine[h])
                 \/ [to |-> h, state |-> Captured(s)] \in inFlight'
      BY <1>p, <2>1 DEF KeysInv, StateOnItsWay
    <2>2. \A s \in Hosts : Captured(s)' = Captured(s)
      BY <1>p DEF Captured
    <2> QED
      BY <1>t, <1>p, <2>1, <2>2 DEF StateOnItsWay
  <1>4. KeysSpread'
    <2>1. ASSUME NEW x \in State \union Held, NEW h \in Hosts, Reaches(x, h)
          PROVE  \/ ~Newer(x, engine'[h])
                 \/ \E p \in inFlight' : /\ p.to = h
                                         /\ p.state.at = x.at
                                         /\ p.state.by = x.by
                                         /\ p.state.value = x.value
      BY <1>1, <1>p, <2>1, ReachesStill
    <2>2. ASSUME NEW q \in inFlight', NEW h \in Hosts, InstanceId[h] # q.state.by
          PROVE  \/ ~Newer(q.state, engine'[h])
                 \/ \E p \in inFlight' : /\ p.to = h
                                         /\ p.state.at = q.state.at
                                         /\ p.state.by = q.state.by
                                         /\ p.state.value = q.state.value
      <3>1. CASE q \in inFlight
        BY <1>t, <2>1, <2>2, <3>1 DEF KeysInv, KeysSpread
      <3>2. CASE host \in Senders /\ q.state = Captured(host)
        <4> DEFINE p == [to |-> h, state |-> Captured(host)]
        <4>1. p \in inFlight' /\ p.to = h /\ p.state = Captured(host)
          BY <1>p, <1>u, <2>2, <3>2
        <4> QED
          BY <3>2, <4>1
      <3> QED
        BY <1>p, <3>1, <3>2
    <2>3. ASSUME NEW a \in Hosts, Foreign(a)', NEW h \in Hosts, InstanceId[h] # engine'[a].by
          PROVE  \/ ~Newer(engine'[a], engine'[h])
                 \/ \E p \in inFlight' : /\ p.to = h
                                         /\ p.state.at = engine'[a].at
                                         /\ p.state.by = engine'[a].by
                                         /\ p.state.value = engine'[a].value
      <3>1. engine'[a] = engine[a] /\ engine[a] \in State \union Held
        BY <1>t, <1>p
      <3>2. Reaches(engine[a], h)
        BY <2>3, <3>1 DEF KeysInv, KeysSpread, Foreign
      <3> QED
        BY <2>1, <3>1, <3>2
    <2> QED
      BY <2>2, <2>3 DEF KeysSpread, Reaches
  <1>5. OwnChangeAlone'
    <2>1. ASSUME NEW h \in Hosts, NEW p \in inFlight', p.state.by = InstanceId[h]
          PROVE  /\ p.state.at <= engine[h].at
                 /\ p.state.at = engine[h].at /\ ~Foreign(h)
                        => p.state.value = engine[h].value
      <3>1. CASE p \in inFlight
        BY <2>1, <3>1 DEF KeysInv, OwnChangeAlone
      <3>2. CASE p.state = Captured(host)
        <4>1. h = host
          BY <1>u, <2>1, <3>2 DEF DistinctIdentities
        <4> QED
          BY <1>t, <1>u, <3>2, <4>1
      <3> QED
        BY <1>p, <3>1, <3>2
    <2> QED
      BY <1>p, <2>1 DEF KeysInv, OwnChangeAlone, Foreign
  <1> QED
    BY <1>p, <1>2, <1>3, <1>4, <1>5 DEF KeysInv

(* A delivery: the receiver takes a greater key as the sender had it, and  *)
(* will then publish. *)
LEMMA AdoptKeeps ==
    ASSUME TypeOK, TypeOK', DistinctIdentities, KeysInv, Senders' = Senders,
           NEW payload \in inFlight, NEW now \in Instants, Adopt(payload, now),
           Acceptable(payload.state, now),
           inFlight' \subseteq inFlight, inFlight \ {payload} \subseteq inFlight'
    PROVE  KeysInv'
  <1> DEFINE r == payload.to
             state == payload.state
             next == engine'[r]
  <1>t. /\ \A h \in Hosts : /\ engine[h] \in Held /\ engine'[h] \in Held
                            /\ engine[h].at \in Nat /\ engine'[h].at \in Nat
                            /\ InstanceId[h] \in Nat
        /\ \A p \in inFlight : p.to \in Hosts /\ p.state \in State /\ p.state.at \in Nat
        /\ Senders \subseteq Hosts
        /\ engine \in [Hosts -> Held] /\ engine' \in [Hosts -> Held]
    BY KeyTypes DEF TypeOK, Held
  <1>r. /\ r \in Hosts /\ state \in State /\ now \in Nat
        /\ next = Received(engine[r], state, now)
        /\ \A other \in Hosts \ {r} : engine'[other] = engine[other]
        /\ up' = up
        /\ changed' = IF Revises(engine[r], state, now) THEN changed \union {r} ELSE changed
    <2>1. up' = up
      BY DEF Adopt
    <2>2. changed' = IF Revises(engine[r], state, now) THEN changed \union {r} ELSE changed
      BY DEF Adopt
    <2> QED
      BY <2>1, <2>2, AdoptedFields
  <1>n. /\ NoOlder(next, engine[r])
        /\ ~Newer(state, next)
        /\ Newer(state, engine[r]) =>
              /\ next.value = state.value /\ next.at = state.at /\ next.by = state.by
              /\ next.hash = Hash(state.value)
        /\ ~Newer(state, engine[r]) =>
              /\ next.value = engine[r].value /\ next.at = engine[r].at
              /\ next.by = engine[r].by /\ next.hash = engine[r].hash
        /\ ~Revises(engine[r], state, now) => next = engine[r]
    <2> HIDE DEF next, r, state
    <2>1. engine[r] \in Held /\ Acceptable(state, now)
      BY <1>t, <1>r DEF state
    <2> QED
      BY <1>r, <2>1, ReceivedKey
  <1> HIDE DEF next
  <1>1. \A h \in Hosts : NoOlder(engine'[h], engine[h])
    <2>1. ASSUME NEW h \in Hosts, h # r
          PROVE  NoOlder(engine'[h], engine[h])
      BY <1>r, <2>1 DEF NoOlder
    <2> QED
      BY <1>n, <2>1 DEF next
  <1>2. KeysAreSenders'
    <2>1. ASSUME NEW h \in Hosts, Foreign(h)'
          PROVE  /\ \E sender \in Senders : engine'[h].by = InstanceId[sender]
                 /\ engine'[h].hash = Hash(engine'[h].value)
      <3>1. CASE h = r /\ Newer(state, engine[r])
        BY <1>n, <3>1 DEF next, KeysInv, KeysAreSenders
      <3>2. CASE h = r /\ ~Newer(state, engine[r])
        BY <1>r, <1>n, <2>1, <3>2 DEF next, KeysInv, KeysAreSenders, Foreign
      <3>3. CASE h # r
        BY <1>r, <2>1, <3>3 DEF KeysInv, KeysAreSenders, Foreign
      <3> QED
        BY <3>1, <3>2, <3>3
    <2>2. \A p \in inFlight' :
              \E sender \in Senders : p.state.by = InstanceId[sender] /\ p.to # sender
      BY DEF KeysInv, KeysAreSenders
    <2> QED
      BY <2>1, <2>2 DEF KeysAreSenders
  <1>3. StateOnItsWay'
    <2>1. ASSUME NEW s \in Senders, NEW h \in Hosts, h # s, s \notin changed'
          PROVE  \/ ~Newer(Captured(s)', engine'[h])
                 \/ [to |-> h, state |-> Captured(s)'] \in inFlight'
      <3>1. engine'[s] = engine[s] /\ s \notin changed
        BY <1>t, <1>r, <1>n, <2>1 DEF next
      <3>2. Captured(s)' = Captured(s) /\ Captured(s) \in State
        BY <1>t, <3>1, CapturedFields DEF Captured
      <3>3. CASE ~Newer(Captured(s), engine[h])
        BY <1>1, <3>2, <3>3 DEF NoOlder
      <3>4. CASE [to |-> h, state |-> Captured(s)] \in inFlight
        <4>1. CASE [to |-> h, state |-> Captured(s)] = payload
          <5>1. h = r /\ Captured(s) = state
            BY <4>1
          <5> QED
            BY <1>n, <3>2, <5>1 DEF next
        <4>2. CASE [to |-> h, state |-> Captured(s)] # payload
          BY <3>2, <3>4, <4>2
        <4> QED
          BY <4>1, <4>2
      <3> QED
        BY <2>1, <3>1, <3>3, <3>4 DEF KeysInv, StateOnItsWay
    <2> QED
      BY <2>1 DEF StateOnItsWay
  <1>4. KeysSpread'
    <2>1. ASSUME NEW x \in State \union Held, NEW h \in Hosts, Reaches(x, h),
                 NEW y \in State \union Held, y.at = x.at, y.by = x.by, y.value = x.value
          PROVE  \/ ~Newer(y, engine'[h])
                 \/ \E p \in inFlight' : /\ p.to = h
                                         /\ p.state.at = y.at
                                         /\ p.state.by = y.by
                                         /\ p.state.value = y.value
      <3>1. \A p \in inFlight \ inFlight' :
                p.to = h => p.state \in State /\ ~Newer(p.state, engine'[h])
        BY <1>t, <1>n DEF next
      <3> QED
        BY <1>1, <2>1, <3>1, ReachesStill
    <2>2. ASSUME NEW q \in inFlight', NEW h \in Hosts, InstanceId[h] # q.state.by
          PROVE  \/ ~Newer(q.state, engine'[h])
                 \/ \E p \in inFlight' : /\ p.to = h
                                         /\ p.state.at = q.state.at
                                         /\ p.state.by = q.state.by
                                         /\ p.state.value = q.state.value
      <3>1. q.state \in State \union Held /\ Reaches(q.state, h)
        BY <1>t, <2>2 DEF KeysInv, KeysSpread
      <3> QED
        BY <2>1, <3>1
    <2>3. ASSUME NEW a \in Hosts, Foreign(a)', NEW h \in Hosts, InstanceId[h] # engine'[a].by
          PROVE  \/ ~Newer(engine'[a], engine'[h])
                 \/ \E p \in inFlight' : /\ p.to = h
                                         /\ p.state.at = engine'[a].at
                                         /\ p.state.by = engine'[a].by
                                         /\ p.state.value = engine'[a].value
      <3>t. engine'[a] \in State \union Held /\ engine[a] \in State \union Held
        BY <1>t
      <3>1. CASE a = r /\ Newer(state, engine[r])
        <4>1. /\ engine'[a].at = state.at /\ engine'[a].by = state.by
              /\ engine'[a].value = state.value
          BY <1>n, <3>1 DEF next
        <4>2. Reaches(state, h)
          BY <2>3, <4>1 DEF KeysInv, KeysSpread
        <4>3. state \in State \union Held
          BY <1>r
        <4> HIDE DEF state, r
        <4> QED
          BY <2>1, <3>t, <4>1, <4>2, <4>3
      <3>2. CASE ~(a = r /\ Newer(state, engine[r]))
        <4>1. /\ engine'[a].at = engine[a].at /\ engine'[a].by = engine[a].by
              /\ engine'[a].value = engine[a].value
          BY <1>r, <1>n, <3>2 DEF next
        <4>2. Reaches(engine[a], h)
          BY <2>3, <4>1 DEF KeysInv, KeysSpread, Foreign
        <4> QED
          BY <2>1, <3>t, <4>1, <4>2
      <3> QED
        BY <3>1, <3>2
    <2> QED
      BY <2>2, <2>3 DEF KeysSpread, Reaches
  <1>5. OwnChangeAlone'
    <2>1. state.by # InstanceId[r]
      BY <1>r, <1>t DEF KeysInv, KeysAreSenders, DistinctIdentities
    <2>2. \A h \in Hosts : engine'[h].at >= engine[h].at
      <3>1. engine'[r].at >= engine[r].at
        <4>1. CASE Newer(state, engine[r])
          BY <1>t, <1>r, <1>n, <4>1, NewerIsLater DEF next
        <4>2. CASE ~Newer(state, engine[r])
          BY <1>t, <1>r, <1>n, <4>2 DEF next
        <4> QED
          BY <4>1, <4>2
      <3> QED
        BY <1>t, <1>r, <3>1
    <2>3. \A h \in Hosts : ~Foreign(h)' =>
              engine'[h].at = engine[h].at /\ engine'[h].value = engine[h].value /\ ~Foreign(h)
      BY <1>r, <1>n, <2>1 DEF next, Foreign
    <2>4. ASSUME NEW h \in Hosts, NEW p \in inFlight, p.state.by = InstanceId[h]
          PROVE  /\ p.state.at <= engine'[h].at
                 /\ p.state.at = engine'[h].at /\ ~Foreign(h)'
                        => p.state.value = engine'[h].value
      <3>1. p.state.at <= engine[h].at /\ (p.state.at = engine[h].at /\ ~Foreign(h)
                                               => p.state.value = engine[h].value)
        BY <2>4 DEF KeysInv, OwnChangeAlone
      <3> QED
        BY <1>t, <2>2, <2>3, <3>1
    <2>5. ASSUME NEW h \in Hosts, NEW a \in Hosts \ {h}, engine'[a].by = InstanceId[h]
          PROVE  /\ engine'[a].at <= engine'[h].at
                 /\ engine'[a].at = engine'[h].at /\ ~Foreign(h)'
                        => engine'[a].value = engine'[h].value
      <3>1. CASE a = r /\ Newer(state, engine[r])
        <4>1. /\ engine'[a].at = state.at /\ engine'[a].by = state.by
              /\ engine'[a].value = state.value
          BY <1>n, <3>1 DEF next
        <4> QED
          BY <2>4, <2>5, <4>1
      <3>2. CASE ~(a = r /\ Newer(state, engine[r]))
        <4>1. /\ engine'[a].at = engine[a].at /\ engine'[a].by = engine[a].by
              /\ engine'[a].value = engine[a].value
          BY <1>r, <1>n, <3>2 DEF next
        <4>2. engine[a].at <= engine[h].at /\ (engine[a].at = engine[h].at /\ ~Foreign(h)
                                                   => engine[a].value = engine[h].value)
          BY <2>5, <4>1 DEF KeysInv, OwnChangeAlone
        <4> QED
          BY <1>t, <2>2, <2>3, <4>1, <4>2
      <3> QED
        BY <3>1, <3>2
    <2> QED
      BY <2>4, <2>5 DEF OwnChangeAlone
  <1> QED
    BY <1>r, <1>2, <1>3, <1>4, <1>5 DEF KeysInv

LEMMA StepKeys ==
    ASSUME DistinctIdentities, TypeOK, TypeOK', KeyInv, [Next]_vars
    PROVE  KeyInv'
  <1> SUFFICES ASSUME history'.disturbed = {}
               PROVE  KeysInv'
    BY DEF KeyInv
  <1>t. history \in History /\ Instants \subseteq Nat /\ Senders' = Senders
    BY KeyTypes, GroupType DEF TypeOK, Next, vars, Senders
  <1>i. ASSUME history.disturbed = {}
        PROVE  KeysInv
    BY <1>i DEF KeyInv
  <1>1. ASSUME NEW host \in Hosts, NEW now \in Instants, NEW value \in Value,
               Command(host, value, now)
        PROVE  KeysInv'
    BY <1>t, <1>i, <1>1, CommandFields, LocalKeeps
  <1>2. ASSUME NEW host \in Hosts, NEW now \in Instants, GateWrite(host, now)
        PROVE  KeysInv'
    <2>1. /\ engine'[host].at > engine[host].at
          /\ engine'[host].by = InstanceId[host]
          /\ \A other \in Hosts \ {host} : engine'[other] = engine[other]
          /\ changed' = changed \union {host}
          /\ inFlight' = inFlight /\ up' = up
          /\ history'.disturbed = history.disturbed
      BY <1>2, GateWriteFields
    <2> QED
      BY <1>t, <1>i, <2>1, LocalKeeps
  <1>3. ASSUME NEW host \in Hosts, Publish(host)
        PROVE  KeysInv'
    BY <1>t, <1>i, <1>3, PublishFields, PublishKeeps
  <1>4. ASSUME NEW payload \in inFlight, NEW now \in Instants, Adopt(payload, now),
               inFlight' \subseteq inFlight, inFlight \ {payload} \subseteq inFlight'
        PROVE  KeysInv'
    <2>1. CASE Acceptable(payload.state, now)
      <3>1. history' = history
        BY <1>4, <2>1 DEF Adopt
      <3> QED
        BY <1>t, <1>i, <1>4, <2>1, <3>1, AdoptKeeps
    <2>2. CASE ~Acceptable(payload.state, now)
      <3>1. "refused" \in history'.disturbed
        BY <1>4, <1>t, <2>2 DEF Adopt, History
      <3> QED
        BY <3>1
    <2> QED
      BY <2>1, <2>2
  <1>5. ASSUME NEW payload \in inFlight, NEW now \in Instants,
               Receive(payload, now) \/ ReceiveCopy(payload, now)
        PROVE  KeysInv'
    BY <1>4, <1>5 DEF Receive, ReceiveCopy
  <1>6. ASSUME UNCHANGED <<engine, up, changed, inFlight>>,
               history'.disturbed = history.disturbed
        PROVE  KeysInv'
    <2>1. KeysInv
      BY <1>6, <1>i
    <2>2. \A h \in Hosts : Captured(h)' = Captured(h)
      BY <1>6 DEF Captured
    <2>3. KeysAreSenders' /\ KeysSpread' /\ OwnChangeAlone'
      BY <1>6, <1>t, <2>1
         DEF KeysInv, KeysAreSenders, KeysSpread, Reaches, OwnChangeAlone, Foreign
    <2>4. StateOnItsWay'
      BY <1>6, <1>t, <2>1, <2>2, KeyTypes DEF KeysInv, StateOnItsWay
    <2> QED
      BY <1>6, <2>1, <2>3, <2>4 DEF KeysInv
  <1>7. CASE NewOrder
    <2>1. history'.disturbed = history.disturbed
      BY <1>7, <1>t DEF NewOrder, History
    <2> QED
      BY <1>6, <1>7, <2>1 DEF NewOrder
  <1>8. ASSUME NEW host \in Hosts, Stop(host)
        PROVE  KeysInv'
    <2>1. "restarted" \in history'.disturbed
      BY <1>8, <1>t DEF Stop, History
    <2> QED
      BY <2>1
  <1>9. ASSUME NEW payload \in inFlight, Lose(payload)
        PROVE  KeysInv'
    <2>1. "lost" \in history'.disturbed
      BY <1>9, <1>t DEF Lose, History
    <2> QED
      BY <2>1
  <1>10. ASSUME NEW host \in Hosts, NEW held, NEW forgets, Start(host, held, forgets)
         PROVE  KeysInv'
    <2>1. history'.disturbed = history.disturbed /\ host \notin up
      BY <1>10, <1>t DEF Start, History
    <2> QED
      BY <1>i, <2>1 DEF KeysInv
  <1>11. ASSUME NEW host \in Hosts,
                \/ StartTrusted(host)
                \/ \E now \in Instants : StartUntrusted(host, now)
         PROVE  KeysInv'
    BY <1>10, <1>11 DEF StartTrusted, StartUntrusted
  <1>12. CASE UNCHANGED vars
    BY <1>6, <1>12 DEF vars
  <1>13. CASE Next
    <2>1. ASSUME NEW host \in Hosts,
                 \/ Publish(host)
                 \/ Stop(host)
                 \/ StartTrusted(host)
                 \/ \E now \in Instants :
                       \/ \E value \in Value : Command(host, value, now)
                       \/ GateWrite(host, now)
                       \/ StartUntrusted(host, now)
          PROVE  KeysInv'
      BY <1>1, <1>2, <1>3, <1>8, <1>11, <2>1
    <2>2. ASSUME NEW payload \in inFlight,
                 \/ Lose(payload)
                 \/ \E now \in Instants : Receive(payload, now) \/ ReceiveCopy(payload, now)
          PROVE  KeysInv'
      BY <1>5, <1>9, <2>2
    <2> QED
      BY <1>7, <1>13, <2>1, <2>2 DEF Next
  <1> QED
    BY <1>12, <1>13
-----------------------------------------------------------------------------
(* Once nothing is on its way. *)

(* Every sender's value has been offered to every host, and what a host    *)
(* took over has been offered to every host but the one whose identity it  *)
(* bears. *)
LEMMA QuietKeys ==
    ASSUME TypeOK, KeysInv, Quiet
    PROVE  /\ \A s \in Senders : \A h \in Hosts \ {s} :
                  \/ engine[h].at > engine[s].at
                  \/ /\ engine[h].at = engine[s].at
                     /\ \/ engine[h].by > InstanceId[s]
                        \/ /\ engine[h].by = InstanceId[s]
                           /\ engine[h].hash >= engine[s].value
           /\ \A a \in Hosts : Foreign(a) =>
                  /\ engine[a].hash = engine[a].value
                  /\ \E s \in Senders : engine[a].by = InstanceId[s]
                  /\ \A h \in Hosts : InstanceId[h] # engine[a].by =>
                        \/ engine[h].at > engine[a].at
                        \/ /\ engine[h].at = engine[a].at
                           /\ \/ engine[h].by > engine[a].by
                              \/ /\ engine[h].by = engine[a].by
                                 /\ engine[h].hash >= engine[a].value
  <1>1. ASSUME NEW s \in Senders, NEW h \in Hosts \ {s}
        PROVE  \/ engine[h].at > engine[s].at
               \/ /\ engine[h].at = engine[s].at
                  /\ \/ engine[h].by > InstanceId[s]
                     \/ /\ engine[h].by = InstanceId[s]
                        /\ engine[h].hash >= engine[s].value
    <2>1. ~Newer(Captured(s), engine[h])
      BY DEF KeysInv, StateOnItsWay, Quiet
    <2>2. /\ s \in Hosts
          /\ Captured(s).value = engine[s].value /\ Captured(s).at = engine[s].at
          /\ Captured(s).by = InstanceId[s]
      BY KeyTypes, CapturedFields
    <2> QED
      BY <2>1, <2>2, KeyTypes DEF Newer, Hash
  <1>2. ASSUME NEW a \in Hosts, Foreign(a), NEW h \in Hosts, InstanceId[h] # engine[a].by
        PROVE  \/ engine[h].at > engine[a].at
               \/ /\ engine[h].at = engine[a].at
                  /\ \/ engine[h].by > engine[a].by
                     \/ /\ engine[h].by = engine[a].by
                        /\ engine[h].hash >= engine[a].value
    <2>1. ~Newer(engine[a], engine[h])
      BY <1>2 DEF KeysInv, KeysSpread, Reaches, Quiet
    <2> QED
      BY <2>1, KeyTypes DEF Newer, Hash
  <1>3. \A a \in Hosts : Foreign(a) =>
            /\ engine[a].hash = engine[a].value
            /\ \E s \in Senders : engine[a].by = InstanceId[s]
    BY DEF KeysInv, KeysAreSenders, Hash
  <1> QED
    BY <1>1, <1>2, <1>3

(* A host has what came from s, which has what came from a third, c: then  *)
(* c has the value too, since c saw it from the host and s saw it from c.  *)
LEMMA ThirdHost ==
    ASSUME TypeOK, DistinctIdentities, KeysInv, Quiet,
           NEW s \in Senders, NEW c \in Senders, NEW h \in Hosts,
           s # h, c # s, c # h, engine[h].at = engine[s].at,
           engine[h].by = InstanceId[s], engine[s].by = InstanceId[c]
    PROVE  engine[h].value = engine[s].value
  <1>t. /\ \A x \in Hosts : /\ engine[x].at \in Nat /\ engine[x].by \in Nat
                            /\ engine[x].hash \in Nat /\ engine[x].value \in Nat
                            /\ InstanceId[x] \in Nat
        /\ s \in Hosts /\ c \in Hosts
    BY KeyTypes
  <1>1. \A x, y \in Hosts : InstanceId[x] = InstanceId[y] => x = y
    BY DEF DistinctIdentities
  <1>2. Foreign(h) /\ Foreign(s)
    BY <1>t, <1>1 DEF Foreign
  <1>3. /\ engine[h].hash = engine[h].value /\ engine[s].hash = engine[s].value
        /\ InstanceId[c] < InstanceId[s]
        /\ engine[s].value <= engine[h].value
    <2>1. engine[h].hash = engine[h].value /\ engine[s].hash = engine[s].value
      BY <1>t, <1>2, QuietKeys
    <2>2. \/ engine[h].at > engine[s].at
          \/ /\ engine[h].at = engine[s].at
             /\ \/ engine[h].by > engine[s].by
                \/ engine[h].by = engine[s].by
      BY <1>t, <1>1, <1>2, QuietKeys
    <2>3. engine[h].hash >= engine[s].value
      BY <1>t, QuietKeys
    <2> QED
      BY <1>t, <1>1, <2>1, <2>2, <2>3
  <1>4. /\ engine[c].at = engine[s].at
        /\ engine[c].value <= engine[s].value
    BY <1>t, <1>3, QuietKeys
  <1>5. /\ engine[c].by >= InstanceId[s]
        /\ engine[c].by = InstanceId[s] => engine[c].hash >= engine[h].value
    BY <1>t, <1>1, <1>2, <1>4, QuietKeys
  <1>6. Foreign(c)
    BY <1>t, <1>3, <1>5 DEF Foreign
  <1>7. CASE engine[c].by = InstanceId[s]
    BY <1>t, <1>3, <1>4, <1>5, <1>6, <1>7, QuietKeys
  <1>8. CASE engine[c].by > InstanceId[s]
    <2>1. CASE InstanceId[h] # engine[c].by
      BY <1>t, <1>4, <1>6, <1>8, <2>1, QuietKeys
    <2>2. CASE InstanceId[h] = engine[c].by
      <3>1. InstanceId[s] # engine[c].by
        BY <1>t, <1>8
      <3>2. engine[s].by >= engine[c].by
        BY <1>t, <1>4, <1>6, <3>1, QuietKeys
      <3> QED
        BY <1>t, <1>3, <1>8, <3>2
    <2> QED
      BY <2>1, <2>2
  <1> QED
    BY <1>t, <1>5, <1>7, <1>8

LEMMA QuietAgree ==
    ASSUME TypeOK, DistinctIdentities, KeysInv, Quiet,
           NEW s \in Senders, NEW h \in Hosts, ~KeepsItsOwn(h, s)
    PROVE  engine[h].value = engine[s].value
  <1> SUFFICES ASSUME h # s
               PROVE  engine[h].value = engine[s].value
    OBVIOUS
  <1>t. /\ \A x \in Hosts : /\ engine[x].at \in Nat /\ engine[x].by \in Nat
                            /\ engine[x].hash \in Nat /\ engine[x].value \in Nat
                            /\ InstanceId[x] \in Nat
        /\ s \in Hosts /\ Senders \subseteq Hosts
    BY KeyTypes
  <1>1. \A x, y \in Hosts : InstanceId[x] = InstanceId[y] => x = y
    BY DEF DistinctIdentities
  <1>2. h \in Senders \/ Foreign(h)
    <2>1. ~Newer(Captured(s), engine[h])
      BY DEF KeysInv, StateOnItsWay, Quiet
    <2> QED
      BY <2>1 DEF KeepsItsOwn, Foreign
  <1>3. engine[h].at = engine[s].at
    <2>1. engine[h].at >= engine[s].at
      BY <1>t, QuietKeys
    <2>2. CASE h \in Senders
      BY <1>t, <2>1, <2>2, QuietKeys
    <2>3. CASE Foreign(h) /\ engine[h].by # InstanceId[s]
      BY <1>t, <2>1, <2>3, QuietKeys
    <2>4. CASE Foreign(h) /\ engine[h].by = InstanceId[s]
      <3>1. engine[h].at <= engine[s].at
        BY <1>t, <2>4 DEF KeysInv, OwnChangeAlone
      <3> QED
        BY <1>t, <2>1, <3>1
    <2> QED
      BY <1>2, <2>2, <2>3, <2>4
  <1>4. CASE ~Foreign(s)
    <2>1. CASE Foreign(h) /\ engine[h].by = InstanceId[s]
      BY <1>t, <1>3, <1>4, <2>1 DEF KeysInv, OwnChangeAlone
    <2>2. CASE Foreign(h) /\ engine[h].by # InstanceId[s]
      <3>1. engine[s].by = InstanceId[s]
        BY <1>4 DEF Foreign
      <3>2. engine[s].by > engine[h].by
        BY <1>t, <1>3, <2>2, <3>1, QuietKeys
      <3>3. engine[h].by >= InstanceId[s]
        BY <1>t, <1>3, QuietKeys
      <3> QED
        BY <1>t, <3>1, <3>2, <3>3
    <2>3. CASE ~Foreign(h)
      <3>1. /\ engine[s].by = InstanceId[s] /\ engine[h].by = InstanceId[h]
            /\ h \in Senders
        BY <1>2, <1>4, <2>3 DEF Foreign
      <3>2. engine[h].by >= InstanceId[s] /\ engine[s].by >= InstanceId[h]
        BY <1>t, <1>3, <3>1, QuietKeys
      <3> QED
        BY <1>t, <1>1, <3>1, <3>2
    <2> QED
      BY <2>1, <2>2, <2>3
  <1>5. CASE Foreign(s) /\ ~Foreign(h)
    <2>1. h \in Senders /\ engine[h].by = InstanceId[h]
      BY <1>2, <1>5 DEF Foreign
    <2>2. CASE engine[s].by = InstanceId[h]
      BY <1>t, <1>3, <1>5, <2>2 DEF KeysInv, OwnChangeAlone
    <2>3. CASE engine[s].by # InstanceId[h]
      <3>1. engine[h].by > engine[s].by
        BY <1>t, <1>3, <1>5, <2>1, <2>3, QuietKeys
      <3>2. engine[s].by >= InstanceId[h]
        BY <1>t, <1>3, <2>1, QuietKeys
      <3> QED
        BY <1>t, <2>1, <3>1, <3>2
    <2> QED
      BY <2>2, <2>3
  <1>6. CASE Foreign(s) /\ Foreign(h)
    <2>1. PICK c \in Senders : engine[s].by = InstanceId[c]
      BY <1>t, <1>6, QuietKeys
    <2>2. PICK b \in Senders : engine[h].by = InstanceId[b]
      BY <1>6, QuietKeys
    <2>3. /\ c # s /\ b # h
          /\ engine[s].hash = engine[s].value /\ engine[h].hash = engine[h].value
      BY <1>t, <1>6, <2>1, <2>2, QuietKeys DEF Foreign
    <2>4. CASE c # h /\ b # s
      <3>1. InstanceId[h] # engine[s].by /\ InstanceId[s] # engine[h].by
        BY <1>t, <1>1, <2>1, <2>2, <2>4
      <3>2. /\ \/ engine[h].by > engine[s].by
               \/ engine[h].by = engine[s].by /\ engine[h].hash >= engine[s].value
            /\ \/ engine[s].by > engine[h].by
               \/ engine[s].by = engine[h].by /\ engine[s].hash >= engine[h].value
        BY <1>t, <1>3, <1>6, <3>1, QuietKeys
      <3> QED
        BY <1>t, <2>3, <3>2
    <2>5. CASE c = h /\ b = s
      <3>1. engine[h].hash >= engine[s].value /\ engine[s].hash >= engine[h].value
        BY <1>t, <1>3, <2>1, <2>2, <2>5, QuietKeys
      <3> QED
        BY <1>t, <2>3, <3>1
    <2>6. CASE c # h /\ b = s
      BY <1>3, <2>1, <2>2, <2>3, <2>6, ThirdHost
    <2>7. CASE c = h /\ b # s
      BY <1>3, <1>t, <2>1, <2>2, <2>3, <2>7, ThirdHost
    <2> QED
      BY <2>4, <2>5, <2>6, <2>7
  <1> QED
    BY <1>4, <1>5, <1>6

(* Once nothing is on its way, every host holds what the senders hold, if  *)
(* no payload was lost or refused and no host stopped. *)
THEOREM HostsAgree ==
    ASSUME DistinctIdentities
    PROVE  Spec => []Agreement
  <1>1. TypeOK /\ KeyInv => Agreement
    BY QuietAgree DEF KeyInv, Agreement
  <1>2. KeyInv /\ TypeOK /\ TypeOK' /\ [Next]_vars => KeyInv'
    BY StepKeys
  <1> QED
    BY <1>1, <1>2, TypeCorrect, InitKeys, PTL DEF Spec
=============================================================================
