------------------------ MODULE CoordinatorLink_proofs ------------------------
(***************************************************************************)
(* Proofs about the worker's traffic with the coordinator, for any         *)
(* coordinators, playlists, definitions, notices, attempts and budgets.    *)
(***************************************************************************)
EXTENDS CoordinatorLink, TLAPS

(* The type of each record, by name. *)
Addresses == Urls \union {NoUrl}

AllTexts == Texts \union {NoText}

Clients ==
    [url : Addresses, held : SUBSET Hashes, refused : SUBSET Hashes, reason : AllTexts,
     raised : AllTexts, mismatch : AllTexts, aged : BOOLEAN]

Outcomes == {"none", "not-configured", "accepted", "schema-refused", "conflict", "unreachable"}

Posts ==
    [kind : {"none", "definition", "observation"}, hash : SUBSET Hashes,
     attempts : 0..MaxAttempts, outcome : Outcomes]

Watchers == [seen : Addresses, url : Addresses]

WorkerPoints == {"starting", "drain", "observe", "sweep", "between", "watch"}

Workers ==
    [at : WorkerPoints, back : {"drain", "between"}, event : SUBSET Hashes,
     todo : SUBSET Playlists, requested : Nat, owed : BOOLEAN]

Sweeps == [requested : Nat, completed : Nat, due : BOOLEAN]

Histories == [excused : SUBSET Hashes, absent : SUBSET Hashes, missed : BOOLEAN]

(* TypeOK in these names. *)
Typed ==
    /\ client \in Clients
    /\ post \in Posts
    /\ InFlight => post.attempts < MaxAttempts
    /\ statusFile \in AllTexts
    /\ store \in [Urls -> SUBSET Hashes]
    /\ left \in [Bounded -> Nat]
    /\ config \in Addresses
    /\ watcher \in Watchers
    /\ content \in [Playlists -> Hashes]
    /\ events \in Seq(Playlists)
    /\ worker \in Workers
    /\ sweep \in Sweeps
    /\ web \in {"idle", "cleared"}
    /\ history \in Histories

LEMMA TypedIsTypeOK == Typed <=> TypeOK
BY DEF Typed, TypeOK, Addresses, AllTexts, Clients, Outcomes, Posts, Watchers, WorkerPoints,
       Workers, Sweeps, Histories
-----------------------------------------------------------------------------
LEMMA SpendType ==
  ASSUME left \in [Bounded -> Nat], NEW what \in Bounded, Spend(what)
  PROVE  left' \in [Bounded -> Nat]
BY DEF Spend

LEMMA NoPostType == NoPost \in Posts
BY ClientAssumption DEF NoPost, Posts, Outcomes

LEMMA PostingType ==
  ASSUME NEW kind \in {"definition", "observation"}, NEW hashes \in SUBSET Hashes
  PROVE  /\ Posting(kind, hashes) \in Posts
         /\ Posting(kind, hashes).attempts < MaxAttempts
BY ClientAssumption DEF Posting, Posts, Outcomes

LEMMA GotoType ==
  ASSUME worker \in Workers, NEW point \in WorkerPoints, Goto(point)
  PROVE  worker' \in Workers
BY DEF Goto, Workers

LEMMA InitTyped == Init => Typed
<1> SUFFICES ASSUME Init PROVE Typed
  OBVIOUS
<1>1. client \in Clients
  BY DEF Init, ClientInit, FreshClient, Clients, Addresses, AllTexts
<1>2. worker \in Workers
  BY DEF Init, FreshWorker, Workers, WorkerPoints
<1>3. history \in Histories /\ sweep \in Sweeps
  BY DEF Init, NothingHappened, Histories, FreshSweep, Sweeps
<1>4. post \in Posts /\ ~InFlight
  BY NoPostType DEF Init, ClientInit, InFlight, NoPost
<1>5. watcher \in Watchers
  BY DEF Init, Watchers, Addresses
<1> QED
  BY <1>1, <1>2, <1>3, <1>4, <1>5, ClientAssumption
  DEF Init, ClientInit, Typed, Addresses, AllTexts

(* One attempt of a post. *)
LEMMA AttemptTyped ==
  ASSUME Typed, Attempt
  PROVE  /\ post' \in Posts
         /\ InFlight' => post'.attempts < MaxAttempts
         /\ store' \in [Urls -> SUBSET Hashes]
         /\ left' \in [Bounded -> Nat]
         /\ UNCHANGED <<client, centre, statusFile>>
         /\ post'.kind = post.kind
         /\ post'.hash = post.hash
         /\ post.kind # "none"
         /\ post.outcome = "none"
<1> USE DEF Typed
<1> post.kind # "none" /\ post.outcome = "none"
  BY DEF Attempt, NotConfigured, Accepted, Rejected, Unanswered, InFlight
<1>1. CASE NotConfigured
  BY <1>1 DEF NotConfigured, Concludes, Posts, Outcomes, InFlight
<1>0. client.url # NoUrl => client.url \in Urls
  BY DEF Clients, Addresses
<1>2. ASSUME client.url # NoUrl, Reaches PROVE store' \in [Urls -> SUBSET Hashes]
  BY <1>0, <1>2 DEF Reaches, Posts
<1>3. CASE Accepted
  <2>1. store' \in [Urls -> SUBSET Hashes]
    BY <1>2, <1>3 DEF Accepted
  <2> QED  BY <1>3, <2>1 DEF Accepted, Concludes, Posts, Outcomes, InFlight
<1>4. CASE Rejected
  <2>1. left' \in [Bounded -> Nat]
    BY <1>4, SpendType DEF Rejected, Bounded
  <2> QED  BY <1>4, <2>1 DEF Rejected, Concludes, Posts, Outcomes, InFlight
<1>5. CASE Unanswered
  <2>1. left' \in [Bounded -> Nat]
    BY <1>5, SpendType DEF Unanswered, Bounded
  <2>2. store' \in [Urls -> SUBSET Hashes]
    BY <1>2, <1>5 DEF Unanswered
  <2>3. post.attempts \in 0..MaxAttempts /\ post.attempts < MaxAttempts
    BY <1>5 DEF Unanswered, Posts
  <2>4. post' \in Posts /\ (InFlight' => post'.attempts < MaxAttempts)
    <3> DEFINE next == post.attempts + 1
               outcome == IF next < MaxAttempts THEN post.outcome ELSE "unreachable"
    <3>1. next \in 0..MaxAttempts
      BY <2>3, ClientAssumption
    <3>2. outcome \in Outcomes /\ (outcome = "none" => next < MaxAttempts)
      BY DEF Posts, Outcomes
    <3>3. post' = [post EXCEPT !.attempts = next, !.outcome = outcome]
      BY <1>5 DEF Unanswered
    <3> HIDE DEF next, outcome
    <3> QED  BY <3>1, <3>2, <3>3 DEF Posts, InFlight
  <2>5. post'.kind = post.kind /\ post'.hash = post.hash
    BY <1>5 DEF Unanswered, Posts
  <2> QED  BY <1>5, <2>1, <2>2, <2>4, <2>5 DEF Unanswered
<1> QED  BY <1>1, <1>3, <1>4, <1>5 DEF Attempt

LEMMA PublishStatusType ==
  ASSUME left \in [Bounded -> Nat], statusFile \in AllTexts, NEW reason \in AllTexts,
         PublishStatus(reason)
  PROVE  left' \in [Bounded -> Nat] /\ statusFile' \in AllTexts
<1> "failures" \in Bounded
  BY DEF Bounded
<1> QED  BY SpendType DEF PublishStatus

(* The end of a post. *)
LEMMA EndTyped ==
  ASSUME Typed, DefinitionEnds \/ ObservationEnds
  PROVE  /\ client' \in Clients
         /\ post' = NoPost
         /\ left' \in [Bounded -> Nat]
         /\ statusFile' \in AllTexts
         /\ UNCHANGED store
<1> USE DEF Typed
<1>1. CASE DefinitionEnds
  <2>1. client.reason \in AllTexts
    BY DEF Clients
  <2>2. client' \in Clients
    BY <1>1 DEF DefinitionEnds, Clients, Posts
  <2> QED  BY <1>1, <2>1, <2>2, PublishStatusType DEF DefinitionEnds
<1>2. ASSUME NEW reason \in AllTexts, NEW mismatch \in AllTexts, NEW aged \in BOOLEAN,
             Told(reason, mismatch, aged)
      PROVE  /\ client' \in Clients
             /\ left' \in [Bounded -> Nat]
             /\ statusFile' \in AllTexts
  <2>1. client' \in Clients
    BY <1>2 DEF Told, Clients
  <2> QED  BY <1>2, <2>1, PublishStatusType DEF Told
<1>3. CASE ObservationEnds
  <2>1. client.reason \in AllTexts /\ client.mismatch \in AllTexts /\ client.aged \in BOOLEAN
    BY DEF Clients
  <2>2. /\ AfterFailure \in AllTexts
        /\ \A verdict \in Verdicts : AfterVerdict(verdict) \in AllTexts
        /\ NoText \in AllTexts
        /\ Texts \subseteq AllTexts
    BY <2>1 DEF AfterFailure, AfterVerdict, Verdicts, AllTexts
  <2>3. (client.aged /\ AfterFailure # NoText) \in BOOLEAN
    OBVIOUS
  <2> QED  BY <1>2, <1>3, <2>1, <2>2, <2>3 DEF ObservationEnds
<1> QED  BY <1>1, <1>3

(* One step of the specification, whole. *)
LEMMA OfferType ==
  ASSUME Typed, NEW name \in Playlists, NEW then \in Workers, Offer(name, then)
  PROVE  /\ worker' = then
         /\ post' \in Posts
         /\ InFlight' => post'.attempts < MaxAttempts
         /\ content[name] \in Hashes
<1>1. content[name] \in Hashes
  BY DEF Typed
<1>2. Posting("definition", {content[name]}) \in Posts
      /\ Posting("definition", {content[name]}).attempts < MaxAttempts
  BY <1>1, PostingType
<1>3. post' = NoPost \/ post' = Posting("definition", {content[name]})
  BY DEF Offer
<1>4. CASE post' = NoPost
  BY <1>1, <1>4, NoPostType DEF Offer, InFlight, NoPost
<1>5. CASE post' = Posting("definition", {content[name]})
  BY <1>1, <1>2, <1>5 DEF Offer
<1> QED  BY <1>3, <1>4, <1>5

LEMMA LostType ==
  ASSUME history \in Histories, NEW hashes \in SUBSET Hashes, Lost(hashes)
  PROVE  history' \in Histories
BY DEF Lost, Histories

LEMMA WorkerTyped ==
  ASSUME Typed, Worker
  PROVE  Typed'
<1> USE DEF Typed
<1>1. CASE TakeEvent
  <2>1. events' \in Seq(Playlists) /\ Head(events) \in Playlists
    BY <1>1 DEF TakeEvent
  <2>2. left' \in [Bounded -> Nat]
    BY <1>1, SpendType DEF TakeEvent, Bounded
  <2>3. CASE Offer(Head(events), [worker EXCEPT !.at = "observe", !.back = worker.at,
                                                !.event = {content[Head(events)]}])
    <3> DEFINE hash == {content[Head(events)]}
               from == worker.at
               then == [worker EXCEPT !.at = "observe", !.back = from, !.event = hash]
    <3>1. hash \in SUBSET Hashes /\ from \in {"drain", "between"}
      BY <1>1, <2>1 DEF TakeEvent
    <3>2. then \in Workers
      <4> HIDE DEF hash, from
      <4> QED  BY <3>1 DEF Workers, WorkerPoints
    <3> QED  BY <1>1, <2>1, <2>2, <2>3, <3>2, OfferType DEF TakeEvent, InFlight
  <2>4. CASE UNCHANGED <<worker, post>>
    BY <1>1, <2>1, <2>2, <2>4 DEF TakeEvent, InFlight
  <2> QED  BY <1>1, <2>3, <2>4 DEF TakeEvent
<1>2. CASE Observe
  <2>1. worker.event \in SUBSET Hashes /\ worker.back \in {"drain", "between"}
    BY DEF Workers
  <2>2. post' \in Posts /\ post'.attempts < MaxAttempts
    BY <1>2, <2>1, PostingType DEF Observe
  <2>3. worker' \in Workers
    BY <1>2, <2>1 DEF Observe, Workers, WorkerPoints
  <2> QED  BY <1>2, <2>2, <2>3 DEF Observe
<1>3. CASE PostStep
  <2>1. CASE DefinitionEnds \/ ObservationEnds
    <3>1. UNCHANGED history
      BY <1>3, <2>1 DEF PostStep, Attempt, NotConfigured, Accepted, Rejected, Unanswered,
         DefinitionEnds, ObservationEnds
    <3>2. post' \in Posts /\ ~InFlight'
      <4>1. post' = NoPost
        BY <2>1, EndTyped
      <4>2. NoPost.kind = "none"
        BY DEF NoPost
      <4> QED  BY <4>1, <4>2, NoPostType DEF InFlight
    <3> QED  BY <1>3, <2>1, <3>1, <3>2, EndTyped DEF PostStep
  <2>2. CASE Attempt
    <3>1. /\ ~(DefinitionEnds \/ ObservationEnds)
          /\ post.hash \in SUBSET Hashes
      BY <2>2, AttemptTyped DEF DefinitionEnds, ObservationEnds, InFlight, Posts
    <3>2. \/ UNCHANGED history
          \/ history' = [history EXCEPT !.absent = @ \ post.hash]
          \/ Lost(post.hash)
      BY <1>3, <3>1 DEF PostStep
    <3>3. history' \in Histories
      BY <3>1, <3>2, LostType DEF Histories
    <3> QED  BY <1>3, <2>2, <3>3, AttemptTyped DEF PostStep
  <2> QED  BY <1>3, <2>1, <2>2 DEF PostStep
<1>4. CASE SweepBegins
  <2>1. left' \in [Bounded -> Nat]
    BY <1>4, SpendType DEF SweepBegins, Bounded
  <2>2. worker' \in Workers
    <3> DEFINE owed == sweep.requested # sweep.completed
    <3>1. owed \in BOOLEAN /\ sweep.requested \in Nat
      BY DEF Sweeps
    <3>2. \/ worker' = [worker EXCEPT !.at = "sweep", !.todo = Playlists,
                                !.requested = sweep.requested, !.owed = owed]
          \/ Goto("watch")
      BY <1>4 DEF SweepBegins
    <3> HIDE DEF owed
    <3> QED  BY <3>1, <3>2 DEF Goto, Workers, WorkerPoints
  <2> QED  BY <1>4, <2>1, <2>2 DEF SweepBegins, InFlight
<1>5. CASE SweepOne
  <2>1. PICK name \in worker.todo :
            Offer(name, [worker EXCEPT !.at = "between", !.todo = @ \ {name}])
    BY <1>5 DEF SweepOne
  <2>2. name \in Playlists
    BY DEF Workers
  <2>3. [worker EXCEPT !.at = "between", !.todo = @ \ {name}] \in Workers
    BY DEF Workers, WorkerPoints
  <2>4. worker' \in Workers /\ post' \in Posts /\ (InFlight' => post'.attempts < MaxAttempts)
    BY <2>1, <2>2, <2>3, OfferType
  <2> QED  BY <1>5, <2>4 DEF SweepOne
<1>6. CASE EventsDrained
  <2>1. worker' \in Workers
    BY <1>6, GotoType DEF EventsDrained, WorkerPoints
  <2> QED  BY <1>6, <2>1 DEF EventsDrained, clientVars, InFlight
<1>7. CASE SweepEnds
  <2>1. worker' \in Workers
    BY <1>7, GotoType DEF SweepEnds, WorkerPoints
  <2>2. sweep' \in Sweeps
    BY <1>7 DEF SweepEnds, Sweeps, Workers
  <2> QED  BY <1>7, <2>1, <2>2 DEF SweepEnds, clientVars, InFlight
<1>8. CASE Watch
  <2>1. worker' \in Workers
    BY <1>8, GotoType DEF Watch, WorkerPoints
  <2>2. CASE UNCHANGED <<client, statusFile, watcher, history>>
    BY <1>8, <2>1, <2>2 DEF Watch, InFlight
  <2>3. CASE /\ watcher' = [seen |-> config, url |-> config]
             /\ SetsUrl(config)
             /\ Lost(Hashes)
    <3>1. client' \in Clients /\ statusFile' \in AllTexts
      BY <2>3 DEF SetsUrl, Clients
    <3>2. watcher' \in Watchers /\ history' \in Histories
      BY <2>3, LostType DEF Watchers
    <3> QED  BY <1>8, <2>1, <3>1, <3>2 DEF Watch, InFlight
  <2> QED  BY <1>8, <2>2, <2>3 DEF Watch
<1>9. CASE WatcherStarts
  <2>1. worker' \in Workers
    BY <1>9, GotoType DEF WatcherStarts, WorkerPoints
  <2> QED  BY <1>9, <2>1 DEF WatcherStarts, clientVars, InFlight, Watchers
<1> QED
  BY <1>1, <1>2, <1>3, <1>4, <1>5, <1>6, <1>7, <1>8, <1>9 DEF Worker

LEMMA EnvironmentTyped ==
  ASSUME Typed, Environment \/ RescanTimer \/ RequestSweep
  PROVE  Typed'
<1> USE DEF Typed
<1>1. CASE Callback
  <2>1. left' \in [Bounded -> Nat]
    BY <1>1, SpendType DEF Callback, Bounded
  <2> QED  BY <1>1, <2>1 DEF Callback, InFlight
<1>2. CASE Republish
  <2>1. left' \in [Bounded -> Nat]
    BY <1>2, SpendType DEF Republish, Bounded
  <2>2. client' \in Clients
    BY <1>2 DEF Republish, ClearsHeld, Clients
  <2>3. history' \in Histories
    <3> DEFINE lost == IF /\ client.url # NoUrl /\ post.kind = "definition"
                          /\ post.outcome = "accepted"
                       THEN post.hash \ store[client.url] ELSE {}
    <3>1. lost \in SUBSET Hashes
      BY DEF Posts
    <3>2. history' = [history EXCEPT !.excused = lost]
      BY <1>2 DEF Republish
    <3> HIDE DEF lost
    <3> QED  BY <3>1, <3>2 DEF Histories
  <2> QED  BY <1>2, <2>1, <2>2, <2>3 DEF Republish, InFlight
<1>3. CASE Edit
  <2>1. left' \in [Bounded -> Nat]
    BY <1>3, SpendType DEF Edit, Bounded
  <2>2. content' \in [Playlists -> Hashes] /\ history' \in Histories
    <3>1. PICK name \in Playlists, hash \in Hashes :
            /\ content' = [content EXCEPT ![name] = hash]
            /\ history' = [history EXCEPT !.excused = @ \union {hash}]
      BY <1>3 DEF Edit
    <3>2. content' \in [Playlists -> Hashes]
      BY <3>1
    <3>3. history' \in Histories
      BY <3>1 DEF Histories
    <3> QED  BY <3>2, <3>3
  <2> QED  BY <1>3, <2>1, <2>2 DEF Edit, InFlight
<1>4. CASE Reconfigure
  <2>1. left' \in [Bounded -> Nat]
    BY <1>4, SpendType DEF Reconfigure, Bounded
  <2>2. config' \in Addresses
    BY <1>4 DEF Reconfigure, Addresses
  <2>3. history' \in Histories
    <3> DEFINE missed == At("starting")
    <3>1. missed \in BOOLEAN
      BY DEF At
    <3>2. history' = [history EXCEPT !.missed = missed]
      BY <1>4 DEF Reconfigure
    <3> HIDE DEF missed
    <3> QED  BY <3>1, <3>2 DEF Histories
  <2> QED  BY <1>4, <2>1, <2>2, <2>3 DEF Reconfigure, InFlight
<1>5. CASE CoordinatorForgets
  <2>1. left' \in [Bounded -> Nat]
    BY <1>5, SpendType DEF CoordinatorForgets, Bounded
  <2>2. store' \in [Urls -> SUBSET Hashes] /\ history' \in Histories
    BY <1>5, LostType DEF CoordinatorForgets
  <2> QED  BY <1>5, <2>1, <2>2 DEF CoordinatorForgets, InFlight
<1>6. CASE Restart
  <2>1. left' \in [Bounded -> Nat]
    BY <1>6, SpendType DEF Restart, Bounded
  <2>2. client' \in Clients
    BY <1>6 DEF Restart, ClientRestarts, FreshClient, Clients, AllTexts
  <2>3. worker' \in Workers
    BY <1>6 DEF Restart, FreshWorker, Workers, WorkerPoints
  <2>4. history' \in Histories /\ sweep' \in Sweeps
    BY <1>6 DEF Restart, NothingHappened, Histories, FreshSweep, Sweeps
  <2>5. post' \in Posts /\ ~InFlight'
    BY <1>6, NoPostType DEF Restart, ClientRestarts, InFlight, NoPost
  <2> QED  BY <1>6, <2>1, <2>2, <2>3, <2>4, <2>5 DEF Restart, ClientRestarts
<1>7. CASE Aging
  <2>1. left' \in [Bounded -> Nat]
    BY <1>7, SpendType DEF Aging, VerdictAges, Bounded
  <2>2. client' \in Clients
    BY <1>7 DEF Aging, VerdictAges, Clients
  <2> QED  BY <1>7, <2>1, <2>2 DEF Aging, VerdictAges, linkVars, InFlight
<1>8. CASE RescanTimer
  BY <1>8 DEF RescanTimer, clientVars, InFlight, Sweeps
<1>9. CASE RequestSweep
  BY <1>9 DEF RequestSweep, clientVars, InFlight, Sweeps
<1> QED
  BY <1>1, <1>2, <1>3, <1>4, <1>5, <1>6, <1>7, <1>8, <1>9 DEF Environment

(* Every step keeps the types. *)
LEMMA NextTyped == Typed /\ [Next]_vars => Typed'
<1> SUFFICES ASSUME Typed, [Next]_vars PROVE Typed'
  OBVIOUS
<1>1. CASE UNCHANGED vars
  BY <1>1 DEF Typed, vars, clientVars, linkVars, InFlight
<1> QED  BY <1>1, WorkerTyped, EnvironmentTyped DEF Next

LEMMA AlwaysTyped == Spec => []Typed
<1> QED  BY InitTyped, NextTyped, PTL DEF Spec

(* Every variable keeps its type; a post under way has attempts left       *)
(* (coordinator_client.cpp:606-660).                                       *)
THEOREM TypeCorrect == Spec => []TypeOK
BY AlwaysTyped, TypedIsTypeOK, PTL
-----------------------------------------------------------------------------
(* The notices: what is shown is what the client believes it raised, which *)
(* is inductive as it stands.                                              *)
LEMMA ToldIsShown ==
  ASSUME NoticesAreTrue, NEW reason, NEW mismatch, NEW aged, Told(reason, mismatch, aged),
         client \in Clients
  PROVE  NoticesAreTrue'
<1>1. /\ client'.raised = reason /\ client'.reason = reason
      /\ client'.mismatch = mismatch
  BY DEF Told, Clients
<1>2. centre' = Replaced(Replaced(centre, "refused", client.raised, reason),
                         "mismatch", client.mismatch, mismatch)
  BY DEF Told
<1>3. \A old, new : /\ Notice("refused", old) \in SUBSET {<<"refused", old>>}
                    /\ Notice("mismatch", new) \in SUBSET {<<"mismatch", new>>}
                    /\ Notice("refused", old) \intersect Notice("mismatch", new) = {}
  BY DEF Notice
<1>4. centre' = Notice("refused", reason) \union Notice("mismatch", mismatch)
  BY <1>2, <1>3 DEF Replaced, NoticesAreTrue
<1> QED  BY <1>1, <1>4 DEF NoticesAreTrue

LEMMA NoticesStep == Typed /\ NoticesAreTrue /\ [Next]_vars => NoticesAreTrue'
<1> SUFFICES ASSUME Typed, NoticesAreTrue, [Next]_vars PROVE NoticesAreTrue'
  OBVIOUS
<1> client \in Clients
  BY DEF Typed
<1>1. ASSUME UNCHANGED <<client, centre>> PROVE NoticesAreTrue'
  BY <1>1 DEF NoticesAreTrue
<1>2. ASSUME UNCHANGED centre, client'.raised = client.raised, client'.reason = client.reason,
             client'.mismatch = client.mismatch
      PROVE  NoticesAreTrue'
  BY <1>2 DEF NoticesAreTrue
<1>3. CASE PostStep
  <2>1. CASE Attempt
    BY <1>1, <2>1, AttemptTyped
  <2>2. CASE DefinitionEnds
    <3>1. client'.raised = client.raised /\ client'.reason = client.reason
          /\ client'.mismatch = client.mismatch
      BY <2>2 DEF DefinitionEnds, Clients
    <3> QED  BY <1>2, <2>2, <3>1 DEF DefinitionEnds
  <2>3. CASE ObservationEnds
    BY <2>3, ToldIsShown DEF ObservationEnds
  <2> QED  BY <1>3, <2>1, <2>2, <2>3 DEF PostStep
<1>4. CASE Watch
  <2>1. client'.raised = client.raised /\ client'.reason = client.reason
        /\ client'.mismatch = client.mismatch
    BY <1>4 DEF Watch, SetsUrl, Clients
  <2> QED  BY <1>2, <1>4, <2>1 DEF Watch
<1>5. CASE Republish
  <2>1. client'.raised = client.raised /\ client'.reason = client.reason
        /\ client'.mismatch = client.mismatch
    BY <1>5 DEF Republish, ClearsHeld, Clients
  <2> QED  BY <1>2, <1>5, <2>1 DEF Republish
<1>6. CASE Aging
  <2>1. client'.raised = client.raised /\ client'.reason = client.reason
        /\ client'.mismatch = client.mismatch
    BY <1>6 DEF Aging, VerdictAges, Clients
  <2> QED  BY <1>2, <1>6, <2>1 DEF Aging, VerdictAges
<1>7. CASE Restart
  <2>1. /\ centre' = Notice("refused", statusFile)
        /\ client'.raised = statusFile /\ client'.reason = statusFile
        /\ client'.mismatch = NoText
    BY <1>7 DEF Restart, ClientRestarts, FreshClient
  <2> QED  BY <2>1 DEF NoticesAreTrue, Notice
<1>8. CASE TakeEvent \/ Observe \/ SweepBegins \/ SweepOne \/ EventsDrained \/ SweepEnds
           \/ WatcherStarts \/ Callback \/ Edit \/ Reconfigure \/ CoordinatorForgets
           \/ RescanTimer \/ RequestSweep
  BY <1>1, <1>8 DEF TakeEvent, Observe, SweepBegins, SweepOne, EventsDrained, SweepEnds,
     WatcherStarts, Callback, Edit, Reconfigure, CoordinatorForgets, RescanTimer, RequestSweep,
     clientVars
<1>9. CASE UNCHANGED vars
  BY <1>1, <1>9 DEF vars, clientVars
<1> QED
  BY <1>3, <1>4, <1>5, <1>6, <1>7, <1>8, <1>9 DEF Next, Worker, Environment

(* What FPP shows is one notice of each kind at most, with the text the    *)
(* client raised last and its status reports, whatever was raised, aged    *)
(* out, replaced or restored (coordinator_client.cpp:243-268, 395-449).    *)
THEOREM NoticesStayTrue == Spec => []NoticesAreTrue
<1>1. Init => NoticesAreTrue
  BY DEF Init, ClientInit, FreshClient, NoticesAreTrue, Notice
<1> QED  BY <1>1, AlwaysTyped, NoticesStep, PTL DEF Spec
-----------------------------------------------------------------------------
(* Which points of the worker a post is under way at. *)
Placed ==
    /\ post.kind = "observation" => worker.at \in {"drain", "between"}
    /\ post.kind = "definition" => worker.at \in {"observe", "between"}
    /\ post.kind = "definition" /\ worker.at = "observe" => worker.event = post.hash

LEMMA OfferKind ==
  ASSUME NEW name, NEW then, Offer(name, then)
  PROVE  /\ worker' = then
         /\ \/ post' = NoPost /\ post'.kind = "none" /\ Known(content[name])
            \/ /\ post'.kind = "definition" /\ post'.outcome = "none"
               /\ post'.hash = {content[name]}
BY DEF Offer, NoPost, Posting

(* The event that is taken is the one whose definition is offered. *)
LEMMA TakeOffers ==
  ASSUME Typed, TakeEvent
  PROVE  \/ UNCHANGED <<worker, post>>
         \/ \E name \in Playlists :
               /\ Offer(name, [worker EXCEPT !.at = "observe", !.back = worker.at,
                                             !.event = {content[name]}])
               /\ worker'.at = "observe"
               /\ worker'.event = {content[name]}
               /\ worker'.back = worker.at
               /\ worker'.todo = worker.todo
               /\ worker'.owed = worker.owed
               /\ worker'.requested = worker.requested
<1>1. Head(events) \in Playlists
  BY DEF TakeEvent, Typed
<1>2. CASE UNCHANGED <<worker, post>>
  BY <1>2
<1>3. CASE Offer(Head(events), [worker EXCEPT !.at = "observe", !.back = worker.at,
                                              !.event = {content[Head(events)]}])
  <2> DEFINE hash == {content[Head(events)]}
  <2>1. worker' = [worker EXCEPT !.at = "observe", !.back = worker.at, !.event = hash]
    BY <1>3 DEF Offer
  <2>2. /\ worker'.at = "observe" /\ worker'.event = hash
        /\ worker'.back = worker.at /\ worker'.todo = worker.todo
        /\ worker'.owed = worker.owed /\ worker'.requested = worker.requested
    <3> HIDE DEF hash
    <3> QED  BY <2>1 DEF Typed, Workers
  <2> QED  BY <1>1, <1>3, <2>2
<1> QED  BY <1>2, <1>3 DEF TakeEvent

LEMMA SweepOffers ==
  ASSUME Typed, SweepOne
  PROVE  \E name \in worker.todo :
             /\ name \in Playlists
             /\ Offer(name, [worker EXCEPT !.at = "between", !.todo = @ \ {name}])
             /\ worker'.at = "between"
             /\ worker'.todo = worker.todo \ {name}
             /\ worker'.owed = worker.owed
             /\ worker'.requested = worker.requested
             /\ worker'.event = worker.event
<1>1. PICK name \in worker.todo :
          Offer(name, [worker EXCEPT !.at = "between", !.todo = @ \ {name}])
  BY DEF SweepOne
<1>2. worker' = [worker EXCEPT !.at = "between", !.todo = @ \ {name}]
  BY <1>1 DEF Offer
<1>3. name \in Playlists
  BY DEF Typed, Workers
<1> QED  BY <1>1, <1>2, <1>3 DEF Typed, Workers

(* A sweep that begins has every playlist to do, for the newest request. *)
LEMMA SweepStarts ==
  ASSUME Typed, SweepBegins
  PROVE  \/ worker'.at = "watch" /\ worker'.requested = worker.requested
         \/ /\ worker'.at = "sweep" /\ worker'.todo = Playlists
            /\ worker'.requested = sweep.requested
<1> DEFINE owed == sweep.requested # sweep.completed
<1>1. \/ worker' = [worker EXCEPT !.at = "sweep", !.todo = Playlists,
                            !.requested = sweep.requested, !.owed = owed]
      \/ Goto("watch")
  BY DEF SweepBegins
<1> HIDE DEF owed
<1> QED  BY <1>1 DEF Goto, Typed, Workers

LEMMA PlacedStep == Typed /\ Placed /\ [Next]_vars => Placed'
<1> SUFFICES ASSUME Typed, Placed, [Next]_vars PROVE Placed'
  OBVIOUS
<1>1. CASE TakeEvent
  <2>1. post.kind = "none"
    BY <1>1 DEF TakeEvent, Idle
  <2>2. CASE UNCHANGED <<worker, post>>
    BY <2>1, <2>2 DEF Placed
  <2>3. CASE ~UNCHANGED <<worker, post>>
    <3>1. /\ worker'.at = "observe"
          /\ \/ post'.kind = "none"
             \/ post'.kind = "definition" /\ post'.hash = worker'.event
      BY <1>1, <2>3, TakeOffers, OfferKind
    <3> QED  BY <3>1 DEF Placed
  <2> QED  BY <2>2, <2>3
<1>2. CASE Observe
  <2>1. worker'.at = worker.back /\ worker.back \in {"drain", "between"}
    BY <1>2 DEF Observe, Typed, Workers
  <2>2. post'.kind = "observation"
    BY <1>2 DEF Observe, Posting
  <2> QED  BY <2>1, <2>2 DEF Placed
<1>3. CASE PostStep
  <2>1. CASE Attempt
    BY <1>3, <2>1, AttemptTyped DEF PostStep, Placed
  <2>2. CASE DefinitionEnds \/ ObservationEnds
    BY <1>3, <2>2, EndTyped DEF PostStep, Placed, NoPost
  <2> QED  BY <1>3, <2>1, <2>2 DEF PostStep
<1>4. CASE SweepOne
  <2>1. worker'.at = "between" /\ post'.kind \in {"none", "definition"}
    BY <1>4, SweepOffers, OfferKind
  <2> QED  BY <2>1 DEF Placed
<1>5. CASE Restart
  BY <1>5 DEF Restart, ClientRestarts, NoPost, Placed
<1>6. CASE SweepBegins \/ EventsDrained \/ SweepEnds
  <2>1. post'.kind = "none"
    BY <1>6 DEF SweepBegins, EventsDrained, SweepEnds, Idle, clientVars
  <2> QED  BY <2>1 DEF Placed
<1>7. CASE Watch \/ WatcherStarts
  <2>1. post'.kind = "none"
    BY <1>7 DEF Watch, WatcherStarts, clientVars, At, Placed, Typed, Posts
  <2> QED  BY <2>1 DEF Placed
<1>8. CASE Callback \/ Republish \/ Edit \/ Reconfigure \/ CoordinatorForgets \/ Aging
           \/ RescanTimer \/ RequestSweep
  BY <1>8 DEF Callback, Republish, Edit, Reconfigure, CoordinatorForgets, Aging, VerdictAges,
     RescanTimer, RequestSweep, clientVars, linkVars, Placed
<1>9. CASE UNCHANGED vars
  BY <1>9 DEF vars, clientVars, linkVars, Placed
<1> QED
  BY <1>1, <1>2, <1>3, <1>4, <1>5, <1>6, <1>7, <1>8, <1>9 DEF Next, Worker, Environment

LEMMA AlwaysPlaced == Spec => []Placed
<1>1. Init => Placed
  BY DEF Init, ClientInit, NoPost, Placed
<1> QED  BY <1>1, AlwaysTyped, PlacedStep, PTL DEF Spec
-----------------------------------------------------------------------------
(* The definitions the client's coordinator has, and those with an excuse  *)
(* for one property or for the other.                                      *)
Has == store[client.url]

(* What is held, and what was accepted, is there or excused. *)
HeldIsStored ==
    /\ client.held \subseteq Has \union history.absent
    /\ client.held \subseteq Has \union history.excused
    /\ post.kind = "definition" /\ post.outcome # "none"
       => post.hash \subseteq Has \union history.absent
    /\ post.kind = "definition" /\ post.outcome = "accepted"
       => post.hash \subseteq Has \union history.excused /\ client.url # NoUrl

(* What an attempt does to the store and to the excuses. *)
LEMMA AttemptStores ==
  ASSUME Typed, Attempt, PostStep
  PROVE  /\ Has \subseteq Has'
         /\ \/ UNCHANGED history /\ (post.kind = "definition" => post'.outcome = "none")
            \/ /\ post'.outcome = "accepted" /\ post.kind = "definition"
               /\ post.hash \subseteq Has' /\ client.url # NoUrl
               /\ history'.excused = history.excused
               /\ history'.absent = history.absent \ post.hash
            \/ /\ post'.outcome # "accepted" /\ post.kind = "definition"
               /\ history'.excused = history.excused \union post.hash
               /\ history'.absent = history.absent \union post.hash
<1> USE DEF Typed
<1>1. ~(DefinitionEnds \/ ObservationEnds)
  BY AttemptTyped DEF DefinitionEnds, ObservationEnds, InFlight
<1>2. UNCHANGED client
  BY AttemptTyped
<1>3. ASSUME client.url # NoUrl, Reaches
      PROVE  Has \subseteq Has' /\ post.hash \subseteq Has'
  <2>1. client.url \in Urls
    BY <1>3 DEF Clients, Addresses
  <2> QED  BY <1>2, <1>3, <2>1 DEF Reaches, Has
<1>4. Has \subseteq Has'
  BY <1>2, <1>3 DEF Attempt, NotConfigured, Accepted, Rejected, Unanswered, Has
<1>5. post'.outcome = "accepted" /\ post.kind = "definition"
      => post.hash \subseteq Has' /\ client.url # NoUrl
  <2> SUFFICES ASSUME post'.outcome = "accepted", post.kind = "definition"
               PROVE  post.hash \subseteq Has' /\ client.url # NoUrl
    OBVIOUS
  <2>1. CASE Accepted
    BY <1>3, <2>1 DEF Accepted
  <2>2. CASE NotConfigured
    BY <2>2 DEF NotConfigured, Concludes, Posts
  <2>3. CASE Rejected
    BY <2>3 DEF Rejected, Concludes, Posts
  <2>4. CASE Unanswered
    <3>1. post.outcome = "none"
      BY AttemptTyped
    <3>2. post'.outcome \in {post.outcome, "unreachable"}
      BY <2>4 DEF Unanswered, Posts
    <3> QED  BY <3>1, <3>2
  <2> QED  BY <2>1, <2>2, <2>3, <2>4 DEF Attempt
<1>6. CASE post.kind # "definition" \/ post'.outcome = "none"
  BY <1>1, <1>4, <1>6 DEF PostStep
<1>7. CASE post.kind = "definition" /\ post'.outcome = "accepted"
  <2>1. history' = [history EXCEPT !.absent = @ \ post.hash]
    BY <1>1, <1>7 DEF PostStep
  <2> QED  BY <1>4, <1>5, <1>7, <2>1 DEF Histories
<1>8. CASE post.kind = "definition" /\ post'.outcome \notin {"none", "accepted"}
  <2>1. Lost(post.hash)
    BY <1>1, <1>8 DEF PostStep
  <2> QED  BY <1>4, <1>8, <2>1 DEF Lost, Histories
<1> QED  BY <1>6, <1>7, <1>8

(* The end of a post: what it was about is held, refused, or neither. *)
LEMMA EndStores ==
  ASSUME Typed, DefinitionEnds \/ ObservationEnds, PostStep
  PROVE  /\ UNCHANGED <<store, history>>
         /\ client'.url = client.url
         /\ post'.kind = "none"
         /\ client.held \subseteq client'.held
         /\ client.refused \subseteq client'.refused
         /\ \/ client'.held = client.held
            \/ /\ post.kind = "definition" /\ post.outcome = "accepted"
               /\ client'.held = client.held \union post.hash
<1> USE DEF Typed
<1>1. UNCHANGED <<store, history>> /\ post' = NoPost
  <2>1. ~Attempt
    BY AttemptTyped DEF DefinitionEnds, ObservationEnds, InFlight
  <2> QED  BY <2>1, EndTyped DEF PostStep
<1>2. post'.kind = "none"
  BY <1>1 DEF NoPost
<1>3. CASE DefinitionEnds
  <2>1. /\ client'.url = client.url
        /\ client'.held = IF post.outcome = "accepted" THEN client.held \union post.hash
                                                       ELSE client.held
        /\ client.refused \subseteq client'.refused
    BY <1>3 DEF DefinitionEnds, Clients
  <2> QED  BY <1>1, <1>2, <1>3, <2>1 DEF DefinitionEnds
<1>4. CASE ObservationEnds
  <2>1. /\ client'.url = client.url /\ client'.held = client.held
        /\ client'.refused = client.refused
    BY <1>4 DEF ObservationEnds, Told, Clients
  <2> QED  BY <1>1, <1>2, <2>1
<1> QED  BY <1>3, <1>4

(* Everything is excused after a change of the address or of the           *)
(* coordinator's store.                                                    *)
LEMMA WipeExcuses ==
  ASSUME Typed, CoordinatorForgets \/ (Watch /\ config # watcher.seen)
  PROVE  /\ history'.absent = Hashes /\ history'.excused = Hashes
         /\ client'.held = client.held /\ client'.refused = client.refused
         /\ UNCHANGED <<post, content, events, sweep, web>>
         /\ worker'.event = worker.event
<1> USE DEF Typed
<1>1. Lost(Hashes)
  BY DEF CoordinatorForgets, Watch
<1>2. history'.absent = Hashes /\ history'.excused = Hashes
  BY <1>1 DEF Lost, Histories
<1>3. CASE CoordinatorForgets
  BY <1>2, <1>3 DEF CoordinatorForgets
<1>4. CASE Watch /\ config # watcher.seen
  BY <1>2, <1>4 DEF Watch, SetsUrl, Goto, Clients, Workers
<1> QED  BY <1>3, <1>4

(* A step that offers, observes or goes on leaves what is stored alone and *)
(* only adds to the excuses for a republish.                               *)
Quiet ==
    \/ TakeEvent \/ Observe \/ SweepBegins \/ SweepOne \/ EventsDrained \/ SweepEnds
    \/ WatcherStarts \/ Callback \/ Edit \/ Reconfigure \/ Aging \/ RescanTimer
    \/ RequestSweep \/ (Watch /\ config = watcher.seen) \/ UNCHANGED vars

Leaves ==
    /\ Has' = Has
    /\ client'.url = client.url
    /\ client'.held = client.held
    /\ client'.refused = client.refused
    /\ history'.absent = history.absent
    /\ history.excused \subseteq history'.excused

LEMMA QuietLeaves ==
  ASSUME Typed, Quiet
  PROVE  Leaves
<1> USE DEF Typed
<1>1. ASSUME UNCHANGED <<client, store, history>> PROVE Leaves
  BY <1>1 DEF Has, Leaves
<1>2. CASE TakeEvent \/ Observe \/ SweepBegins \/ SweepOne \/ EventsDrained \/ SweepEnds
           \/ WatcherStarts \/ Callback \/ RescanTimer \/ RequestSweep
           \/ (Watch /\ config = watcher.seen)
  BY <1>1, <1>2 DEF TakeEvent, Observe, SweepBegins, SweepOne, EventsDrained, SweepEnds,
     WatcherStarts, Callback, RescanTimer, RequestSweep, Watch, clientVars
<1>3. CASE Edit
  <2>1. PICK hash \in Hashes : history' = [history EXCEPT !.excused = @ \union {hash}]
    BY <1>3 DEF Edit
  <2>2. /\ history'.absent = history.absent
        /\ history.excused \subseteq history'.excused
    BY <2>1 DEF Histories
  <2> QED  BY <1>3, <2>2 DEF Edit, Has, Leaves
<1>4. CASE Reconfigure
  <2> DEFINE missed == At("starting")
  <2>1. history' = [history EXCEPT !.missed = missed]
    BY <1>4 DEF Reconfigure
  <2>2. history'.absent = history.absent /\ history'.excused = history.excused
    <3> HIDE DEF missed
    <3> QED  BY <2>1 DEF Histories
  <2> QED  BY <1>4, <2>2 DEF Reconfigure, Has, Leaves
<1>5. CASE Aging
  <2>1. /\ client'.url = client.url /\ client'.held = client.held
        /\ client'.refused = client.refused
    BY <1>5 DEF Aging, VerdictAges, Clients
  <2> QED  BY <1>5, <2>1 DEF Aging, VerdictAges, linkVars, Has, Leaves
<1>6. CASE UNCHANGED vars
  BY <1>1, <1>6 DEF vars, clientVars, linkVars
<1> QED  BY <1>2, <1>3, <1>4, <1>5, <1>6 DEF Quiet

(* Every step is quiet, or one of five that are not. *)
LEMMA Steps ==
  ASSUME [Next]_vars
  PROVE  \/ Quiet
         \/ PostStep
         \/ CoordinatorForgets \/ (Watch /\ config # watcher.seen)
         \/ Republish
         \/ Restart
BY DEF Next, Worker, Environment, Quiet

(* A quiet step gives the client another post only by an offer, of which   *)
(* nothing has come yet, or by an observation.                             *)
LEMMA QuietPosts ==
  ASSUME Typed, Quiet
  PROVE  \/ post' = post
         \/ post'.kind = "definition" /\ post'.outcome = "none"
         \/ post'.kind = "none"
         \/ post'.kind = "observation" /\ Observe
<1>1. CASE TakeEvent
  BY <1>1, TakeOffers, OfferKind
<1>2. CASE SweepOne
  BY <1>2, SweepOffers, OfferKind
<1>3. CASE Observe
  BY <1>3 DEF Observe, Posting
<1>4. CASE SweepBegins \/ EventsDrained \/ SweepEnds \/ WatcherStarts \/ Callback \/ Edit
           \/ Reconfigure \/ Aging \/ RescanTimer \/ RequestSweep \/ Watch \/ UNCHANGED vars
  BY <1>4 DEF SweepBegins, EventsDrained, SweepEnds, WatcherStarts, Callback, Edit,
     Reconfigure, Aging, VerdictAges, RescanTimer, RequestSweep, Watch, vars, clientVars
<1> QED  BY <1>1, <1>2, <1>3, <1>4 DEF Quiet

LEMMA HeldStep == Typed /\ Placed /\ HeldIsStored /\ [Next]_vars => HeldIsStored'
<1> SUFFICES ASSUME Typed, Placed, HeldIsStored, [Next]_vars PROVE HeldIsStored'
  OBVIOUS
<1>1. CASE Quiet
  BY <1>1, QuietLeaves, QuietPosts DEF HeldIsStored, Leaves
<1>2. CASE PostStep
  <2>1. CASE Attempt
    <3>1. client' = client /\ post'.kind = post.kind /\ post'.hash = post.hash
          /\ post.outcome = "none"
      BY <2>1, AttemptTyped
    <3> QED  BY <1>2, <2>1, <3>1, AttemptStores DEF HeldIsStored
  <2>2. CASE DefinitionEnds \/ ObservationEnds
    <3>1. Has' = Has
      BY <1>2, <2>2, EndStores DEF Has
    <3> QED  BY <1>2, <2>2, <3>1, EndStores DEF HeldIsStored
  <2> QED  BY <1>2, <2>1, <2>2 DEF PostStep
<1>3. CASE CoordinatorForgets \/ (Watch /\ config # watcher.seen)
  <2>1. client.held \subseteq Hashes /\ post.hash \subseteq Hashes
    BY DEF Typed, Clients, Posts
  <2>2. post.kind = "definition" => client'.url = client.url
    BY <1>3 DEF CoordinatorForgets, Watch, At, Placed
  <2> QED  BY <1>3, <2>1, <2>2, WipeExcuses DEF HeldIsStored
<1>4. CASE Republish
  <2>1. /\ client'.held = {} /\ client'.url = client.url
        /\ UNCHANGED <<post, store>>
    BY <1>4 DEF Republish, ClearsHeld, Typed, Clients
  <2>2. /\ history'.absent = history.absent
        /\ history'.excused = IF /\ client.url # NoUrl /\ post.kind = "definition"
                                 /\ post.outcome = "accepted"
                              THEN post.hash \ store[client.url] ELSE {}
    <3> DEFINE lost == IF /\ client.url # NoUrl /\ post.kind = "definition"
                          /\ post.outcome = "accepted"
                       THEN post.hash \ store[client.url] ELSE {}
    <3>1. history' = [history EXCEPT !.excused = lost]
      BY <1>4 DEF Republish
    <3> HIDE DEF lost
    <3>2. history'.absent = history.absent /\ history'.excused = lost
      BY <3>1 DEF Typed, Histories
    <3> QED  BY <3>2 DEF lost
  <2> QED  BY <2>1, <2>2 DEF HeldIsStored, Has
<1>5. CASE Restart
  <2>1. client'.held = {} /\ post'.kind = "none"
    BY <1>5 DEF Restart, ClientRestarts, FreshClient, NoPost
  <2> QED  BY <2>1 DEF HeldIsStored
<1> QED  BY <1>1, <1>2, <1>3, <1>4, <1>5, Steps

LEMMA AlwaysHeld == Spec => []HeldIsStored
<1>1. Init => HeldIsStored
  BY DEF Init, ClientInit, FreshClient, NoPost, HeldIsStored
<1> QED  BY <1>1, AlwaysTyped, AlwaysPlaced, HeldStep, PTL DEF Spec
-----------------------------------------------------------------------------
(* The definition behind the entry that is observed next, or is on its way *)
(* as an observation.                                                      *)
Backed == Has \union client.refused \union history.absent

EntryIsBacked ==
    /\ post.kind = "observation" => post.hash \subseteq Backed
    /\ worker.at = "observe" /\ post.kind = "none" => worker.event \subseteq Backed

LEMMA BackedStep ==
  Typed /\ Placed /\ HeldIsStored /\ EntryIsBacked /\ [Next]_vars => EntryIsBacked'
<1> SUFFICES ASSUME Typed, Placed, HeldIsStored, EntryIsBacked, [Next]_vars
             PROVE  EntryIsBacked'
  OBVIOUS
<1>1. CASE Quiet
  <2>1. Backed' = Backed
    BY <1>1, QuietLeaves DEF Backed, Leaves
  <2>2. CASE TakeEvent
    <3>1. CASE UNCHANGED <<worker, post>>
      BY <2>1, <3>1 DEF EntryIsBacked
    <3>2. CASE ~UNCHANGED <<worker, post>>
      <4>1. PICK name \in Playlists :
                /\ Offer(name, [worker EXCEPT !.at = "observe", !.back = worker.at,
                                              !.event = {content[name]}])
                /\ worker'.event = {content[name]}
        BY <2>2, <3>2, TakeOffers
      <4>2. \/ post'.kind = "definition"
            \/ post'.kind = "none" /\ Known(content[name])
        BY <4>1, OfferKind
      <4>3. Known(content[name]) => {content[name]} \subseteq Backed
        BY DEF Known, HeldIsStored, Backed
      <4> QED  BY <2>1, <4>1, <4>2, <4>3 DEF EntryIsBacked
    <3> QED  BY <3>1, <3>2
  <2>3. CASE Observe
    <3>1. post.kind = "none" /\ worker.at = "observe"
      BY <2>3 DEF Observe, At, Idle
    <3>2. post'.hash = worker.event /\ worker'.at # "observe"
      BY <2>3 DEF Observe, Posting, Typed, Workers
    <3> QED  BY <2>1, <3>1, <3>2 DEF EntryIsBacked
  <2>4. CASE SweepOne
    BY <2>4, SweepOffers, OfferKind DEF EntryIsBacked
  <2>5. CASE SweepBegins \/ EventsDrained \/ SweepEnds \/ WatcherStarts \/ Watch
    <3>1. worker'.at # "observe"
      BY <2>5, SweepStarts DEF EventsDrained, SweepEnds, WatcherStarts, Watch, Goto, Typed, Workers
    <3>2. post' = post
      BY <2>5 DEF SweepBegins, EventsDrained, SweepEnds, WatcherStarts, Watch, clientVars
    <3> QED  BY <2>1, <3>1, <3>2 DEF EntryIsBacked
  <2>6. CASE Callback \/ Edit \/ Reconfigure \/ Aging \/ RescanTimer \/ RequestSweep
             \/ UNCHANGED vars
    BY <2>1, <2>6 DEF Callback, Edit, Reconfigure, Aging, VerdictAges, linkVars, RescanTimer,
       RequestSweep, vars, clientVars, EntryIsBacked
  <2> QED  BY <1>1, <2>2, <2>3, <2>4, <2>5, <2>6 DEF Quiet
<1>2. CASE PostStep
  <2>0. UNCHANGED worker
    BY <1>2 DEF PostStep
  <2>1. CASE Attempt
    <3>1. /\ client' = client /\ post'.kind = post.kind /\ post'.hash = post.hash
          /\ post.kind # "none"
      BY <2>1, AttemptTyped
    <3>2. post.kind = "observation" => Backed \subseteq Backed'
      BY <1>2, <2>1, <3>1, AttemptStores DEF Backed
    <3> QED  BY <2>0, <3>1, <3>2 DEF EntryIsBacked
  <2>2. CASE DefinitionEnds \/ ObservationEnds
    <3>1. Backed \subseteq Backed' /\ post'.kind = "none"
      BY <1>2, <2>2, EndStores DEF Backed, Has
    <3>2. worker.at = "observe" => post.kind = "definition"
      BY <2>2 DEF Placed, DefinitionEnds, ObservationEnds
    <3>3. worker.at = "observe" => worker.event \subseteq Has \union history.absent
      BY <2>2, <3>2 DEF Placed, HeldIsStored, DefinitionEnds, ObservationEnds, InFlight
    <3> QED  BY <2>0, <3>1, <3>3 DEF EntryIsBacked, Backed
  <2> QED  BY <1>2, <2>1, <2>2 DEF PostStep
<1>3. CASE CoordinatorForgets \/ (Watch /\ config # watcher.seen)
  <2>1. worker.event \subseteq Hashes /\ post.hash \subseteq Hashes
    BY DEF Typed, Workers, Posts
  <2> QED  BY <1>3, <2>1, WipeExcuses DEF EntryIsBacked, Backed
<1>4. CASE Republish
  <2>1. Backed' = Backed
    BY <1>4 DEF Republish, ClearsHeld, Typed, Clients, Histories, Backed, Has
  <2> QED  BY <1>4, <2>1 DEF Republish, EntryIsBacked
<1>5. CASE Restart
  BY <1>5 DEF Restart, ClientRestarts, NoPost, FreshWorker, EntryIsBacked
<1> QED  BY <1>1, <1>2, <1>3, <1>4, <1>5, Steps

LEMMA FirstStep ==
  ASSUME Typed, EntryIsBacked, [Next]_vars
  PROVE  [/\ post.kind = "observation" /\ post.outcome = "none"
          /\ post'.outcome = "accepted"
          => post.hash \subseteq store[client.url] \union client.refused
                              \union history.absent]_vars
BY DEF EntryIsBacked, Backed, Has

(* The coordinator is told of an entry only after the definition behind    *)
(* it, unless that one was excused (drainOnce(), runtime.cpp:431-451).     *)
THEOREM DefinitionsGoFirst == Spec => DefinitionComesFirst
<1>1. Init => EntryIsBacked
  BY DEF Init, ClientInit, NoPost, FreshWorker, EntryIsBacked
<1>2. Spec => []EntryIsBacked
  BY <1>1, AlwaysTyped, AlwaysPlaced, AlwaysHeld, BackedStep, PTL DEF Spec
<1> QED  BY <1>2, AlwaysTyped, FirstStep, PTL DEF Spec, DefinitionComesFirst
-----------------------------------------------------------------------------
(* What a republish may be served with. *)
Covered == Has \union client.refused \union history.excused

OnItsWay == IF post.kind = "definition" THEN post.hash ELSE {}

(* The worker is in a sweep that serves the newest request. *)
Sweeping == worker.at \in {"sweep", "between"} \/ (worker.at = "observe" /\ worker.back = "between")

ServesTheNewest ==
    /\ Sweeping /\ worker.owed /\ worker.requested = sweep.requested
    /\ web = "idle"

RequestsAreOrdered ==
    /\ sweep.completed <= sweep.requested
    /\ worker.requested <= sweep.requested

(* Such a sweep has covered what it no longer has to do; a post that       *)
(* failed during it is excused.                                            *)
SweepCovers ==
    ServesTheNewest =>
        /\ \A name \in Playlists \ worker.todo : content[name] \in Covered \union OnItsWay
        /\ post.kind = "definition" /\ post.outcome # "none" => post.hash \subseteq Covered

Served ==
    /\ RequestsAreOrdered
    /\ SweepCovers
    /\ RepublishServed

(* A step that leaves the worker, the sweep, the request and the post      *)
(* alone and takes nothing from what is covered.                           *)
LEMMA ServedStays ==
  ASSUME Typed, Served, UNCHANGED <<worker, sweep.requested, sweep.completed, web, post>>,
         Covered \subseteq Covered', client'.url = client.url,
         \A name \in Playlists : content'[name] \in {content[name]} \union Covered'
  PROVE  Served'
<1>1. RequestsAreOrdered'
  BY DEF Served, RequestsAreOrdered
<1>2. SweepCovers'
  BY DEF Served, SweepCovers, ServesTheNewest, Sweeping, OnItsWay
<1>3. RepublishServed'
  BY DEF Served, RepublishServed, Covered, Has
<1> QED  BY <1>1, <1>2, <1>3 DEF Served

(* ... and one that takes nothing from it and leaves the requests alone,   *)
(* so that only the sweep's own progress is in question.                   *)
LEMMA StillServed ==
  ASSUME Served, UNCHANGED <<sweep.requested, sweep.completed, web, content>>,
         Covered \subseteq Covered', client'.url = client.url
  PROVE  RepublishServed'
BY DEF Served, RepublishServed, Covered, Has

LEMMA CoveredGrows == Leaves => Covered \subseteq Covered'
BY DEF Leaves, Covered

(* The worker's own quiet steps. *)
LEMMA WorkerServes ==
  ASSUME Typed, Placed, HeldIsStored, Served, Quiet,
         TakeEvent \/ Observe \/ SweepBegins \/ SweepOne \/ EventsDrained
  PROVE  Served'
<1> USE DEF Typed
<1>1. /\ UNCHANGED <<sweep, web, content>>
      /\ post.kind = "none"
  BY DEF TakeEvent, Observe, SweepBegins, SweepOne, EventsDrained, Idle
<1>2. Covered \subseteq Covered' /\ client'.url = client.url
  BY QuietLeaves, CoveredGrows DEF Leaves
<1>3. RepublishServed'
  BY <1>1, <1>2, StillServed
<1>4. OnItsWay = {}
  BY <1>1 DEF OnItsWay
<1>5. ServesTheNewest =>
          \A name \in Playlists \ worker.todo : content[name] \in Covered
  BY <1>4 DEF Served, SweepCovers
<1>6. ASSUME ServesTheNewest' => ServesTheNewest /\ worker'.todo = worker.todo,
             worker'.requested = worker.requested,
             post'.kind = "definition" => post'.outcome = "none"
      PROVE  Served'
  <2>1. RequestsAreOrdered'
    BY <1>1, <1>6 DEF Served, RequestsAreOrdered
  <2>2. SweepCovers'
    BY <1>1, <1>2, <1>5, <1>6 DEF SweepCovers
  <2> QED  BY <1>3, <2>1, <2>2 DEF Served
<1>7. CASE TakeEvent
  <2>1. CASE UNCHANGED <<worker, post>>
    BY <1>1, <1>6, <2>1 DEF ServesTheNewest, Sweeping
  <2>2. CASE ~UNCHANGED <<worker, post>>
    <3>1. PICK name \in Playlists :
              /\ Offer(name, [worker EXCEPT !.at = "observe", !.back = worker.at,
                                            !.event = {content[name]}])
              /\ worker'.at = "observe" /\ worker'.back = worker.at
              /\ worker'.todo = worker.todo /\ worker'.owed = worker.owed
              /\ worker'.requested = worker.requested
      BY <1>7, <2>2, TakeOffers
    <3>2. post'.kind = "definition" => post'.outcome = "none"
      BY <3>1, OfferKind
    <3>3. ServesTheNewest' => ServesTheNewest
      BY <1>1, <3>1 DEF ServesTheNewest, Sweeping
    <3> QED  BY <1>6, <3>1, <3>2, <3>3
  <2> QED  BY <2>1, <2>2
<1>8. CASE Observe
  <2>1. /\ worker.at = "observe" /\ worker'.at = worker.back
        /\ worker.back \in {"drain", "between"}
        /\ worker'.todo = worker.todo /\ worker'.owed = worker.owed
        /\ worker'.requested = worker.requested
        /\ post'.kind = "observation"
    BY <1>8 DEF Observe, At, Posting, Workers
  <2>2. ServesTheNewest' => ServesTheNewest
    BY <1>1, <2>1 DEF ServesTheNewest, Sweeping
  <2> QED  BY <1>6, <2>1, <2>2
<1>9. CASE EventsDrained
  <2>1. /\ worker.at = "between" /\ worker'.at = "sweep"
        /\ worker'.todo = worker.todo /\ worker'.owed = worker.owed
        /\ worker'.requested = worker.requested
        /\ post'.kind = "none"
    BY <1>1, <1>9 DEF EventsDrained, At, Goto, clientVars, Workers
  <2>2. ServesTheNewest' => ServesTheNewest
    BY <1>1, <2>1 DEF ServesTheNewest, Sweeping
  <2> QED  BY <1>6, <2>1, <2>2
<1>10. CASE SweepBegins
  <2>1. post'.kind = "none"
    BY <1>1, <1>10 DEF SweepBegins
  <2>2. RequestsAreOrdered'
    BY <1>1, <1>10, SweepStarts DEF Served, RequestsAreOrdered, Sweeps
  <2>3. SweepCovers'
    BY <1>10, <2>1, SweepStarts DEF SweepCovers, ServesTheNewest, Sweeping
  <2> QED  BY <1>3, <2>2, <2>3 DEF Served
<1>11. CASE SweepOne
  <2>1. PICK name \in worker.todo :
            /\ Offer(name, [worker EXCEPT !.at = "between", !.todo = @ \ {name}])
            /\ worker'.at = "between" /\ worker'.todo = worker.todo \ {name}
            /\ worker'.owed = worker.owed /\ worker'.requested = worker.requested
    BY <1>11, SweepOffers
  <2>2. RequestsAreOrdered'
    BY <1>1, <2>1 DEF Served, RequestsAreOrdered
  <2>3. ServesTheNewest' => ServesTheNewest
    BY <1>1, <1>11, <2>1 DEF ServesTheNewest, Sweeping, SweepOne, At
  <2>4. /\ post'.kind = "definition" => post'.outcome = "none"
        /\ content[name] \in Covered \union OnItsWay'
    <3>1. CASE post'.kind = "none" /\ Known(content[name])
      BY <3>1 DEF Known, HeldIsStored, Covered
    <3>2. CASE post'.kind = "definition" /\ post'.outcome = "none"
               /\ post'.hash = {content[name]}
      BY <3>2 DEF OnItsWay
    <3> QED  BY <2>1, <3>1, <3>2, OfferKind
  <2>5. SweepCovers'
    BY <1>1, <1>2, <1>5, <2>1, <2>3, <2>4 DEF SweepCovers
  <2> QED  BY <1>3, <2>2, <2>5 DEF Served
<1> QED  BY <1>7, <1>8, <1>9, <1>10, <1>11

LEMMA SweepEndServes ==
  ASSUME Typed, Served, Quiet, SweepEnds
  PROVE  Served'
<1> USE DEF Typed
<1>1. /\ UNCHANGED <<web, content, client, store, history>>
      /\ post'.kind = "none" /\ post.kind = "none"
      /\ worker.at = "sweep" /\ worker.todo = {}
      /\ sweep'.requested = sweep.requested
      /\ sweep'.completed = IF worker.owed THEN worker.requested ELSE sweep.completed
      /\ worker'.at = "watch" /\ worker'.requested = worker.requested
  BY DEF SweepEnds, At, Idle, Goto, clientVars, Workers, Sweeps
<1>2. RequestsAreOrdered'
  BY <1>1 DEF Served, RequestsAreOrdered
<1>3. SweepCovers'
  BY <1>1 DEF SweepCovers, ServesTheNewest, Sweeping
<1>4. Covered' = Covered /\ OnItsWay = {}
  BY <1>1 DEF Covered, OnItsWay, Has
<1>5. RepublishServed'
  <2>1. CASE worker.owed /\ worker.requested = sweep.requested /\ web = "idle"
    <3>1. \A name \in Playlists : content[name] \in Covered
      BY <1>1, <1>4, <2>1 DEF Served, SweepCovers, ServesTheNewest, Sweeping
    <3> QED  BY <1>1, <3>1 DEF RepublishServed, Covered, Has
  <2>2. CASE ~(worker.owed /\ worker.requested = sweep.requested /\ web = "idle")
    BY <1>1, <2>2 DEF Served, RepublishServed
  <2> QED  BY <2>1, <2>2
<1> QED  BY <1>2, <1>3, <1>5 DEF Served

LEMMA ServedStep ==
  Typed /\ Placed /\ HeldIsStored /\ Served /\ [Next]_vars => Served'
<1> SUFFICES ASSUME Typed, Placed, HeldIsStored, Served, [Next]_vars
             PROVE  Served'
  OBVIOUS
<1>1. CASE Quiet
  <2>0. Covered \subseteq Covered' /\ client'.url = client.url
    BY <1>1, QuietLeaves, CoveredGrows DEF Leaves
  <2>1. CASE TakeEvent \/ Observe \/ SweepBegins \/ SweepOne \/ EventsDrained
    BY <1>1, <2>1, WorkerServes
  <2>2. CASE SweepEnds
    BY <1>1, <2>2, SweepEndServes
  <2>3. CASE WatcherStarts \/ (Watch /\ config = watcher.seen)
    <3>1. /\ worker'.at = "drain" /\ worker'.requested = worker.requested
          /\ UNCHANGED <<sweep, web, content>>
      BY <2>3 DEF WatcherStarts, Watch, Goto, Typed, Workers
    <3>2. RequestsAreOrdered' /\ SweepCovers'
      BY <3>1 DEF Served, RequestsAreOrdered, SweepCovers, ServesTheNewest, Sweeping
    <3> QED  BY <2>0, <3>1, <3>2, StillServed DEF Served
  <2>4. CASE Callback \/ Reconfigure \/ Aging \/ UNCHANGED vars
    BY <2>0, <2>4, ServedStays DEF Callback, Reconfigure, Aging, VerdictAges, linkVars, vars,
       clientVars
  <2>5. CASE Edit
    <3>1. PICK name \in Playlists, hash \in Hashes :
              /\ content' = [content EXCEPT ![name] = hash]
              /\ history' = [history EXCEPT !.excused = @ \union {hash}]
      BY <2>5 DEF Edit
    <3>2. hash \in Covered'
      BY <3>1 DEF Typed, Histories, Covered
    <3>3. \A other \in Playlists : content'[other] \in {content[other]} \union Covered'
      BY <3>1, <3>2 DEF Typed
    <3> QED  BY <2>0, <2>5, <3>3, ServedStays DEF Edit
  <2>6. CASE RescanTimer
    <3>1. sweep'.requested = sweep.requested /\ sweep'.completed = sweep.completed
      BY <2>6 DEF RescanTimer, Typed, Sweeps
    <3> QED  BY <2>0, <2>6, <3>1, ServedStays DEF RescanTimer, clientVars
  <2>7. CASE RequestSweep
    <3>1. /\ sweep'.requested = sweep.requested + 1 /\ sweep'.completed = sweep.completed
          /\ UNCHANGED worker
          /\ sweep.requested \in Nat /\ sweep.completed \in Nat /\ worker.requested \in Nat
      BY <2>7 DEF RequestSweep, Typed, Sweeps, Workers
    <3> QED  BY <3>1 DEF Served, RequestsAreOrdered, SweepCovers, ServesTheNewest, RepublishServed
  <2> QED  BY <1>1, <2>1, <2>2, <2>3, <2>4, <2>5, <2>6, <2>7 DEF Quiet
<1>2. CASE PostStep
  <2>0. UNCHANGED <<worker, sweep, web, content>>
    BY <1>2 DEF PostStep
  <2>1. CASE Attempt
    <3>1. /\ client' = client /\ post'.kind = post.kind /\ post'.hash = post.hash
          /\ post.outcome = "none"
      BY <2>1, AttemptTyped
    <3>2. /\ Covered \subseteq Covered' /\ OnItsWay' = OnItsWay
          /\ post'.kind = "definition" /\ post'.outcome # "none" => post'.hash \subseteq Covered'
      BY <1>2, <2>1, <3>1, AttemptStores DEF Covered, OnItsWay
    <3>3. SweepCovers'
      BY <2>0, <3>2 DEF Served, SweepCovers, ServesTheNewest, Sweeping
    <3> QED  BY <2>0, <3>1, <3>2, <3>3, StillServed DEF Served, RequestsAreOrdered
  <2>2. CASE DefinitionEnds \/ ObservationEnds
    <3>1. Covered \subseteq Covered' /\ post'.kind = "none" /\ client'.url = client.url
      BY <1>2, <2>2, EndStores DEF Covered, Has
    <3>2. post.kind = "definition" => post.outcome # "none"
      BY <2>2 DEF DefinitionEnds, ObservationEnds, InFlight
    <3>3. SweepCovers'
      BY <2>0, <3>1, <3>2 DEF Served, SweepCovers, ServesTheNewest, Sweeping, OnItsWay
    <3> QED  BY <2>0, <3>1, <3>3, StillServed DEF Served, RequestsAreOrdered
  <2> QED  BY <1>2, <2>1, <2>2 DEF PostStep
<1>3. CASE CoordinatorForgets \/ (Watch /\ config # watcher.seen)
  <2>1. /\ \A name \in Playlists : content'[name] \in history'.excused
        /\ post.hash \subseteq history'.excused
        /\ UNCHANGED <<post, content, sweep, web>>
    BY <1>3, WipeExcuses DEF Typed, Posts
  <2>2. worker'.requested = worker.requested
    BY <1>3 DEF CoordinatorForgets, Watch, Goto, Typed, Workers
  <2> QED
    BY <2>1, <2>2 DEF Served, RequestsAreOrdered, SweepCovers, RepublishServed, Covered
<1>4. CASE Republish
  BY <1>4 DEF Republish, Served, RequestsAreOrdered, SweepCovers, ServesTheNewest, RepublishServed
<1>5. CASE Restart
  <2>1. /\ worker'.at = "starting" /\ worker'.requested = 0
        /\ sweep'.requested = 0 /\ sweep'.completed = 0
    BY <1>5 DEF Restart, FreshWorker, FreshSweep
  <2> QED
    BY <2>1 DEF Served, RequestsAreOrdered, SweepCovers, ServesTheNewest, Sweeping, RepublishServed
<1> QED  BY <1>1, <1>2, <1>3, <1>4, <1>5, Steps

(* When a republish request is no longer pending, the coordinator has      *)
(* every definition that is not excused, also when the request came during *)
(* a sweep (maybeSweepDefinitions(), runtime.cpp:620-631).                 *)
THEOREM RepublishIsServed == Spec => []RepublishServed
<1>1. Init => Served
  BY DEF Init, FreshWorker, FreshSweep, Served, RequestsAreOrdered, SweepCovers,
     ServesTheNewest, Sweeping, RepublishServed
<1>2. Spec => []Served
  BY <1>1, AlwaysTyped, AlwaysPlaced, AlwaysHeld, ServedStep, PTL DEF Spec
<1>3. Served => RepublishServed
  BY DEF Served
<1> QED  BY <1>2, <1>3, PTL
=============================================================================
