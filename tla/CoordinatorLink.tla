---------------------------- MODULE CoordinatorLink ----------------------------
(***************************************************************************)
(* The worker thread's traffic with the coordinator: the definition before *)
(* each observation, the definition sweep and its republish request        *)
(* (native/src/runtime.cpp, definition_republish.cpp), and config.json     *)
(* with its watcher (config_watcher.cpp, coordinator_delivery.h).          *)
(*                                                                         *)
(* ObservationPipeline has the queue, the sequence numbers and the order   *)
(* of observations; here an event is the playlist it names.  A republish   *)
(* request with the id of the last one only reads, so requests have ids of *)
(* their own.  A watcher's snapshot and its load are one step: when the    *)
(* file changes between them the next tick sees another snapshot.          *)
(***************************************************************************)
EXTENDS CoordinatorClient, Sequences

CONSTANT Playlists

VARIABLES
    config,            \* the address in config.json, NoUrl when it has none
    watcher,           \* lastSnapshot_ and currentBaseUrl_ of ConfigWatcher
    content,           \* the definition of each playlist on the host
    events,            \* the callbacks handed off
    worker,            \* the worker thread
    sweep,             \* sweepRequested_, sweepCompleted_, whether a rescan is due
    web,               \* the thread serving a republish request
    history            \* read by properties alone

linkVars == <<config, watcher, content, events, worker, sweep, web, history>>
vars == <<clientVars, linkVars>>

(* at: where the worker is; back: where an event returns to; event: the    *)
(* hash it is about; todo, requested and owed: the sweep's.                *)
FreshWorker(at) ==
    [at |-> at, back |-> "drain", event |-> {}, todo |-> {},
     requested |-> 0, owed |-> FALSE]

FreshSweep == [requested |-> 0, completed |-> 0, due |-> TRUE]

(* excused: what a served republish may leave out; absent: what the        *)
(* coordinator lacks for a reason; missed: an edit of config.json that no  *)
(* snapshot tells.                                                         *)
NothingHappened == [excused |-> Hashes, absent |-> {}, missed |-> FALSE]

Init ==
    /\ config \in Urls \union {NoUrl}
    /\ ClientInit(config)
    /\ watcher = [seen |-> config, url |-> config]
    /\ content \in [Playlists -> Hashes]
    /\ events = <<>>
    /\ worker = FreshWorker("drain")
    /\ sweep = FreshSweep
    /\ web = "idle"
    /\ history = NothingHappened

At(point) == worker.at = point

Goto(point) == worker' = [worker EXCEPT !.at = point]

Idle == post.kind = "none"

Lost(hashes) == history' = [history EXCEPT !.excused = @ \union hashes,
                                           !.absent = @ \union hashes]
-----------------------------------------------------------------------------
(* An FPP callback. *)
Callback ==
    /\ Spend("events")
    /\ \E name \in Playlists : events' = Append(events, name)
    /\ UNCHANGED <<client, post, centre, statusFile, store, config, watcher, content,
                   worker, sweep, web, history>>

(* The first half of publishDefinition(), which may find nothing to do. *)
Offer(name, then) ==
    /\ worker' = then
    /\ post' = IF Known(content[name]) THEN NoPost ELSE Posting("definition", {content[name]})

(* drainOnce(): posts are suspended while the coordinator is lost. *)
TakeEvent ==
    /\ worker.at \in {"drain", "between"}
    /\ Idle
    /\ events # <<>>
    /\ events' = Tail(events)
    /\ \/ /\ Offer(Head(events), [worker EXCEPT !.at = "observe", !.back = worker.at,
                                                !.event = {content[Head(events)]}])
          /\ UNCHANGED left
       \/ Spend("failures") /\ UNCHANGED <<worker, post>>
    /\ UNCHANGED <<client, centre, statusFile, store, config, watcher, content, sweep, web, history>>

(* The observation goes whatever became of the definition. *)
Observe ==
    /\ At("observe")
    /\ Idle
    /\ post' = Posting("observation", worker.event)
    /\ worker' = [worker EXCEPT !.at = worker.back, !.event = {}]
    /\ UNCHANGED <<client, centre, statusFile, store, left, config, watcher, content,
                   events, sweep, web, history>>

PostStep ==
    /\ \/ /\ Attempt
          /\ IF post.kind # "definition" \/ post'.outcome = "none" THEN UNCHANGED history
             ELSE IF post'.outcome = "accepted"
             THEN history' = [history EXCEPT !.absent = @ \ post.hash]
             ELSE Lost(post.hash)
       \/ /\ DefinitionEnds \/ ObservationEnds
          /\ UNCHANGED history
    /\ UNCHANGED <<config, watcher, content, events, worker, sweep, web>>

(* Plausible bug: after its first sweep the worker sweeps on request only. *)
SweepBeginsWhenAsked ==
    /\ At("drain")
    /\ Idle
    /\ events = <<>>
    /\ LET owed == sweep.requested # sweep.completed
       IN  IF owed
           THEN worker' = [worker EXCEPT !.at = "sweep", !.todo = Playlists,
                               !.requested = sweep.requested, !.owed = owed]
           ELSE Goto("watch")
    /\ UNCHANGED <<clientVars, config, watcher, content, events, sweep, web, history>>

(* maybeSweepDefinitions() finds a sweep due: playlistNames(). *)
SweepBegins ==
    /\ At("drain")
    /\ Idle
    /\ events = <<>>
    /\ LET owed == sweep.requested # sweep.completed
       IN  \/ /\ owed \/ sweep.due
              /\ worker' = [worker EXCEPT !.at = "sweep", !.todo = Playlists,
                                !.requested = sweep.requested, !.owed = owed]
              /\ UNCHANGED left
           \/ ~owed /\ ~sweep.due /\ Goto("watch") /\ UNCHANGED left
           \/ Spend("failures") /\ Goto("watch")
    /\ UNCHANGED <<client, post, centre, statusFile, store, config, watcher, content,
                   events, sweep, web, history>>

(* One definition, and then the events that came meanwhile. *)
SweepOne ==
    /\ At("sweep")
    /\ Idle
    /\ \E name \in worker.todo :
           Offer(name, [worker EXCEPT !.at = "between", !.todo = @ \ {name}])
    /\ UNCHANGED <<client, centre, statusFile, store, left, config, watcher, content,
                   events, sweep, web, history>>

EventsDrained ==
    /\ At("between")
    /\ Idle
    /\ events = <<>>
    /\ Goto("sweep")
    /\ UNCHANGED <<clientVars, config, watcher, content, events, sweep, web, history>>

(* Plausible bug: the request served is the last one when the sweep ends. *)
SweepEndsForAll ==
    /\ At("sweep")
    /\ Idle
    /\ worker.todo = {}
    /\ sweep' = [sweep EXCEPT !.due = FALSE, !.completed = sweep.requested]
    /\ Goto("watch")
    /\ UNCHANGED <<clientVars, config, watcher, content, events, web, history>>

(* Plausible bug: a sweep that ends only puts the next one off. *)
SweepEndsUnrecorded ==
    /\ At("sweep")
    /\ Idle
    /\ worker.todo = {}
    /\ sweep' = [sweep EXCEPT !.due = FALSE]
    /\ Goto("watch")
    /\ UNCHANGED <<clientVars, config, watcher, content, events, web, history>>

(* The request that is served is the one read before the sweep began. *)
SweepEnds ==
    /\ At("sweep")
    /\ Idle
    /\ worker.todo = {}
    /\ sweep' = [sweep EXCEPT !.due = FALSE,
                     !.completed = IF worker.owed THEN worker.requested ELSE @]
    /\ Goto("watch")
    /\ UNCHANGED <<clientVars, config, watcher, content, events, web, history>>

(* ConfigWatcher::tick() *)
Watch ==
    /\ At("watch")
    /\ Goto("drain")
    /\ IF config = watcher.seen
       THEN UNCHANGED <<client, statusFile, watcher, history>>
       ELSE /\ watcher' = [seen |-> config, url |-> config]
            /\ SetsUrl(config)
            /\ Lost(Hashes)
    /\ UNCHANGED <<post, centre, store, left, config, content, events, sweep, web>>

(* kDefinitionRescanIntervalMillis *)
RescanTimer ==
    /\ ~sweep.due
    /\ sweep' = [sweep EXCEPT !.due = TRUE]
    /\ UNCHANGED <<clientVars, config, watcher, content, events, worker, web, history>>
-----------------------------------------------------------------------------
(* applyDefinitionRepublishRequest() with a new id: two calls, one lock    *)
(* each.  What was forgotten while its acceptance was on the way is        *)
(* excused (see RepublishServed).                                          *)
Republish ==
    /\ web = "idle"
    /\ Spend("requests")
    /\ ClearsHeld
    /\ web' = "cleared"
    /\ history' = [history EXCEPT !.excused =
           IF client.url # NoUrl /\ post.kind = "definition" /\ post.outcome = "accepted"
           THEN post.hash \ store[client.url] ELSE {}]
    /\ UNCHANGED <<post, centre, statusFile, store, config, watcher, content, events,
                   worker, sweep>>

RequestSweep ==
    /\ web = "cleared"
    /\ web' = "idle"
    /\ sweep' = [sweep EXCEPT !.requested = @ + 1]
    /\ UNCHANGED <<clientVars, config, watcher, content, events, worker, history>>
-----------------------------------------------------------------------------
(* The operator edits a playlist, or the address. *)
Edit ==
    /\ Spend("changes")
    /\ \E name \in Playlists, hash \in Hashes :
           /\ content' = [content EXCEPT ![name] = hash]
           /\ history' = [history EXCEPT !.excused = @ \union {hash}]
    /\ UNCHANGED <<client, post, centre, statusFile, store, config, watcher, events,
                   worker, sweep, web>>

Reconfigure ==
    /\ Spend("changes")
    /\ config' \in (Urls \union {NoUrl}) \ {config}
    /\ history' = [history EXCEPT !.missed = At("starting")]
    /\ UNCHANGED <<client, post, centre, statusFile, store, watcher, content, events,
                   worker, sweep, web>>

(* A coordinator starts over without its definitions. *)
CoordinatorForgets ==
    /\ Spend("changes")
    /\ \E url \in Urls : store' = [store EXCEPT ![url] = {}]
    /\ Lost(Hashes)
    /\ UNCHANGED <<client, post, centre, statusFile, config, watcher, content, events,
                   worker, sweep, web>>

(* The process ends anywhere and starts again; CoordinatorDelivery reads   *)
(* the address for the client first ...                                    *)
Restart ==
    /\ Spend("ends")
    /\ ClientRestarts(config)
    /\ worker' = FreshWorker("starting")
    /\ sweep' = FreshSweep
    /\ events' = <<>>
    /\ web' = "idle"
    /\ history' = NothingHappened
    /\ UNCHANGED <<config, watcher, content>>

(* ... and ConfigWatcher takes its baseline from the file after that. *)
WatcherStarts ==
    /\ At("starting")
    /\ watcher' = [seen |-> config, url |-> config]
    /\ Goto("drain")
    /\ UNCHANGED <<clientVars, config, content, events, sweep, web, history>>

Aging ==
    /\ VerdictAges
    /\ UNCHANGED linkVars

Worker ==
    \/ TakeEvent \/ Observe \/ PostStep \/ SweepBegins \/ SweepOne \/ EventsDrained
    \/ SweepEnds \/ Watch \/ WatcherStarts

Environment ==
    \/ Callback \/ Republish \/ Edit \/ Reconfigure \/ CoordinatorForgets \/ Restart
    \/ Aging

Next == Worker \/ RescanTimer \/ RequestSweep \/ Environment

Spec == Init /\ [][Next]_vars

(* The worker loops until the plugin unloads, an answered request ends and *)
(* time passes; what operators do and what fails is bounded and not fair.  *)
FairSpec ==
    /\ Spec
    /\ WF_vars(Worker)
    /\ WF_vars(RescanTimer)
    /\ WF_vars(RequestSweep)
-----------------------------------------------------------------------------
TypeOK ==
    /\ client \in [url : Urls \union {NoUrl}, held : SUBSET Hashes, refused : SUBSET Hashes,
                   reason : Texts \union {NoText}, raised : Texts \union {NoText},
                   mismatch : Texts \union {NoText}, aged : BOOLEAN]
    /\ post \in [kind : {"none", "definition", "observation"}, hash : SUBSET Hashes,
                 attempts : 0..MaxAttempts,
                 outcome : {"none", "not-configured", "accepted", "schema-refused",
                            "conflict", "unreachable"}]
    /\ InFlight => post.attempts < MaxAttempts
    /\ statusFile \in Texts \union {NoText}
    /\ store \in [Urls -> SUBSET Hashes]
    /\ left \in [Bounded -> Nat]
    /\ config \in Urls \union {NoUrl}
    /\ watcher \in [seen : Urls \union {NoUrl}, url : Urls \union {NoUrl}]
    /\ content \in [Playlists -> Hashes]
    /\ events \in Seq(Playlists)
    /\ worker \in [at : {"starting", "drain", "observe", "sweep", "between", "watch"},
                   back : {"drain", "between"}, event : SUBSET Hashes,
                   todo : SUBSET Playlists, requested : Nat, owed : BOOLEAN]
    /\ sweep \in [requested : Nat, completed : Nat, due : BOOLEAN]
    /\ web \in {"idle", "cleared"}
    /\ history \in [excused : SUBSET Hashes, absent : SUBSET Hashes, missed : BOOLEAN]

(* When a republish request is no longer pending, the coordinator has the  *)
(* definition of every playlist, unless it refused it, the post failed, or *)
(* the coordinator, its address or the playlist has changed since: a       *)
(* request that arrives during a sweep is not served by that sweep         *)
(* (maybeSweepDefinitions(), runtime.cpp:620-631).                         *)
RepublishServed ==
    /\ sweep.requested > 0 /\ sweep.requested = sweep.completed /\ web = "idle"
    /\ client.url # NoUrl
    => \A name \in Playlists :
           content[name] \in store[client.url] \union client.refused \union history.excused

(* The coordinator is told of an entry only after the definition behind    *)
(* it, unless that one could not be posted, was refused, or was lost there *)
(* since (drainOnce(), runtime.cpp:431-451).                               *)
DefinitionComesFirst ==
    [][/\ post.kind = "observation" /\ post.outcome = "none"
       /\ post'.outcome = "accepted"
       => post.hash \subseteq store[client.url] \union client.refused \union history.absent]_vars

(* A requested sweep ends, so a poller sees sweepPending go out, whatever  *)
(* fails (RuntimeSweepRecord, runtime.cpp:612-634).                        *)
SweepPending == sweep.requested # sweep.completed

RequestedSweepCompletes == SweepPending ~> ~SweepPending

(* Once the client has an address for good, every playlist's definition is *)
(* held or refused in the end, edited while FPP was idle or lost on the    *)
(* way: the rescan offers it again (runtime.cpp:614-625).                  *)
EveryDefinitionIsOffered ==
    <>[](client.url # NoUrl) => <>[](\A name \in Playlists : Known(content[name]))

(* The client's address is in the end the one in config.json, whatever the *)
(* watcher missed before it was there (config_watcher.cpp:75-98).          *)
FollowsTheConfig == <>[](client.url = config \/ history.missed)
=============================================================================
