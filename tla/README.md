# A verification project for the ShowMesh FPP plugin

The plugin runs inside FPP (Falcon Player, a light-show player) and does four
things: it reports to a coordinator which playlist entry is playing; it carries
a playlist on by itself, from a signed program on disk, when the coordinator is
lost; it scales the frame's channels by a brightness shared with the other
players; and a small Go helper runs macros. This directory holds TLA+ models of
its code, the TLC configurations that check them, and proofs checked by TLAPS.

## Inventory

Threads: FPP's callback thread (playlist entry callbacks), FPP's channel output
thread (`modifyChannelData`), FPP's web thread (commands and routes), the
runtime's worker, and the fallback executor's tick thread.

| Component | State | Operations | Talks to | Hard because | Correct when |
|---|---|---|---|---|---|
| Callback handoff (`callback_handoff.h`) | ring of 16 records, count of coalesced ones | offer, take | FPP's callback thread and the worker | a full ring drops the oldest | every dropped callback is counted in the gap before the record it precedes |
| Runtime worker (`runtime.cpp`) | carried gap, remembered entry, sequence numbers | drainOnce, sweep, flushes, start, stop | handoff, store, client, executor | posts take seconds, stops and crashes cut in anywhere | no number is used twice, no run end is lost, a stop ends |
| Sequence store (`sequence_store.cpp`, `atomic_write.cpp`) | two files | load, store | worker | renames that fail or are cut short, corruption | a restart never resumes below a completed store |
| Fallback executor (`fallback_executor.h`) | execution state and its saved copy, the detector, what is owed | tick, observeEntryEvent, stop, restore | worker, coordinator, nodes, program file | two threads, a lock that is let go around disk and network | no Cue twice, recorded before sent, reports before evidence, the fetch and the posts come back |
| Program fetch, verifier, installer, keys (`fallback_program_fetch.h` and its neighbours) | the installed copy, the pinned key, the executor key, an owed acknowledgement | keepCurrent, register, fetch, verify, install, acknowledge | executor's tick, pairing's files | a key replaced during a fetch, answers lost, a coordinator that forgets | what is installed was signed for this player by a key a pairing gave, and only what was installed is told verified |
| Activation resolver (`fallback_activation_resolver.h`) | none: it reads the installed program | resolve an entry, build a request, say whether the program may be used | executor | the program may be replaced between two readings | an entry is refused for the first reason the code's order gives |
| Node delivery (`fallback_node_delivery.h`, `deliverMatch()`) | a thread per node: attempts, retries used, what came of it | ask, retry, hand the program over, follow the answer | executor, nodes | requests that time out and arrive late, replays, nodes that restart, the cutoff, stops | a cue starts once for an occurrence, what is recorded as started was, every delivery ends |
| Notice and status (`fallback_executor.h`) | the notice on FPP's warning list, `fallback-status.json` | refreshNotice, publishStatus | both threads of the executor | two threads read and write under different locks | the operator is told what is so |
| Coordinator client (`coordinator_client.cpp`) | held and refused hashes, two notices, the status file | postWithRetry, publishDefinition, publishObservation, clearHeldDefinitions, setBaseUrl | worker, web thread, FPP's notices | two threads around a post | a definition precedes what refers to it, the notices tell the truth |
| Definition sweep (`definition_republish.cpp`, `runtime.cpp`) | requests and completions | sweep, maybeSweep | worker, web thread | a request during a sweep | a request is served by a sweep that began after it |
| Brightness engine (`brightness.cpp`) | ceiling, gain, weather gate, ordering key | set..., adoptState, restoreFromPersisted | other hosts over MultiSync, output thread | lost and reordered full states, clocks | hosts converge; a restart is never brighter |
| Brightness store (`brightness_store.cpp`) | two files | load, store | worker and web thread flush | a crash between the renames | the newest capture lands last |
| Weather gate, transition gain, safe ceiling | the routes' answers | writes | engine, runtime | gate revisions from two sources | a closed gate survives a restart |
| Channel ranges | spans | recompute | engine | boundaries | the spans are the applied channels less the excluded |
| Pairing (`pairing.cpp`) | secret, code file, status file, credential, pinned key | checkPairingRequest, tick, attemptClaim, reconcileStartupState | web thread's files, coordinator | expiry, an answer that is lost after the code is spent, a restart between files | a wait ends, and paired means the credential is on disk |
| Configuration and its watcher (`config_watcher.cpp`) | the last snapshot, the address | tick | worker, client | a file changed around the start | the client follows the file |
| Go helper (`cmd/`) | failures.json, macro-cache.json, status.json, night-status.json | run, action, night | coordinator | several processes over files without a lock, kills | a failure is reported or counted, ok means confirmed |
| Adapters, JSON, SHA-256, command targets, scripts | none of their own | | | | |

`PROJECT.json` names each with its files, what is modelled of it, and the
hazards at their lines.

## How the modules fit together

| Modules | What they are |
|---|---|
| `CallbackHandoff`, `SequenceFileStore` → `ObservationPipeline` | the ring and the two files, composed by the worker that drains one into the other |
| `FallbackExecutor` | the executor's two threads, the detector and the saved state |
| `ActivationResolver` → `NodeDelivery`, `FallbackNotice` → `FallbackDelivery` | what the program says of an entry; the deliveries to the nodes, and the notice and status file; both composed with the executor's two threads |
| `FadingValue` → `BrightnessPersistence` | a fading value; one player's engine over its files |
| `BrightnessSync` | the shared part of the engine on several hosts |
| `Pairing` → `FallbackEnrollment` ⊑ `HeldCopy` | pairing and the executor's background thread, composed over the files they share; the abstract promise they implement |
| `CoordinatorClient` → `CoordinatorLink` | the HTTP client, composed with the worker's sweep, the web thread and the configuration watcher |
| `MacroHelper` | the Go processes |
| `MC...` | the instances TLC checks, with their `.cfg` files |
| `..._proofs` | the theorems, each module over the one it is named for |

The executor's modes (`FallbackExecutor`), its enrolment (`FallbackEnrollment`) and
its deliveries (`FallbackDelivery`) are the same two threads in the code. They are
three models because they meet in few places. The first two meet in the copy that
is installed, which `FallbackExecutor` takes as a version that a fetch may replace
and `FallbackEnrollment` follows from key to disk. `FallbackDelivery` follows what
`FallbackExecutor` takes as one step, the request to the nodes, and the telling
that it leaves out; the saved state, crashes and the reports to the coordinator
stay with `FallbackExecutor`.

A definition marked "Plausible bug" in a comment is not part of a model: it is
what `PROJECT.json` puts in the place of the definition after it, to see that the
property it names would notice.

## The models

### Observation pipeline

`CallbackHandoff` is the ring: `Offer` evicts the oldest record when it is full
and raises the count of coalesced callbacks; `Take` returns the head with the
count that belongs before it. `SequenceFileStore` is the two files as values:
`Load` takes the higher of the valid ones, `Rotate` and `WritePrimary` are the
two file operations of a store, each of which may fail. `ObservationPipeline`
is the worker: `TakeNext`, then `DropRepeatedEnd`, `DrainRunEnd`, `Reopen` or
`DrainEvidence` as `drainOnce()` branches, then the store's two steps and the
post with its outcome. `StopRequested`, `WorkerJoined`, a crash and `Restart`
may come between any two of them. The callbacks are numbered, which gives the
ghost state that the gap properties count with; the code itself never sees the
numbers.

* `GapEvidenceConserved`: reported plus pending gaps add up to exactly the callbacks
  that were dropped. It rests on `PendingIsTheNewestRun` (the queue holds the newest
  unbroken run of callbacks), which is proved and in no run.
* `NumberBeingDeliveredIsFresh`, `CleanStopSurvivesOneCorruption`: no number is
  delivered twice while no store fails and no file is corrupted, and after a clean
  stop one corrupted file loses nothing.
* `NoRunEndSwallowed`: a run's end is dropped only as a repetition.
* `EveryCallbackLeavesTheQueue`, `StopCompletes`: liveness.

### Fallback executor

`FallbackExecutor` has two program counters, one for the worker's
`observeEntryEvent()` and one for the tick thread. A step is what the code does
under one hold of `mutex_`, or one call to the disk or the network without it.
The saved state is copied under the lock and written under the save lock
(`SaveBegins`, `SaveWrites`, `SaveFails`). A stop, after which both threads come
to their end, and a crash may happen at any point; a restart reads the file
(`RestartNormal`, `RestartOver`, `RestartUndecided`). The installed program is a
copy with a version; a fetch leaves it or replaces it by one at least as new.

* `FileCatchesUp`, `EveryChangeIsReported`: a later change of state is never
  overwritten by an earlier one, on disk or in the report.
* `RecordedBeforeItLeaves`, `NoEntryCuedTwice`: no Cue leaves unrecorded, and an
  entry is cued once whatever restarts come between.
* `CutoffNeverExtended`: no later boundary or restart moves the cutoff out.
* `NoPostBeforeTheReport`: after a hand back no evidence is posted before the
  state report. The hand back while settling after a restart is the exception,
  stated with the property.
* `HandBackFetchCompletes`, `PostsResume`: liveness.

### An entry's delivery, and what the operator is told

`ActivationResolver` has the resolver's refusals in the order of its checks, over a
program that is a record of what they tell apart. `NodeDelivery` is
`DeliverActivation()` for each node: `Ask`, the pause or the hand-over that an
answer leads to (`AfterWord`, by the table of `ClassifyNodeAnswer()`), `CutOff` and
`StopsInPause`. The nodes are external and are taken from the same table: a node
remembers which executions it has processed (`Processed`) and, until it restarts,
what came of each (`FirstOutcome`); a request that timed out may still reach its
node at any later moment, more than once (`HandlesUnheard`). The execution id is
drawn once for an occurrence and a node, so the occurrence's number stands for it.

`FallbackNotice` is `refreshNotice()` and `publishStatus()`: each takes a lock of its
own, reads the state under the state's lock, and acts on what it read. A notice
is its form, its reason and the cutoff it names.

`FallbackDelivery` composes them with the two threads. The worker drains a callback
(`EntryBegins`, `EntryGoesOn`, `PlaylistStops`), reads the mode, reads the program to
see whether it may be used, and reads it again for the entry (`ReadMode`,
`CheckUsable`, `ResolveEntry`), and then leaves the entry to the coordinator, records
that nothing starts, or delivers (`DeliverMatch` until `DeliveriesEnd`). The tick goes
on meanwhile: it probes, rests at the cutoff, hands back, and installs a program.
Both end by telling. What is left out: a request that cannot be signed, keys that
are missing, the wording of reasons, and `persistOccurrence()`, which is
`FallbackExecutor`'s subject.

* `StartedOnce`: no node starts the cue of an occurrence twice.
* `AccountIsTrue`: what is recorded as started was started, for that occurrence, by
  each node that is counted; and the boundary claims no more than that. It needs
  the replay rule: a repeated request is answered with the first outcome, and
  after a node's restart with "unknown", which is not a success.
* `ToldAsItIs`: when both threads are idle the notice is that of the present state
  and program, and so is the status file unless its last write failed. It is "as of
  the time of the thread that raised it last": a drained callback carries the time
  it was observed at, and a program may expire between ticks.
* `ServingEnds`: liveness; an entry never holds the worker for ever.

### Brightness and its persistence

`FadingValue` is one value with its fade: `FadeTo`, `FadeBetween`, `ValueAt`,
and `Restored`, which is what a restart makes of a recorded one. The ceiling and
the gain are two of them, which the code treats by the same statements twice.
`BrightnessPersistence` is one player: `Command`, `ScheduleGain`, `GateWritten`
and `AdoptState` change the engine; `Publish` and `FlushIfDirty` are the worker's
pass; a flush is `BeginFlush` (or `SkipFlush`), `Rotate`, `WriteOnce` when the
gate changed, and `WriteLast`, by the worker, the web thread or the teardown,
under the flush lock. Either file operation may fail, a file may be corrupted,
the process may crash anywhere, and the four kinds of `Restart` are the four
outcomes of `load()`. The clock of a restart is any instant, earlier ones
included; instant 1 is a clock from before 2000, which makes ordering keys and
windows implausible. A repeated request id and a refused request change nothing
and are left out.

* `SkippedWriteIsOnDisk`, `PublishedChangeIsWritten`: the two threads' flushes
  leave the last change on disk, and the skip on an unchanged revision is right.
* `GateNeverForgotten`: an answered gate write survives any restart and the
  corruption of one file.
* `RestartNotBrighter`: stated for records whose fades can be placed. Where they
  cannot, the code settles on the darker of the target and the recorded last
  applied level, and the latter is as old as the last flush.
* `FadesBeginAtTheLevel`: no fade, replaced or scheduled, begins with a jump
  (proved, and in no run).

### Hosts over MultiSync

`BrightnessSync` is a group of hosts, each with the shared part of its engine:
the value, the ordering key (`at`, `by`, `hash`) and the gate. `Command` and
`GateWrite` are local changes (`Bumped`), `Publish` is the worker's, and
`Receive` is `adoptState()`: the gate first and by itself, then the key.
Payloads are in flight one by one, each to its receiver; the network delivers
them in any order, repeats (`ReceiveCopy`) and loses (`Lose`) them. Remotes have
MultiSync disabled: they receive and never send. `Stop`, `StartTrusted` and
`StartUntrusted` are a restart. A behaviour has a group of its own: who sends,
what the clocks may read, and budgets.

What is abstracted: the ceiling, the gain and their fades are one value, which
is its own hash, since the exchange copies and compares them and no more.
Behaviours begin after the first exchange of a group that was never commanded,
in every outcome it may have for the keys. A stop leaves a clean record, since
what a crash leaves is the subject of `BrightnessPersistence`. Two payloads with
the same receiver and content are one, and a copy stands for the second. The
number of a write (`write`) and `history` are ghosts that properties count with.

* `Agreement`: once nothing is on its way, all hosts hold the senders' value.
  It needs the third part of the key: the state of one host may be sent on by
  another under its own identity and the same time.
* `GateSpreads`: a close reaches every host. `ClosedGateWasWritten`, that its revision
  is one at which some host stored a coordinator's close, is proved and in no run.
* `ReplacedNeverReturns`: what a host replaced does not come back to it, in a
  late payload or from a peer that had adopted it.
* `Settles`: adopting is a change and so is published, and yet it ends.

A state is sent once. After a loss, a restart or a refusal (a clock more than
the allowed skew behind) a host may differ from the others until the next
change; `Agreement` is stated for behaviours without any of them, `GateSpreads`
for those without losses and restarts, the other properties for all.

### Pairing and enrolment

`Pairing` is the pairing thread over its four files. The n-th pairing has the
secret n, and its code and token are named by the same n; a step is one file
operation or one request, so a restart may come between any two. `Claim` reaches
a coordinator that was given the code and spends it, whether or not the answer
arrives. `FallbackEnrollment` adds the executor's background thread in normal
mode: `ReadCredential` and `ReadKeys` read what pairing writes, `Probe`,
`Register`, `Fetch`, `Install` and `Acknowledge` are `keepCurrent()` and
`retryOwedAcknowledgement()`, each one request or file operation. A document
verifies under a key exactly when that key signed it, so a copy carries its
signer. `RefetchTimer` and `BackoffTimer` are the clock.

`HeldCopy` is the abstract specification: the copy on disk was signed for this
player by some coordinator key a pairing delivered, and "verified" is told only
of a copy that was on disk. `FallbackEnrollment` implements it (`KeepsThePromise`,
under the substitution of its ghost `history`).

* `KeepsThePromise`: through re-pairings with another coordinator, a key replaced
  while a fetch is under way, failed installs and restarts.
* `PairedHasCredential`: a status file that says paired has its credential.
* `WaitEnds`, `OwedIsSettled`, `EndsUpEnrolled`: a pairing ends; an acknowledgement
  without an answer is retried until recorded or refused; a player whose pairing
  the coordinator honours ends up holding the copy published for it, with its
  own executor key in it.

### The link to the coordinator

`CoordinatorClient` is the client: `Attempt` is one try of a post, which may be
stored though its answer is lost; `DefinitionEnds` and `ObservationEnds` are what
follows it under the client's lock; `ClearsHeld` is the web thread's.
`CoordinatorLink` is the worker around it: the definition before each observation,
the sweep (`SweepBegins`, `SweepOne`, `EventsDrained`, `SweepEnds`), the rescan's
timer, `Watch`, and the operator who edits a playlist or the address. The web
thread's `Republish` and `RequestSweep` are two holds of two locks, with anything
between them. `Restart` is followed by two reads of the file, `WatcherStarts` being the second.

* `DefinitionComesFirst`, `RepublishServed`: what the coordinator can rely on. Both
  name their excuses: a refused definition, a failed post, a coordinator that
  forgot, and, for a republish, the one definition in a post at the clear.
* `NoticesAreTrue`: FPP shows one notice of each kind at most, the one the client
  believes it raised.
* `RequestedSweepCompletes`, `EveryDefinitionIsOffered`, `FollowsTheConfig`: liveness.

### The Go helper

`MacroHelper` is a set of processes that FPP forks, each for one run, action or
night command, over the four files, none of which is locked. A step is one file
read or write or one exchange. Processes are killed anywhere; writes, requests
and answers are lost.

* `FailuresAreAccounted`: while runs do not overlap, no failure that was kept is
  lost without being counted. `DropsAreCountedOnce` (proved, and in no run): the
  count is exact when nothing was killed or lost between an answer and the clearing
  of the file.
* `OkIsConfirmed`: a record that says ok is of an attempt the coordinator took.
* `CacheFollowsRuns`: the cached macro is at least as new as the run's.

## Runs

| Run | Question | Bounds | Result |
|---|---|---|---|
| `observation_pipeline` | gaps, numbers, run ends; does the queue drain, does a stop end | two slots, three callbacks, one crash or stop, one failed file operation, one corruption | holds |
| `executor_safety` | the executor's safety properties | three callbacks, one failed probe, one crash or stop, a copy that replaces another | holds |
| `executor_progress` | do the fetch and the posts come back | two callbacks; a probe, a save and a fetch that fail | holds |
| `stale_loss_enters_fallback` | is fallback entered only during a loss (README.md:459-461) | as `executor_safety` | violated: the loss may be over |
| `brightness_persistence` | do flushes, the gate and fades survive two threads, crashes and one fault | two changes of each kind at most, one crash or stop, one fault, three instants | holds |
| `interrupted_store_comes_back_brighter` | is a restart never brighter (README.md:207) | two commands, one crash | violated: a crash inside a store leaves a backup that is not trusted |
| `brightness_sync` | do hosts agree, do closes spread, does the exchange end | three hosts; two commands or two orders, one copy, one loss, one restart, by group | holds |
| `enrollment` | pairing's files, the promise of `HeldCopy`; do waits end, is an owed acknowledgement settled, does an honoured player end up enrolled | by start: two pairings with another coordinator between them; a pairing, a restart, a coordinator that loses the key and a fault; a pairing, a hand-back and a fault; one program | holds |
| `coordinator_link` | definitions before observations, republishes, notices; do sweeps end and the address follow | one playlist and two definitions, two callbacks, one republish, two failures, one change, one restart | holds |
| `fallback_delivery` | is a cue started once, is what is recorded and told so, does an entry's delivery end | two nodes, two entries, one step of the clock, a program of each kind; by start: a late request, an other answer and a node's restart; two nodes and a stop; two ticks; an installation; a failed write | holds |
| `macro_helper` | is a failure reported or counted, does ok mean confirmed | two processes, three attempts, two faults, one kill, a buffer of one | holds |
| `overlapping_flush_erases_failure` | was what a flush clears reported (run.go:208-212) | two processes that overlap | violated: another process's failure is erased |

Why the bounds are enough. Two slots are the least in which dropping a record
differs from emptying the queue, and three callbacks overflow them; the proofs
cover more of either, and any number of crashes. In the executor the loss is
confirmed by one failed probe and a delivery has one attempt, since neither count
is compared with anything but its limit; three callbacks are an entry, its
successor and a repetition. For brightness a behaviour takes one of several
budgets, so that fades and the clock are not multiplied with the gate and faults;
two gate writes are what it takes for the backup to hold the other one, and two
commands for a fade to replace a fade. Among hosts, three are needed for a state
to come back through another, two commands for two states to tie, and the
instants are two so that clocks differ, one of them implausible and too far
behind; the groups keep these apart from each other. Two pairings are what it
takes for a key to be replaced, and one program, signed by either coordinator,
what it takes for the copy held and the key to disagree. On the link, two
definitions are an edit, one address and no address are a move, and two failures
exhaust a post's two attempts. A buffer of one is full at its second failure, and
three attempts are a failure kept, one that drops it and a run that reports. For
deliveries a behaviour starts from one of several budgets, too: a late request and a
node's restart need two entries, so that the request is of an entry that is over;
a boundary that is started on some nodes needs two nodes; one tick or one
installation between the worker's two readings of the program is what makes them
differ; and the clock's one step passes the cutoff of all programs but one. Every bound
on a budget is a CONSTANT named in its module and set in the MC module.

Runs whose cfg has CHECK_DEADLOCK FALSE are of systems that stop when the
budgets are spent and nothing is left to do. The type invariants are proved, in
the proof modules, and no run spends time on them.

**Fairness.** The worker, the tick thread and the pairing thread are threads of
FPP's process that loop until the plugin unloads, and each blocking call they
make has a timeout, so their steps are weakly fair; so are the rescan's interval
and the second half of a web request that was begun. Strong fairness is assumed
in two places: in the executor, a probe that is tried again and again is answered
in the end; in the enrolment, the refetch and backoff intervals are over at some
of the ticks that look (time passes between ticks, whatever the thread does
meanwhile). A delivery thread is a thread of the same process; each of its requests
ends in an answer or its timeout, and each pause ends. Nothing is assumed of late
requests and node restarts. Among hosts, each running host's worker publishes, and payloads that
are not lost arrive. That a stopped host starts again is not assumed. No
fairness is assumed of callbacks, operators, crashes or failures; those that
would go on for ever have budgets.

## Where the code and its documents differ

Three runs show a sentence of the repository violated; `PROJECT.json` quotes them
under "findings". Others were met while modelling and are noted with their
hazards:

* a corrupted sequence file is answered by the backup, which holds the number of
  the store before (sequence_store.h:40-42 says that no number regresses);
* an entry that does not resolve leaves the one before it remembered, and a run's
  end is reported on that one (runtime.cpp:330-331);
* a delivery that a stop cut short is closed at the next start, not retried
  (fallback_executor.h:1348);
* a close stored above its order's revision can close a host that was opened
  already (README.md:216-219);
* an owed acknowledgement is sent as "verified" after the copy expired
  (README.md:485), and a failed installation is told as an invalid signature;
* held hashes outlive a change of the coordinator's address; a definition in a
  post when the sets are cleared is inserted after the clear, and both wait for
  the next republish or edit;
* an address that changes between the client's and the watcher's reading of it at
  a start is followed at the next change only.

## Proofs

Every theorem holds for every value of the constants that the named ASSUMEs
allow. Every safety property that a run checks, invariant or action property, is
proved. Some theorems state what no run checks any more, to leave the runs to what
only they can show: the types, `FadesNeverJump`, the pipeline's `QueueCorrect`,
`GatesAreWritten` and `DropsCountedOnce`.

`ObservationPipeline_proofs`: `TypeCorrect`; `QueueCorrect` (the queue holds the
newest run, the gap is before its head); `GapsAccounted`; `RunEndsReported`;
`StoreCorrect` (no completed store is lost, memory is not behind the disk, numbers
are new); `CleanStopCorrect`. The strengthening is needed where the drain is in
progress: the record in the worker's hands is neither queued nor reported, so the
conservation of gaps speaks of the queue's count, the taken gap and the carried
gap together; and a store in progress is described by which of its two file
operations has been made.

`FallbackExecutor_proofs`: one theorem for each safety property, over a chain of
invariants, each proved on those before it. `Typed` is the type of every record.
`Memory` says which program counters go with a held save or report. For
`FileCatchesUp`, `FileInvariant`: one thread saves at a time, and while none is on
its way to, file and state agree. For `EveryChangeIsReported`, `ReportInvariant`,
the same of reports. `EnteringIsNew` gives `CutoffNeverExtended`: a worker that is
entering found the mode normal and no one else leaves normal. `RecordInvariant`
gives `RecordedBeforeItLeaves`: at the delivery, state, file and any save under
way name its entry. `TellInvariant` gives `NoPostBeforeTheReport`: while something
is untold, posts are held back or some thread is handing back. `NoEntryCuedTwice`
takes four: `TimeInvariant` (no time in the model is ahead of the clock, and an
occurrence is of the program it belongs to), `ServeInvariant` (what the worker may
hold at each point of serving an event), `SavedInvariant` (file and saves are of
the fallback that is on) and `OnceInvariant`, which says of the last entry cued
that the file, memory and every save under way know of it until FPP leaves it.
The last is the crux: without the clause for saves under way, a crash could
bring back a record from before the Cue.

`BrightnessPersistence_proofs`: `TypeCorrect`, which rests on `ValueInRange` (an
interpolated level stays between the ends of its fade); `RestartStaysDark` and
`FadesNeverJump`, which are facts about `Restored`, `FadeTo` and `FadeBetween`
carried over to the steps that use them; `SkipCorrect` and `PublishCorrect`, from
one inductive invariant, `FlushInv`: at most one thread writes; its capture is
newer than the flushed revision and carries the engine's stamp if it carries its
revision; a flushed revision that is the engine's is on disk; and a published,
undirtied change is waiting in some thread's flush, in the writer's hands, or on
disk. Without the writer's clause a stale capture could land after the flush that
was skipped for it, and without the waiting thread's a stale writer would uncover
a change. They add one assumption, `FileAssumption`: a missing and an unreadable
file differ from each other and from any record.

`AnsweredGateSurvives` is proved in the same module for `OneFault`, the storage
the run has: at most one write that fails or file that is corrupted. Two do lose a
gate: a rotation that fails leaves the backup old, and then the primary is
corrupted. `GateInvariant` says of every value a restart might read how its gate
compares with the promised one. Before the fault both files carry it, once the
flush that promises it has rotated; after the fault the file that a restart
reads first still does, and `stored` names the gate of the newest file. An answered
change is held by the engine until then, so what a writer captures is never older
than what it was asked to make durable; and two gates with the same key are the
same change (`KeysTell`), since a local change takes a revision above every one it
has seen. This last fact failed for a peer's gate with a revision above the
largest one, which the codec refuses (brightness_codec.cpp:172): `PeerAssumption`
now says so.

`BrightnessSync_proofs`: `TypeCorrect`; `ReplacedStaysReplaced`, from `WriteInv`
(all copies of a write have one time, and what a host replaced is older than what
it holds, wherever a copy of it is); `GatesAreWritten`; and `GatesSpread`, from
`GateOnItsWay` (a sender's closed gate is at each host, about to be published, or
on its way); and `HostsAgree`, under the assumption that
no two hosts have the same identity, which is FPP's own for each host. Hosts whose
identity is not known yet share the empty one; the instance of `brightness_sync`
has two hosts of one identity, so that run covers what the theorem leaves out.
Its invariant `KeysInv` says where keys are: a sender's own state has reached every
host or will; a key that a host took over went to all the others too; and while a
host holds a change of its own, no other value bears its identity and time. From
these the last step is a case analysis of who holds whose key.

`FallbackEnrollment_proofs`: `TypeCorrect`; `PairedIsSaved`, from `PairingIsSaved`
(secrets are numbered in order, a thread that stores the key has stored the
credential, and both the status in memory and the one on disk are of a saved
principal); and `PromiseIsKept`, the refinement: the initial states map to
`HeldCopy`'s, and every step maps to `Pin`, `Install`, `Tell` or a stutter. The step
needs `ExecIsSound`: every copy the thread is about to install is genuine under
a key a pairing gave, and every acknowledgement it is about to send, remembers or
owes as verified is of a copy that was on disk.

`CoordinatorLink_proofs`: `TypeCorrect`; `NoticesStayTrue`, inductive as it stands;
`DefinitionsGoFirst`, from `Placed` (which post goes with which point of the
worker), `HeldIsStored` (a held hash is at the coordinator or missing there for a
reason) and `EntryIsBacked` (so is the one an observation refers to);
`RepublishIsServed`, from `Served`: completed and serving sweeps never overtake
requests, and a sweep that serves the newest request has covered every playlist
it no longer has to do, the definition in its post included.

`MacroHelper_proofs`: `OkRecordsAreConfirmed` and `CacheKeepsUp`, from one invariant:
at most one run is on while none overlapped, only a run refreshes, flushes or
keeps, and a process that will record ok was confirmed. `LedgerInvariant` adds what
the counts need. `Filed` types the buffer and says that an attempt is numbered
once, so what a run holds of the buffer and what it appends are new to each other;
`Ledger` balances the failures that are gone against the two counts, from the moment
the coordinator answers to the clearing of the file, where they are counted on
both sides: a run killed there counts its drops twice, which only makes the count
an upper bound. From it `NoFailureLostSilently` and `DropsCountedOnce`. The pruning
by age is written without `SelectSeq`, of which nothing can be proved here.

`FallbackDelivery_proofs`: `DeliveryThreadsTyped`, with the fact that a match at the
verdict has a target. `NeverStartedTwice` is from `NodesSound` and `OccurrencesLast`.
`NodesSound` says of each node, its delivery and the requests on their way to it: a
request's execution is its occurrence's; a cue that was started is known as
processed, which a restart does not forget; what the node still calls started
was; and an authorized delivery's cue was started. `OccurrencesLast` says that each
occurrence has a number of its own: an entry that is served has one left.
`RecordedAsStartedWasStarted` adds `BoundaryTold` (`NoDeliveryOutlivesItsEntry`): outside
`deliverMatch()` every delivery is over, so a late answer finds nobody to tell, and
the tick may only make the boundary claim less. `OperatorIsToldAsItIs` is from
`TellingSound`. A change is *owed* from the step that makes it until its thread has
begun to tell: for the worker that is every point of serving a callback, for the
tick the points after it acted. While nothing is owed, what a thread has read for
the notice is the present state, and while nothing is unpublished either, so is
what it has read for the file; the locks, taken before the reading, leave one
reader each. That a tick which did not act changed nothing (`TickOwesItsChanges`) is
the crux: it is what allows `tick()` to return without telling. Of `ServingEnds` the
part without fairness is proved, `EveryDeliveryStepComesCloser`: a delivery's rank,
made of the attempts it has left and of the two extra requests that a rate limit
and a missing program earn it, falls with each of its steps, for any
`TransientAttemptLimit`.

Only model-checked: every liveness property, since fairness and ENABLED are outside
the prover, and the violations.

## Not modelled

Formatting, hashing, signatures and JSON are modelled by what they decide:
equality of what is hashed, the key that signed, whether a file parses. FPP
itself, the adapters that pass its calls on, the settings' parsers, the scripts
and the channel ranges (a pure function over numbers, tested on its cases) are
left out, as `PROJECT.json` says for each component. So are: the resolver's
order of mappings; repeated request ids and refused requests, which change
nothing; a wall clock that steps backwards in the executor; FPP 10 unloading and
reloading the plugin in the middle of a playlist; and what a late-joining or
once-disturbed host shows until the next change of brightness, which the code
leaves to that change.
