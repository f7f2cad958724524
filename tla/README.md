# VisionRig: verification project

VisionRig is a local perception service. Producers (webcams, screens, a Kinect,
Android phones, Quest headsets) send frames through an authenticated gateway to
a core service; operators look at the sensors, switch them on and off, retire
and forget them; UI clients follow a feed of changes; what is perceived is offered
to ModelRig, and a chain of command line tools turns evidence of that into a
release. These TLA+ modules model
the parts of that system in which several actors share state or in which
something may fail half way. TLC checks them on small instances, and TLAPS
checks proofs, for every value of the constants, of all the safety properties
that hold.

`src/` stands for the root of the repository; the Python package is
`src/src/visionrig/` and the Kotlin client core is
`src/clients/kaliv-producer-core/.../producer/`.

Contents: 1 inventory, 2 modules, 3 runs, 4 proofs, 5 fairness, 6 where the
code and its documents disagree, 7 what is not modelled, 8 plan.

## 1. Inventory

| component | state | operations | what is hard | what makes it correct |
|---|---|---|---|---|
| Sensor registry (`sensor_registry.py`) | metadata, discovery and control revisions per sensor, one state revision; a JSON file replaced as a whole | observe, ensure_registered, retire, restore, forget, patch; get, desired_state | memory is changed before the file is written and put back by hand if the write raises; a crash in between; optimistic preconditions; answers put together from many reads, each under a lock of its own | memory is what the file holds; a retired camera is off; a state revision names a state; a flip of a switch is a new command |
| Sensor change journal (`sensor_events.py`) | stream id, a window of entries, next cursor, high water revision; a JSON file | append, read, wait_for_changes; load | eviction past a slow reader, rollback of an append, restart with a smaller capacity or without a file, long polls that wait while appends commit | the window is the newest events; no reader skips an event unawares; no wakeup is lost |
| Control plane handlers (`api.py`) | a readiness summary; a lock for heartbeats | heartbeat, frame and packet ingest, retire, restore, forget, patch; bootstrap, change feed, consistency status | handlers run in a thread pool, call registry, ingress and journal one after the other, and hold no lock in between | the feed makes up for what a snapshot missed; events are not older than their cause; the summary ends up current |
| Sensor ingress (`sensor_ingress.py`) | last sequence and a runtime row per source, a single processing slot | process_encoded, process_packet, heartbeat, forget_source, presence | admission against two different memories of the last sequence; telemetry streaks and episodes | frames of a source in order and once |
| Perception runtime (`runtime.py`, `capture.py`, `world.py`, `journal.py`, `pipeline.py`) | frame queue of 4, last event, ring of 256 events | submit, process_next, process_direct, read | any number of direct requests concurrent with sensor ingress, three locks taken one after the other | an event is journalled before anyone else hears of it |
| ModelRig bridge (`modelrig_bridge.py`) | change gate, back-off deadline, the last 128 receipts | accept, publish | a lost answer, a retry after it, a late post, the gate committed after the answer | what ModelRig admits was journalled; a suppressed scene is one that ModelRig holds (which fails, see 6.9) |
| Producer delivery (`producer.py`, `producer_state.py`, `DurableProducerState.kt`, `VisionRigGatewayClient.kt`) | a state file: next sequence, pending drops, frame in flight | recover, reserve, send, mark_accepted, mark_dropped | crashes at every point, lost and repeated requests, lost answers, late requests | no loss goes uncounted, no sequence is used twice |
| Producer control loop (`producer_cli.py`, `ProducerControlLoop.kt`, `ProducerRunner.kt`, `ProducerRunController.kt`) | capture open or closed, the last command, a running job | poll desired state, open, close, heartbeat, start, stop | acknowledgement racing a newer command; late frames and heartbeats of a run that is over; stop racing the end of a job and the next start | what is shown as converged has been applied; a free slot means a closed camera; a producer that runs converges |
| Producer gateway (`gateway.py`, `http_io.py`) | none | relay of four requests | its timeout (30 s) is longer than the producer's (5 s) | it adds no answer of its own that looks like a receipt |
| Sensor packet codec (`sensor_packet.py`) | none | encode, decode, describe | header arithmetic; the search for a JPEG quality that fits a byte budget | decode inverts encode; the budget is kept |
| Tracking, recognition (`tracking.py`, `recognition.py`) | tracks with ages | update | greedy assignment, expiry | one detection, one track |
| Profiles (`profile*.py`) | files with a revision chain | build, import | chain of digests | a profile is the successor of its parent |
| Release evidence (`release_*.py`, `physical_qualification.py`, `kinect_acceptance.py`) | artifacts that bind one another; what a probe has noted | qualify, bundle, promote, finalize, status | a service polled request by request; artifacts replaced and CI rerun between the reads of a tool | a PASS is evidence of one service instance; a finalization was earned; a status speaks of one release |
| Model stages, capture clients, service assembly | none of their own | inference, devices, configuration | floating point, devices | outside this method |

How they interact. A producer asks the gateway for its desired state (the
registry's switch and control revision), opens or closes its camera, sends a
heartbeat that acknowledges the revision, and sends frames. The gateway relays
to the core's handlers. A handler records the sensor in the registry, hands the
frame to the ingress (which runs the pipeline, the world and the sinks, the
ModelRig bridge among them), appends events to the change journal and refreshes
the readiness summary. Operators call the handlers that change the registry. A
UI client takes a bootstrap (a cursor, a state revision, then the catalog sensor
by sensor) and then polls the feed.

## 2. Modules

| module | models | by |
|---|---|---|
| `RegistryOps` | what the mutators of `SensorRegistry` do to its data | operators on one record |
| `AtomicRegistry` | abstract: a registry that changes by whole calls, and of which a bootstrap that quotes the current revision shows every sensor | `EXTENDS RegistryOps` |
| `SensorRegistry` | the class with its lock, file, failing writes and crashes; an operator with optimistic preconditions who reads a bootstrap call by call | `EXTENDS RegistryOps`; implements `AtomicRegistry` (`AtomicSpec`) |
| `RegistryOpsProofs` | what each mutator leaves behind | `EXTENDS RegistryOps` |
| `SensorRegistryProofs` | theorems about the class | `EXTENDS SensorRegistry, RegistryOpsProofs` |
| `JournalOps` | append, load, gap test and page of `SensorChangeJournal` | operators on one record |
| `EventFeed` | abstract: a client is given the next stretch of a stream, or told of a gap or a new stream | |
| `SensorChangeJournal` | the class with its file, failing writes, crashes, restarts; clients that follow the documented flow, long polls included | `EXTENDS JournalOps`; implements `EventFeed` (`FeedSpec`) |
| `SensorChangeJournalProofs` | theorems about it | `EXTENDS SensorChangeJournal` |
| `ControlPlane` | the handlers of `create_app` over registry, journal and runtime table | `EXTENDS RegistryOps, JournalOps` |
| `ControlPlaneProofs` | theorems about them | `EXTENDS ControlPlane, RegistryOpsProofs` |
| `FrameLedger` | abstract: a frame is taken in only when the losses before it have been counted | |
| `FrameDelivery` | the producer, its state file, the network and the admission at the core | implements `FrameLedger` (`LedgerSpec`) |
| `FrameDeliveryProofs` | theorems about it, and the refinement | `EXTENDS FrameDelivery` |
| `ControlLoop` | operator, registry, ingress row, desktop or Android producer, run controller and the control status of the catalog | `EXTENDS RegistryOps` |
| `ControlLoopProofs` | theorems about them | `EXTENDS ControlLoop, RegistryOpsProofs` |
| `Perception` | the ingress thread and any number of direct threads through world, event journal and ModelRig bridge, with late posts and restarts of either service | |
| `Qualification` | the physical qualifier polling that service | `EXTENDS Perception` |
| `QualificationProofs` | theorems about both | `EXTENDS Qualification` |
| `ReleaseChain` | bundling, promotion, finalization and status by several operators | |
| `ReleaseChainProofs` | theorems about them | `EXTENDS ReleaseChain` |
| `MC...` | sets and symmetry for TLC | |

How state and actions correspond to the code:

- **SensorRegistry.** `mem` is `_entries`, `_discovery`, `_control_revisions`
  and `_state_revision`; `disk` is the file. A mutator is two steps: the change
  (`Observe`, `Retire`, ...), which keeps in `undo` the `previous_...` locals of
  the method, and the outcome of `_save()` (`SaveSucceeds`; `SaveFails` with the
  rollback of that method; or `CrashAndRestart`). The lock is held between them,
  and for a reader it is held for one call only. So a bootstrap is as many steps
  as the code makes calls: `Bootstrap` (the state revision), `ListSources` (the
  ingress may add rows of its own), for each sensor `ReadMetadata`,
  `ReadControl` and `ReadDiscovery`, and last `Fleet`, which reads the state
  revision once more; `seen` is what an operator has of it, and `Quotes` says
  which of the two revisions he keeps. The answer to a write reads the state
  revision in a call of its own (`Respond`; `reply` is the revision the write
  led to). `desired_state()`, which also takes the lock twice, is part of
  `ControlLoop`. Timestamps, the observation counter and the file format are
  left out.
- **SensorChangeJournal.** `mem`, `disk` and `undo` likewise. A client
  bootstraps, polls with its cursor and stream, and sleeps in the condition
  when nothing is worth returning; the lock is not held while it sleeps, but it
  is from the check to the wait, which is why these are one step.
  `log` and `got` are history.
- **ControlPlane.** Every call of a handler to registry, journal, ingress or
  readiness summary is a step, because nothing protects the handler in between;
  the calls themselves are atomic, which `AtomicSpec` says of the registry and
  `FeedSpec` of what the journal makes public. The two
  async handlers (frame, packet) exclude each other except while they await the
  worker thread; heartbeats exclude each other by
  `heartbeat_transition_lock`. The event that is emitted carries what the code
  reads at that moment: the registry's revision at append time.
- **FrameDelivery.** `file` is the `ProducerStateEntry` of the one active
  producer; `proc` the process and the sequence and drop count it holds in
  local variables; `net` the requests under way; `core` the ingress' last
  sequence, the world's last sequence when its last event is of this source,
  and the number of lives of that memory. Losing a request, losing its answer,
  giving up and delivering late are independent choices, which covers the two
  timeouts. `net` is a set, in which equal copies of a request are one; a copy
  may therefore stay when another is handled (`Handled`). The Kotlin client (`Native`) differs in two ways: its HTTP library
  repeats a request whose connection broke, and its client object survives a
  run that failed, so that the next run does not recover. A failed write of the
  state file leaves the file as it was (atomic replacement) and ends the run.
  The HTTP endpoint and the gateway decide nothing by themselves and are part
  of the network.

- **ControlLoop.** `pc` is where the producer's loop is, `desired` the answer of
  the fetch it works on, `open` its camera, `slot` and `cancelled` the
  `jobRef` of `ProducerRunController`. The core's answer to a fetch is two reads
  (see 6.6), a heartbeat is sent and then handled, and a heartbeat or a frame
  whose sender gave up may be handled at any later time. Both producers close
  the camera before they acknowledge "off" and open it before they acknowledge
  "on"; they differ in that the desktop client captures between two polls and
  the Android loop polls before every frame and runs under the controller.
  `epoch` counts how often the source was forgotten; no code reads it.
- **Perception.** `thread` is what the ingress' slot and each request to the
  direct endpoint do between the locks of world, journal, gate and bridge. `rig`
  is ModelRig as the bridge uses it: it admits a scene that differs from the
  last it holds, answers "replayed" otherwise, and may lose what it holds
  (`ModelRigForgets`). A post is refused, handled (and its answer then lost or
  bound to another event), or times out; one that timed out is in `late` and
  may be handled at any later time or never. The ingress row changes with
  an accepted frame, a heartbeat, which may also be the first thing heard of the
  source, and when the source is forgotten.
- **Qualification.** `q` is what the local variables of
  `qualify_physical_perception` hold; every HTTP request is a step.
- **ReleaseChain.** A file is its body, the reference computed from the body
  and the digest of its bytes (`serial`); `proc` is what a running tool has read
  so far. The commits are a constant graph. The four tools and the status read
  files, checkout and CI one after the other; a write replaces a file atomically.

Operators whose comment begins with "Mutant" are faulty variants of the
operator they name. No specification uses them; each is what a plausible bug in
that method would look like, and putting it in place of the original makes TLC
report the property it is listed with in `PROJECT.json`.

## 3. Runs

`tlc -config X.cfg M`. All bounds are constants of the module that uses them.

| run | question | bounds |
|---|---|---|
| `sensor_registry` | can a failed write, a crash or an interleaved operator break memory, file, switch and revisions? | 2 symmetric sensors, 1 type, 1 device, 1 piece of metadata, revision at most 3 |
| `fleet_revision` | (violation) does a 409 also protect an operator who keeps the revision of the fleet summary? | 1 sensor, revision at most 3 |
| `change_journal` | can a following client miss, repeat or reorder events, or sleep through them? | 1 client, capacity 1 or 2, pages of 1 or 2, 4 events, 2 streams |
| `journal_bootstrap` | (violation) is that also so right after the bootstrap? | the same |
| `control_plane` | do snapshot and feed fit together, and is the readiness summary current? | 2 handlers, 3 requests of heartbeat, frame, retire, forget |
| `control_plane_failures` | what do the journal and the status claim when writes fail, frames are refused and the process dies? | 2 handlers, 2 requests of every kind but forget, 1 reader of the status |
| `forget_online` | (violation) is a forgotten producer offline? | 2 handlers, 3 requests |
| `control_loop` | can a late, lost or torn message make a sensor look applied that is not, two runs share a camera, or a running producer never converge? | 1 sensor, either kind of producer, revision at most 4, 2 faults, 1 late frame; the catalog only beside the desktop producer |
| `perception` | is what ModelRig admits journalled, whatever fails, and is a PASS evidence of one instance? | 1 source, 2 scenes, the ingress and 1 direct thread, 3 events of which 1 by the direct thread, journal and receipts of 1, 1 failure or interruption (a pause of the camera, a forgotten source) of any kind |
| `release` | can replaced artifacts, edits, reruns and two operators at once yield a finalization that was not earned or a status of two releases? | 2 symmetric operators, 2 candidates and 1 release commit, 2 receipts, 5 tools, 1 edit |
| `frame_delivery` | is every loss counted before a later frame is taken in, and does every frame leave flight? | 4 frames of the Kotlin client (the Python client's behaviours are among its own), the core restarts or forgets once, the producer dies without bound, requests are lost and repeated without bound |
| `same_session` | (violation) does a frame leave flight when a Kotlin session is run again? | 2 frames |

Why the bounds are enough. *Registry*: three revisions allow observe, retire and
restore or patch of one sensor, or commands on both while a bootstrap is between
them, with the failure of any write and a crash at any point; sensors interact
through the one state revision and the order in which a bootstrap reads them,
for which two suffice. What a fourth revision adds (retired, restored and
forgotten, all beside a reader) is covered by the proofs, and so is a registry
without a file. *Journal*: capacities of
1 and 2 with four events evict up to three times, slide the window past a
client, restart with a smaller window, and leave cursors 0, oldest - 1 and
newest, the three boundaries of the gap test. Clients do not interact, so one
is enough. *Control plane*: every hazard listed is a race of two handlers with
at most one request before it; the capacity of 12 keeps events from being
evicted, which `SensorChangeJournal` covers and the proofs do not need.
`RegisteredIsReported` claims only until the journal first evicts an entry: an
event that was evicted reports nothing any more. *Delivery*: four frames are enough for a
late request, a drop, the frame that reports it, and a frame after that; one
new life of the core is enough to separate what survives from what does not,
and for more of either the invariants and the refinement are proved.

*Control loop*: four
revisions are a first observation and three commands, so that a heartbeat can be
two commands old when it arrives; two faults allow a timeout and a crash or a
failed fetch after it. Runs are sequential, so one controller and one producer
suffice; the catalog does not affect anybody and is explored beside the kind of
producer with more interleavings. *Perception*: a journal of one entry evicts and
shows a gap to the qualifier with three events; two scenes are enough for a
change, its repetition and the return of the old scene; both threads can be
inside the runtime at once, and the one failure or interruption is a lost answer,
a refused or late post, a restart of either service, a pause of the camera or a
forget, at any step. Any number of direct threads,
and more failures, are covered by the proofs. *Release*: a second candidate is what a bundle or a
promotion can be replaced by; five tools are a bundle, a promotion and a
finalization with a replaced artifact or a status in between.

What the properties say is written above each in its module. The ones that
carry most:

- `NoSilentLoss`: what a client was handed since it began to follow is exactly
  the committed events up to its cursor, unless it was told of a gap or reset.
- `FeedSpec`: the same of each answer, and that gaps and resets are told only
  when there is one: TLC finds `FeedSpec` violated, and `NoSilentLoss` not, when
  the gap test is off by one towards caution (`GapTooSoon`). A client at cursor 0
  is its exception, see 6.2.
- `AtomicSpec`: what a call leaves, also one whose write failed, is the
  registry before it or after it. A catalog may well mix several states of the
  registry, but not if the revision of its bootstrap is still the current one.
- `RevisionNamesState`, `GuardedWriteIsNotBlind`: a bootstrap whose own revision
  is the current one, now or at any later time, through failed writes and
  crashes, shows each sensor as it is, which is why a 409 on
  `expected_state_revision` protects. This rests on the order of reads: the
  bootstrap samples its revision before the catalog. The two other revisions
  an operator is given, that of the fleet summary and that in the answer to a
  write, are read after what they seem to speak of, and do not protect: 6.1 and
  6.5.
- `JournalNeverAhead`: the high water of the journal is not ahead of the
  registry. The status is another matter, since it reads the two at two moments:
  6.8.
- `FlipAdvancesControl` and `SwitchIsRevisionParity`: an acknowledgement of an
  old command can not pass for the new one, also after retire, restore, forget
  and a new first observation.
- `BootstrapCursorIsSafe`: the cursor is sampled before the snapshot is read, so
  an event for a mutation the snapshot lacks is always after the cursor.
- `FramesAreAccountedFor` and `LedgerSpec`: the two halves of the drop
  accounting, at the producer and at the core.

- `SwitchedOffMeansClosed`: when the catalog says converged and the switch is
  off, the camera is closed, through late heartbeats, frames that arrive after
  "off" and torn fetches; it holds because a frame makes the row active and so
  the status pending, and because a torn answer pairs the old switch with the
  new revision, which the comparison of the switch refuses.
- `ConvergesWhileUp`: a status that was wrong does not stay so.
- `ResolvedUnlessReused`: a frame in flight is decided or recovered after any
  death, failure and loss, unless an application runs an ended client again for
  ever; 6.4 says why that exception is there.
- `PassIsFreshEvidence`: the identity checks of the qualifier between its
  requests, taken together, are what keeps two instances apart.
- `FinalizationIsEarned`: the finalizer reads the promotion twice; the second
  read is compared with the candidate of the first, which is what holds.

## 4. Proofs

`tlapm` checks eight modules: for every set of sensors, clients, handlers,
sources, operators and commits, and for any bound, each reachable state has its
type and satisfies the safety invariants that the runs check. Each proof has one
inductive invariant, which TLC has checked on the runs' instances as well; a
lemma per action says that the action keeps it.

What is assumed are the named assumptions on the constants, which TLC evaluates
in every run: bounds and capacities are naturals (a capacity is not zero),
configuration flags are Booleans, and

- `NoneAssumption`, `NothingAssumption`, `JournalAssumption`,
  `ControlPlaneAssumption`, `ControlLoopAssumption`, `PerceptionAssumption`,
  `DeliveryAssumption`, `ReleaseAssumption`: the sentinel `None` is none of the
  values it is the absence of, as in Python and Kotlin;
- `ControlPlaneAssumption`: what a producer reports of its camera is a Boolean;
- `PerceptionAssumption`: the qualified camera is a source, the empty scene a
  scene, and "ingress" none of the direct threads;
- `ReleaseAssumption`: the graph of commits is a function to sets of parents,
  and a commit that changes the version files only is one from the candidate's
  version to the target's, which is what the finalizer compares in the diff.

**RegistryOpsProofs.** For each mutator: the result is a well-typed registry,
other sensors keep their metadata and control revision, and the sensor's own
switch moves with its control revision. Both the class and the control loop rest
on it.

**SensorRegistryProofs.** `RegInv` is inductive. It says of memory and of the
file that discovery, metadata and control revisions fit together
(`SoundRegistry`: a retired sensor is off, the switch is the parity of its
control revision), and of what an operator has read that no metadata in it is
retired and on (`SoundView`). For a registry that has a file it adds
that memory and file agree unless a write is pending (`MemoryIsDurable`), and
that the rollback of a pending write restores exactly the file (`InFlight`).
When the operator keeps the bootstrap's own revision it adds that this revision
is not newer than the file, and, while it is equal to it, that each read made so
far shows the registry as it still is (`SeenIsPast`), and that a
guarded write in progress acts on what was shown (`GuardHeld`). These two are
under the hypothesis `Quotes = "bootstrap"`, which `RegistryRevisionNamesState`,
`RegistryGuardedWriteIsNotBlind` and `RegistryIsAtomic` state as an assumption;
without it they are false (6.1).
The pieces are needed because
`MemoryIsDurable` after a failed write depends on `undo` being complete for
the method that is running, and `RevisionNamesState` after a crash depends on
the pending write being the only difference. Each mutator has a lemma about its
effect (`RetiredEffect`, ...); the step lemma then needs only those effects.
All six invariants and the action property `FlipAdvancesControl` follow.
The refinement `RegistryIsAtomic` maps the registry to `Committed`: memory when
the lock is free, otherwise what the rollback would restore. A call commits when
its write succeeds, and a bootstrap is delivered when its last read is done; that memory is then one call on `Committed` is `AtomicInv`,
and that a rollback or a crash leaves `Committed` alone is `RegInv`. A registry
without a file is also allowed to become empty in a restart.

**FrameDeliveryProofs.** `IInv` adds to the five checked invariants: a busy
producer remembers what the file holds (`BusyMatchesFile`); what is in flight
was reserved; a request for the current frame carries the drop count the
producer will clear (`RequestIsCurrent`); an acknowledgement under way is of an
accepted frame (`AckIsBacked`); and the core's last sequence bounds what it
accepted in its present life (`LastBoundsLife`). The first three are what makes
clearing the file sound although the answer may be to a repeated request.

Its second part is the refinement. `LInv` says that the losses below a sequence
are covered everywhere: by count plus request for each request on the network,
by count plus memory for the busy producer, by count plus file for the next
sequence, and by the count alone once an acknowledgement is under way. Accepting
a frame can only shrink losses, and the next sequence adds at most one, which is
all the induction needs. With it each step of `FrameDelivery` is an `Accept` of
`FrameLedger` or leaves its variables alone: `Spec => LedgerSpec`.

**SensorChangeJournalProofs.** `JInv` compares memory, file and followers with
the history `log`. `Committed` is memory without the append that is being saved;
it and the file hold the newest events of the log, numbered without a gap, with
the high water mark of all of them (`Holds`), also when the file is loaded with
another capacity. A follower of the present stream has a prefix of the log as
far as its cursor (`CaughtUpExactly`), and one that waits has been notified
exactly if its cursor is behind (`ClientInv`): the notification comes with the
commit, and the file of an append that failed or was cut off by a crash is never
handed out. `BatchIsStretch` says what one poll returns, gap and page limit
included; `NoSilentLoss` is that lemma added up. By the same lemma each
answer is a `Continue`, `SkipAhead` or `StartOver` of `EventFeed` or tells
nothing new, an append is a `Publish` at the moment its write succeeds, and a
restart without a file a `Replace`: `JournalIsFeed`.

**ControlPlaneProofs.** Nothing is locked between two calls of a handler, so
`PlaneInv` speaks of what a handler under way is still going to do. A revision
it will stamp is not ahead of the registry and not behind its own change
(`StampInv`); while the summary differs from registry and runtime table, some
handler will refresh it (`ReadyInv`, which gives `ReadinessIsCurrentWhenQuiet`
when no handler is left); and a registered source has an entry in the journal or
a handler that has yet to append one (`ReportInv`). `BootstrapCursorIsSafe` is
inductive as it stands, once cursors are known to be below the next one
(`CursorInv`). For each action a lemma says which of four things it does to the
shared state (go on, mutate the registry, stamp, append) and which of the debts
above it leaves; the invariants then follow from those accounts and not from the
text of sixty steps.
The types (`TypeOK`) are part of `PlaneInv` and proved as `PlaneTypes`; no run
lists them.

**ControlLoopProofs.** A report carries the number of the command it answers. In
one epoch numbers only grow, every change of the switch takes a new one, and
nothing on its way is ahead of the registry (`PastInv`). So a heartbeat or row
that says "off, as of the last command" was said by a producer that had closed
its camera and can not have been told "on" since (`OffInv`, `Dark`), which is
`SwitchedOffMeansClosed`. `FreeSlotMeansClosed` needs where the producer's loop
is (`ProducerInv`); `CatalogVerdictIsCurrent` that the row, read first, names a
revision, and that revision one position of the switch (`LookInv`).

**QualificationProofs.** An event is logged once and by the thread that perceived
it (`ThreadInv`); the journal holds logged events of this instance only
(`JournalInv`). So what the probe finds after its baseline is new, or the
service has restarted, which the instance number tells (`ProbeInv`): the last
identity check makes `PassIsFreshEvidence` true. A post is made of a journalled
event only, and one that timed out stays journalled however late it is handled
(`LateInv`), which is `AdmittedIsJournalled` for any number of threads.

**ReleaseChainProofs.** An edit changes what a file says and never its
reference. What made a tool write it is a fact about the reference
(`EarnedBundle`, `EarnedPromotion`, `EarnedFinalization`) and remains one, since
receipts and green commits only grow; it therefore holds of each copy a tool
took, whenever it took it (`EarnedTool`).

Only model-checked: the liveness properties `FollowerCatchesUp`,
`ResolvedUnlessReused`, `ConvergesWhileUp` and `CancelledRunEnds`, since the proof
system does not do liveness. The properties of section 6 are false, so there
is nothing to prove.

## 5. Fairness

- `SensorChangeJournal`: an append that has begun finishes (it holds the lock
  and makes no blocking call but the write). A client polls again and again,
  and its poll gets the lock although appends and restarts keep coming: the
  condition's lock is contended only for short sections, and clients in the
  documents poll in a loop. Appends, failures and restarts are not fair.
- `FrameDelivery`: a running producer goes on with the frame it has. Its HTTP
  timeout makes `Send \/ GiveUp` fair; `mark_dropped` and `mark_accepted` follow
  unconditionally. Somebody runs it again after a run has ended: weak fairness
  of `Start \/ RunAgain`, a new process or client, or the next run on the old
  client; nothing in the code decides which. A Python producer has no `RunAgain`,
  so that each of its runs recovers. A Kotlin application that keeps its session
  may run it again for ever, which `ResolvedUnlessReused` excepts and
  `same_session` shows (6.4). Neither the network nor the core is fair.
- `ControlLoop`: the producer's loop goes on (`WF` of `Loop`: its requests have
  timeouts), a frame and a heartbeat under way are handled or lost in the end,
  and the poll of a desktop client falls due although it captures any number of
  frames in between (`SF` of `FetchEnabled`: `next_control_check` is a
  deadline). Faults are bounded and not fair, nobody is obliged to start or stop
  a run, and the operator need not act; `ConvergesWhileUp` presumes a producer
  that is up from some time on.
- `Perception`, `Qualification` and `ReleaseChain` state safety only and no
  fairness: every one of their actors may stop at any step.

Runs whose configuration says `CHECK_DEADLOCK FALSE` (those of the control
plane, `control_loop`, `perception` and `release`) do so because the bounds on requests, events, faults and tools end
every behaviour.

## 6. Where the code and its documents disagree

Kept as runs that TLC must find violated:

1. `fleet_revision`. The fleet summary in a bootstrap reads the state revision
   when it is complete (`api.py:1046`), after the catalog. OBSERVABILITY.md:305
   tells clients to retain that `state_revision` for writes; a change made in
   between is covered by it and not shown, and a write guarded with it
   overwrites that change.
2. `journal_bootstrap`. A client that bootstrapped from an empty journal holds
   cursor 0, for which `read()` never reports a gap (`sensor_events.py:302`);
   events evicted before its first poll are skipped silently.
3. `forget_online`. `DELETE` checks that the producer is offline and then forgets
   it (`api.py:1519`); a heartbeat in between is not noticed.
4. `same_session`. A run of a Kotlin session that ends without recording the
   outcome of its frame (a failed write of the state file is enough) leaves it in
   flight. Only a new client recovers;
   clients/kaliv-android-producer/README.md:43-44 says the same session can be
   run again, and each such run fails at `reserve()` with "producer state has an
   in-flight frame; recover before reserve" (`DurableProducerState.kt:65`).

Stated in the modules and refuted by TLC when checked with the configuration
named, but not kept as runs of their own:

5. `ReplyIsResulting` (`MCSensorRegistry.cfg`). The handlers of retire, restore,
   forget and patch read the state revision for their answer in a call after the
   mutator (`api.py:1464`, 1493, 1552, 1616), so it may be that of another
   request's change, which the operator has not seen; README.md:182 calls it "the
   resulting `state_revision`". In the same way the `control_changed` event of a
   patch pairs the switch of its own request with a control revision read later
   (`api.py:1603`).
6. `AnswerIsOneCommand` (`MCControlLoop.cfg`). `desired_state()` reads the switch
   and its revision under separate locks (`sensor_registry.py:557`), so a
   producer can be handed the old switch with the revision of the new command,
   and acknowledges that revision (OBSERVABILITY.md:162: "exact command
   revision"). That the catalog compares the switch as well keeps it harmless
   (`SwitchedOffMeansClosed`).
7. `EventRevisionIsItsOwn` (`MCControlPlane.cfg`). An event is stamped with the
   registry's revision at append time (`api.py:125`), which another request may
   have advanced.
8. `JournalAheadIsOfTheFiles` (`MCControlPlaneFailures.cfg`). The consistency
   status reads the registry's revision and then the journal's (`api.py:225`). A
   request that completes in between makes it answer "journal_ahead" although
   nothing failed, which OBSERVABILITY.md:262-268 presents as a matter of the
   files.
9. `SuppressedIsKnown` (`MCQualification.cfg`). The gate suppresses a scene equal
   to the last one that a receipt committed (`modelrig_bridge.py:309`). When a
   post that had timed out is handled by ModelRig after that, ModelRig holds the
   late scene, and the suppressed one, a "meaningful scene change" (line 111),
   does not reach it until the scene changes again. TLC finds three other ways:
   an answer that is lost when the scene then returns to what it was before, two
   threads that commit their receipts in another order than they posted, and a
   ModelRig that restarted.

Observed with TLC on variants of the control plane and not kept as runs of
their own:

- A crash between the save of the registry and the append of the event loses
  the event, and the next event makes the consistency status "synced" again: a
  comparison of two newest revisions can not see a hole below them.
- A first frame that the ingress refuses has already been registered; the
  handler raises before it emits, and later frames find the sensor known. No
  event ever says that it was registered.
- An empty patch of an unknown sensor registers it without a new state
  revision. Retiring an unknown id makes it known with a "retired" event only.
- A sensor that was configured before it was first observed: the first
  observation advances the revision and emits nothing.

Read off `FrameDelivery`:

- When an answer is lost the core has the frame and the producer reports it as
  dropped; the core's count is an upper bound, which is what `FrameLedger`
  promises.
- Forgetting a source clears the ingress' last sequence but not the world's
  last event (`sensor_ingress.py:354`, `world.py:19`), so a producer that lost
  its state file and starts again at 0 is still refused until an event of
  another source arrives or the core restarts.

Read off `ControlLoop`:

- `stop()` before the job is dispatched cancels it; the body and its `finally`
  never run, `jobRef` keeps the job and `start()` returns false for good
  (`ProducerRunController.kt:31`). `CancelledRunEnds` therefore claims only for
  a job whose body began.
- Forgetting resets a sensor's control revision to 0. A heartbeat sent before it
  can arrive after the sensor was registered anew and match the revision of a
  new command: README.md:135 ("An old heartbeat can therefore never make a newer
  command look applied") holds between two forgets only, which is what the
  `epoch` in `SwitchedOffMeansClosed` says.

Read off `Perception` and `Qualification`:

- The event journal reports no gap to a reader at cursor 0, as the change
  journal does (`journal.py:55`).
- The qualifier remembers only its last candidate: a receipt for an earlier one
  that comes late is not noticed. An event of the direct endpoint can qualify
  when a later ingress frame covers its sequence.

Read off `ReleaseChain`, outside of what it checks:

- The contents of the version files are read from the working tree, not from
  the release commit (`release_finalization.py:247`); the model inspects the
  checkout in one step, so a checkout switched during the inspection is outside
  of it.
- The CI run and its jobs are fetched by two requests
  (`release_promotion.py:449`); a rerun in between can pair the attempt number
  of one with the job ids of the other. Both must have succeeded.
- Bundling the same receipts again keeps the bundle's reference but changes its
  bytes; the promotion binds both, so the status becomes
  `invalid_release_chain` until it is promoted anew.

Read off the code, in parts that are not modelled: `BoundedFrameQueue.offer`
drops a frame without its own `dropped_frames` (`capture.py:40`), which the only
client of the queue can not meet, as it empties the queue after every frame; and while a sensor is off its heartbeats repeat
the last observed packet utilization (`producer_cli.py:333`), so that the streak of the
packet target counts heartbeats, not frames.

## 7. What is not modelled

- Contents: images, metadata strings, timestamps, digests, the JSON of files
  and messages. Where two contents must be told apart they are model values.
- A `close()` that fails: `closeCaptureQuietly` swallows its exception before
  "off" is acknowledged (`ProducerControlLoop.kt:80-88`). That the camera is
  then closed rests on the contract of the interface, which has an implementation
  clear its open state first; `open` in `ControlLoop` is that state.
- Presence by the clock: a source goes offline at any moment, which includes
  every timing of the two thresholds.
- A corrupt or lost state, registry or journal file; two producers on one state
  file, which the documents exclude.
- The read-only projections of the fleet and catalog endpoints except the
  control status, and the packet telemetry they are computed from: streaks,
  episodes and flap windows over timestamps of one row, without interleaving
  beyond what `ControlPlane` has.
- The packet codec and the profile files: pure, sequential conversions.
- The collection of a Kinect receipt and the local capture client: sequential
  loops over one device.
- Inference, geometry, tracking, devices and platform camera APIs: floating
  point or outside the repository.

## 8. Plan

Modelled and checked: the registry, the journal, the control plane, the
delivery, the control loop, the perception service with its qualifier, and the
release chain. Proved: every safety invariant and action property of the passing runs,
and three refinements (`AtomicRegistry`, `EventFeed`, `FrameLedger`).

What could still be added, in this order:

1. An abstract specification of the bridge that holds in spite of 6.9: ModelRig
   holds for each source a scene that was perceived, and gets to hold the last
   one when the scenes keep changing and no fault occurs.
2. An abstract specification of the control loop: a camera that is commanded and
   acknowledged, with the row and the wire hidden.
3. The long poll and the append of the control plane's journal as
   `Publish` of `EventFeed`, so that the feed a client follows is the one the
   handlers write.
