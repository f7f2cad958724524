---------------------------- MODULE ControlPlane ----------------------------
(***************************************************************************)
(* The control plane of the core service: the HTTP handlers of create_app  *)
(* running in a thread pool over one SensorRegistry, one                   *)
(* SensorChangeJournal and the runtime table of SensorIngress.             *)
(*                                                                         *)
(* A registry mutator and a journal append are one step each: they hold    *)
(* their lock to the end and leave nothing behind when they fail (modules  *)
(* SensorRegistry and SensorChangeJournal).  What a handler does between   *)
(* its calls is not protected, so every call is a step of its own: reading *)
(* the previous state, mutating the registry, stamping an event with the   *)
(* registry's revision, appending it, updating the runtime table, and      *)
(* refreshing the readiness summary.  Consecutive reads at the start of a  *)
(* handler are one step.  Heartbeats exclude each other, and the frame and *)
(* packet handlers share the event loop except while they await the worker *)
(* thread that decodes.  expected_state_revision is left to SensorRegistry.*)
(*                                                                         *)
(* A write may raise, a frame may be refused (the handler then ends with   *)
(* an error), and the process may crash; the runtime table and the         *)
(* readiness summary live in memory only.  No event is evicted here.       *)
(***************************************************************************)
EXTENDS RegistryOps, JournalOps

CONSTANTS
  Threads,      \* request handlers that may run at once
  Kinds,        \* the requests clients send
  Reports,      \* what heartbeats report: [active, ack]
  Failures,     \* what may go wrong: "write", "frame", "crash"
  Readers,      \* what else is called: "bootstrap", "consistency"
  Capacity,     \* capacity of the journal
  MaxRequests   \* bound on the number of requests, for model checking

AllKinds == {"heartbeat", "frame", "packet", "retire", "restore", "forget", "patch"}

\* A runtime row: the last report, and whether a heartbeat ever came.
Row ==
  [active : BOOLEAN, ack : {None} \cup {r.ack : r \in Reports},
   beat : BOOLEAN, online : BOOLEAN]

ASSUME ControlPlaneAssumption ==
  /\ Kinds \subseteq AllKinds
  /\ \A r \in Reports : r.active \in BOOLEAN
  /\ None \notin Row
  /\ Failures \subseteq {"write", "frame", "crash"}
  /\ Readers \subseteq {"bootstrap", "consistency"}
  /\ Capacity \in Nat \ {0}
  /\ MaxRequests \in Nat

VARIABLES
  reg,       \* the registry, in memory and on disk
  jr,        \* the change journal, in memory and on disk
  run,       \* SensorIngress._sources: per source its runtime row, or None
  ready,     \* producer_readiness_transition_state["current"], or None
  thread,    \* the locals of every request handler
  requests,  \* requests accepted so far
  failed,    \* history: a request ended with an error or a crash happened
  ui,        \* a UI client's bootstrap: sampled cursor, snapshot revision
  check      \* sensor_change_consistency_payload: the revision read, the status

vars == <<reg, jr, run, ready, thread, requests, failed, ui, check>>

Idle ==
  [pc |-> "idle", kind |-> None, src |-> None, arg |-> None, was |-> FALSE,
   disc |-> None, run |-> None, prev |-> None, control |-> 0,
   result |-> None, at |-> None, event |-> None, then |-> "idle"]

\* Answering the request ends the handler and its locals.
Goto(h, pc) ==
  thread' = [thread EXCEPT
    ![h] = IF pc = "idle" THEN Idle ELSE [@ EXCEPT !.pc = pc, !.event = None]]

Finish(h) == Goto(h, "idle")

At(h, pc) == thread[h].pc = pc

KindOf(h) == thread[h].kind

Async == {"frame", "packet"}

\* heartbeat_transition_lock
HeartbeatLocked == \E h \in Threads : KindOf(h) = "heartbeat"

\* A frame or packet handler is between two awaits.
LoopBusy ==
  \E h \in Threads : KindOf(h) \in Async /\ thread[h].pc \notin {"ingress", "resume"}

-----------------------------------------------------------------------------
(* A request arrives.  The handler reads the state it will compare with.   *)

Arguments(kind) ==
  CASE kind = "heartbeat" -> [device : Devices \cup {None}, report : Reports]
    [] kind \in {"frame", "packet"} -> [device : Devices \cup {None}]
    [] kind = "patch" -> [meta : Metas \cup {None}, enabled : BOOLEAN \cup {None}]
    [] OTHER -> {None}

\* Where a handler goes after reading its previous state; forget first
\* checks registration and retirement and then looks at the presence.
FirstStep(kind, s) ==
  CASE kind \in {"heartbeat", "frame"} -> "observe"
    [] kind = "packet" -> "ingress"
    [] kind = "forget" -> IF Contains(reg, s) /\ Get(reg, s).retired
                          THEN "presence" ELSE "idle"
    [] OTHER -> "mutate"

Request(h, kind, s, arg) ==
  /\ At(h, "idle")
  /\ requests < MaxRequests
  /\ kind = "heartbeat" => ~HeartbeatLocked
  /\ kind \in Async => ~LoopBusy
  /\ FirstStep(kind, s) # "idle"
  /\ requests' = requests + 1
  /\ thread' = [thread EXCEPT ![h] =
       [Idle EXCEPT !.pc = FirstStep(kind, s), !.kind = kind, !.src = s,
                    !.arg = arg, !.was = Contains(reg, s),
                    !.disc = reg.discovery[s], !.run = run[s],
                    !.prev = Get(reg, s), !.control = reg.control[s]]]
  /\ UNCHANGED <<reg, jr, run, ready, failed, ui, check>>

-----------------------------------------------------------------------------
(* Registry calls *)

\* Remember the revision this handler's own mutation produced, if it did.
Mutated(h, new, pc) ==
  /\ reg' = new
  /\ thread' = [thread EXCEPT
       ![h].pc     = pc,
       ![h].result = Get(new, thread[h].src),
       ![h].at     = IF new.revision # reg.revision THEN new.revision ELSE None]
  /\ UNCHANGED <<jr, run, ready, requests, failed, ui, check>>

\* A conflicting source_type ends the handler exactly as a failed write does.
Observe(h) ==
  /\ At(h, "observe")
  /\ \E t \in Types :
       /\ ~IdentityConflict(reg, thread[h].src, t)
       /\ Mutated(h, Observed(reg, thread[h].src, t, thread[h].arg.device),
                  IF KindOf(h) = "packet" THEN "registration" ELSE "ingress")

Retire(h) ==
  /\ At(h, "mutate") /\ KindOf(h) = "retire"
  /\ Mutated(h, IF Get(reg, thread[h].src).retired THEN reg
                ELSE Retired(reg, thread[h].src), "lifecycle")

Restore(h) ==
  /\ At(h, "mutate") /\ KindOf(h) = "restore"
  /\ Mutated(h, IF Get(reg, thread[h].src).retired
                THEN Restored(reg, thread[h].src) ELSE reg, "lifecycle")

Patch(h) ==
  LET arg == thread[h].arg
      s   == thread[h].src
  IN /\ At(h, "mutate") /\ KindOf(h) = "patch"
     /\ ~PatchRefused(reg, s, arg.enabled)
     /\ Mutated(h, Patched(reg, s, arg.meta, arg.enabled), "registered")

\* registry.forget repeats the retirement check under its lock.
Forget(h) ==
  LET s == thread[h].src
  IN /\ At(h, "mutate") /\ KindOf(h) = "forget"
     /\ Contains(reg, s) /\ Get(reg, s).retired
     /\ Mutated(h, Forgotten(reg, s), "forgetSource")

\* The mutators' error paths: PATCH enabling a retired sensor, and a sensor
\* restored or forgotten between the checks of DELETE and its mutation.
Refused(h) ==
  /\ At(h, "mutate")
  /\ \/ KindOf(h) = "patch" /\ PatchRefused(reg, thread[h].src, thread[h].arg.enabled)
     \/ KindOf(h) = "forget" /\ ~Get(reg, thread[h].src).retired
  /\ Finish(h)
  /\ UNCHANGED <<reg, jr, run, ready, requests, failed, ui, check>>

-----------------------------------------------------------------------------
(* The runtime table of SensorIngress *)

\* A heartbeat replaces what the producer reports; an accepted frame marks
\* capture active and keeps the last acknowledgement.
Seen(h) ==
  IF KindOf(h) = "heartbeat"
  THEN [active |-> thread[h].arg.report.active, ack |-> thread[h].arg.report.ack,
        beat |-> TRUE, online |-> TRUE]
  ELSE IF run[thread[h].src] = None
       THEN [active |-> TRUE, ack |-> None, beat |-> FALSE, online |-> TRUE]
       ELSE [run[thread[h].src] EXCEPT !.active = TRUE, !.online = TRUE]

Ingress(h) ==
  /\ At(h, "ingress")
  /\ run' = [run EXCEPT ![thread[h].src] = Seen(h)]
  /\ Goto(h, IF KindOf(h) \in Async THEN "resume" ELSE "registration")
  /\ UNCHANGED <<reg, jr, ready, requests, failed, ui, check>>

\* The await returns when the event loop is free.
Resume(h) ==
  /\ At(h, "resume")
  /\ ~LoopBusy
  /\ Goto(h, IF KindOf(h) = "packet" THEN "observe" ELSE "registration")
  /\ UNCHANGED <<reg, jr, run, ready, requests, failed, ui, check>>

\* DELETE is refused while the source is online.
CheckPresence(h) ==
  LET row == run[thread[h].src]
  IN /\ At(h, "presence")
     /\ IF row # None /\ row.online THEN Finish(h) ELSE Goto(h, "mutate")
     /\ UNCHANGED <<reg, jr, run, ready, requests, failed, ui, check>>

\* Mutant: DELETE does not refresh the readiness summary.
ForgetSourceUnrefreshed(h) ==
  /\ At(h, "forgetSource")
  /\ run' = [run EXCEPT ![thread[h].src] = None]
  /\ Goto(h, "forgotten")
  /\ UNCHANGED <<reg, jr, ready, requests, failed, ui, check>>

ForgetSource(h) ==
  /\ At(h, "forgetSource")
  /\ run' = [run EXCEPT ![thread[h].src] = None]
  /\ Goto(h, "refresh")
  /\ UNCHANGED <<reg, jr, ready, requests, failed, ui, check>>

\* No heartbeat and no frame for offline_after_seconds.
GoOffline(s) ==
  /\ run[s] # None
  /\ run[s].online
  /\ run' = [run EXCEPT ![s].online = FALSE]
  /\ UNCHANGED <<reg, jr, ready, thread, requests, failed, ui, check>>

-----------------------------------------------------------------------------
(* Events.  append_sensor_change reads the registry's revision and then    *)
(* appends; "reflects" is history: the revision of the handler's mutation. *)

\* Mutant: an event is stamped with the journal's own revision.
StampFromJournal(h, kind, then) ==
  thread' = [thread EXCEPT
    ![h].pc = "append",
    ![h].then = then,
    ![h].event = [kind |-> kind, source |-> thread[h].src,
                  revision |-> jr.high,
                  reflects |-> IF kind = "runtime_changed" THEN None
                               ELSE thread[h].at]]

Stamp(h, kind, then) ==
  thread' = [thread EXCEPT
    ![h].pc = "append",
    ![h].then = then,
    ![h].event = [kind |-> kind, source |-> thread[h].src,
                  revision |-> reg.revision,
                  reflects |-> IF kind = "runtime_changed" THEN None
                               ELSE thread[h].at]]

EmitIf(h, condition, kind, then) ==
  /\ IF condition THEN Stamp(h, kind, then)
                  ELSE Goto(h, then)
  /\ UNCHANGED <<reg, jr, run, ready, requests, failed, ui, check>>

\* emit_registration_changes
EmitRegistration(h) ==
  LET s    == thread[h].src
      next == IF KindOf(h) = "heartbeat" THEN "runtime" ELSE "refresh"
  IN /\ At(h, "registration")
     /\ IF ~thread[h].was /\ Contains(reg, s)
        THEN EmitIf(h, TRUE, "registered", next)
        ELSE EmitIf(h, /\ thread[h].disc # None
                       /\ reg.discovery[s] # None
                       /\ thread[h].disc # reg.discovery[s],
                    "discovery_changed", next)

\* emit_runtime_change
EmitRuntime(h) ==
  LET row == run[thread[h].src]
      old == thread[h].run
  IN /\ At(h, "runtime")
     /\ EmitIf(h, /\ row # None
                  /\ \/ old = None
                     \/ old.active # row.active
                     \/ old.ack # row.ack
                     \/ old.beat # row.beat,
               "runtime_changed", "refresh")

\* retire and restore report a transition from what they read at first.
EmitLifecycle(h) ==
  /\ At(h, "lifecycle")
  /\ IF KindOf(h) = "retire"
     THEN EmitIf(h, ~thread[h].prev.retired /\ thread[h].result.retired,
                 "retired", "idle")
     ELSE EmitIf(h, thread[h].prev.retired /\ ~thread[h].result.retired,
                 "restored", "idle")

\* Mutant: PATCH asks whether the sensor was registered after the fact.
EmitPatchRegisteredLate(h) ==
  /\ At(h, "registered")
  /\ EmitIf(h, ~Contains(reg, thread[h].src), "registered", "metadata")

EmitPatchRegistered(h) ==
  /\ At(h, "registered")
  /\ EmitIf(h, ~thread[h].was, "registered", "metadata")

EmitPatchMetadata(h) ==
  /\ At(h, "metadata")
  /\ EmitIf(h, thread[h].prev.meta # thread[h].result.meta,
            "metadata_changed", "control")

EmitPatchControl(h) ==
  /\ At(h, "control")
  /\ EmitIf(h, \/ thread[h].prev.enabled # thread[h].result.enabled
               \/ thread[h].control # reg.control[thread[h].src],
            "control_changed", "idle")

EmitForgotten(h) ==
  /\ At(h, "forgotten")
  /\ EmitIf(h, TRUE, "forgotten", "idle")

AppendEvent(h) ==
  /\ At(h, "append")
  /\ jr' = Appended(jr, thread[h].event, Capacity)
  /\ Goto(h, thread[h].then)
  /\ UNCHANGED <<reg, run, ready, requests, failed, ui, check>>

-----------------------------------------------------------------------------
(* Readiness *)

Rows == {s \in Sources : run[s] # None}

\* producer_readiness_payload: sources in the table, sources with a beat.
Readiness ==
  [sources |-> Cardinality(Rows),
   beats   |-> Cardinality({s \in Rows : run[s].beat})]

ReadinessChanged ==
  ready # None /\ Readiness.sources # 0 /\ ready.sources # 0 /\ Readiness # ready

\* The transition lock covers comparison, update and append; a first
\* summary, or one from or to no sources at all, is only a new baseline.
Refresh(h) ==
  /\ At(h, "refresh")
  /\ ready' = Readiness
  /\ jr' = IF ReadinessChanged
           THEN Appended(jr, [kind |-> "producer_readiness_changed",
                              source |-> thread[h].src,
                              revision |-> reg.revision,
                              reflects |-> None], Capacity)
           ELSE jr
  /\ Goto(h, IF KindOf(h) = "forget" THEN "forgotten" ELSE "idle")
  /\ UNCHANGED <<reg, run, requests, failed, ui, check>>

-----------------------------------------------------------------------------
(* Failure *)

NoBootstrap == [phase |-> "none", cursor |-> 0, revision |-> 0]

NoCheck == [status |-> "none", revision |-> 0]

\* A write raises, or ingress refuses the frame: the handler ends there.
Fails(h) ==
  /\ \/ /\ "write" \in Failures
        /\ \/ thread[h].pc \in {"observe", "mutate", "append"}
           \/ At(h, "refresh") /\ ReadinessChanged
     \/ /\ "frame" \in Failures
        /\ At(h, "ingress") /\ KindOf(h) \in Async
  /\ Finish(h)
  /\ failed' = TRUE
  /\ UNCHANGED <<reg, jr, run, ready, requests, ui, check>>

Crash ==
  /\ "crash" \in Failures
  /\ run' = [s \in Sources |-> None]
  /\ ready' = None
  /\ thread' = [h \in Threads |-> Idle]
  /\ ui' = IF ui.phase = "cursor" THEN NoBootstrap ELSE ui
  /\ check' = NoCheck
  /\ failed' = TRUE
  /\ UNCHANGED <<reg, jr, requests>>

-----------------------------------------------------------------------------
(* Readers *)

\* Mutant: the cursor handed out is the one the next event will get.
SampleNextCursor ==
  /\ "bootstrap" \in Readers
  /\ ui.phase = "none"
  /\ ui' = [phase |-> "cursor", cursor |-> jr.next, revision |-> 0]
  /\ UNCHANGED <<reg, jr, run, ready, thread, requests, failed, check>>

\* GET /sensors/bootstrap: the cursor first, then the registry.
SampleCursor ==
  /\ "bootstrap" \in Readers
  /\ ui.phase = "none"
  /\ ui' = [phase |-> "cursor", cursor |-> NewestCursor(jr), revision |-> 0]
  /\ UNCHANGED <<reg, jr, run, ready, thread, requests, failed, check>>

TakeSnapshot ==
  /\ ui.phase = "cursor"
  /\ ui' = [ui EXCEPT !.phase = "snapshot", !.revision = reg.revision]
  /\ UNCHANGED <<reg, jr, run, ready, thread, requests, failed, check>>

\* sensor_change_consistency_payload reads the registry, then the journal.
CompareRegistry ==
  /\ "consistency" \in Readers
  /\ check.status = "none"
  /\ check' = [check EXCEPT !.status = "reading", !.revision = reg.revision]
  /\ UNCHANGED <<reg, jr, run, ready, thread, requests, failed, ui>>

Status(revision, high) ==
  CASE revision = high -> "synced"
    [] revision > high -> "registry_ahead"
    [] OTHER -> "journal_ahead"

CompareJournal ==
  /\ check.status = "reading"
  /\ check' = [check EXCEPT !.status = Status(check.revision, jr.high)]
  /\ UNCHANGED <<reg, jr, run, ready, thread, requests, failed, ui>>

-----------------------------------------------------------------------------
Init ==
  /\ reg = EmptyRegistry
  /\ jr = EmptyJournal(1)
  /\ run = [s \in Sources |-> None]
  /\ ready = None
  /\ thread = [h \in Threads |-> Idle]
  /\ requests = 0
  /\ failed = FALSE
  /\ ui = NoBootstrap
  /\ check = NoCheck

HandlerStep(h) ==
  \/ Observe(h) \/ Retire(h) \/ Restore(h) \/ Patch(h) \/ Forget(h) \/ Refused(h)
  \/ Ingress(h) \/ Resume(h) \/ CheckPresence(h) \/ ForgetSource(h)
  \/ EmitRegistration(h) \/ EmitRuntime(h) \/ EmitLifecycle(h)
  \/ EmitPatchRegistered(h) \/ EmitPatchMetadata(h) \/ EmitPatchControl(h)
  \/ EmitForgotten(h) \/ AppendEvent(h) \/ Refresh(h)

Next ==
  \/ \E h \in Threads, kind \in Kinds, s \in Sources :
        \E arg \in Arguments(kind) : Request(h, kind, s, arg)
  \/ \E h \in Threads : HandlerStep(h) \/ Fails(h)
  \/ \E s \in Sources : GoOffline(s)
  \/ Crash
  \/ SampleCursor
  \/ TakeSnapshot
  \/ CompareRegistry
  \/ CompareJournal

Spec == Init /\ [][Next]_vars

-----------------------------------------------------------------------------
(* Properties *)

Event ==
  [kind : {"registered", "discovery_changed", "runtime_changed", "retired",
           "restored", "metadata_changed", "control_changed", "forgotten",
           "producer_readiness_changed"},
   source : Sources, revision : Nat, reflects : Nat \cup {None}]

Journal ==
  [stream : Nat, items : Seq([cursor : Nat, event : Event]), next : Nat, high : Nat]

Steps ==
  {"idle", "observe", "ingress", "resume", "presence", "mutate", "registration",
   "runtime", "refresh", "lifecycle", "registered", "metadata", "control",
   "forgetSource", "forgotten", "append"}

AllArguments == UNION {Arguments(kind) : kind \in Kinds}

Handler ==
  [pc : Steps, kind : Kinds \cup {None}, src : Sources \cup {None},
   arg : AllArguments \cup {None},
   was : BOOLEAN, disc : Discovery \cup {None}, run : Row \cup {None},
   prev : Metadata \cup {None}, control : Nat, result : Metadata \cup {None},
   at : Nat \cup {None}, event : Event \cup {None},
   then : {"idle", "runtime", "refresh", "metadata", "control"}]

\* What a handler has read and been given by the time it is at a step.
LocalsOK(t) ==
  /\ t.pc # "idle" => /\ t.kind \in Kinds /\ t.src \in Sources
                      /\ t.arg \in Arguments(t.kind)
  /\ t.pc \in {"observe", "ingress", "resume"} =>
       t.kind \in {"heartbeat", "frame", "packet"}
  /\ t.pc = "append" => t.event \in Event

TypeOK ==
  /\ reg \in Registry
  /\ jr \in Journal
  /\ run \in [Sources -> Row \cup {None}]
  /\ ready \in [sources : Nat, beats : Nat] \cup {None}
  /\ thread \in [Threads -> Handler]
  /\ \A h \in Threads : LocalsOK(thread[h])
  /\ requests \in 0 .. MaxRequests
  /\ failed \in BOOLEAN
  /\ ui \in [phase : {"none", "cursor", "snapshot"}, cursor : Nat, revision : Nat]
  /\ check \in [status : {"none", "reading", "synced", "registry_ahead",
                         "journal_ahead"}, revision : Nat]

Quiet == \A h \in Threads : At(h, "idle")

Retained == {jr.items[i] : i \in DOMAIN jr.items}

\* The revisions some retained event was appended for.
Reported == {e.event.reflects : e \in Retained} \ {None}

(* No event claims a revision that the registry has not reached: at every  *)
(* moment, whatever failed or crashed between the two files, the journal's *)
(* high water is at most the registry's revision.  It speaks of the files  *)
(* only: not of a status that reads them at two moments, and not of events *)
(* that were lost.                                                         *)
JournalNeverAhead == jr.high <= reg.revision

(* "journal_ahead: journal watermark is newer than the registry file",     *)
(* "which should be investigated": a status that says so is true.          *)
JournalAheadIsOfTheFiles ==
  check.status = "journal_ahead" => jr.high > reg.revision

(* "Changes racing with snapshot construction may be replayed, but cannot  *)
(* be missed": an event for a mutation the snapshot does not contain lies  *)
(* after the sampled cursor, so the client will be sent it.                *)
BootstrapCursorIsSafe ==
  ui.phase = "snapshot" =>
    \A e \in Retained :
      e.event.reflects # None /\ e.event.reflects > ui.revision
        => e.cursor > ui.cursor

(* An event never claims to be older than the mutation it was emitted for, *)
(* so a client that has applied it may count that mutation as seen.        *)
EventsAreNotBackdated ==
  \A e \in Retained :
    e.event.reflects # None => e.event.reflects <= e.event.revision

(* Once the requests have drained, the readiness summary is that of the    *)
(* runtime table: no interleaving of frames, heartbeats and forgets leaves *)
(* an older summary behind.                                                *)
ReadinessIsCurrentWhenQuiet ==
  Quiet /\ ~failed => ready = Readiness \/ (ready = None /\ Rows = {})

\* The journal has had room for every event so far.
NothingEvicted == jr.next <= Capacity + 1

(* "Events are emitted [for] first registration": where nothing fails and  *)
(* nothing is forgotten, every sensor the registry knows has been reported *)
(* once the requests have drained, as registered, or as retired when       *)
(* retiring an unknown id is what made it known; the journal holds that    *)
(* event until it has evicted one.                                         *)
RegisteredIsReported ==
  Quiet /\ ~failed /\ "forget" \notin Kinds /\ NothingEvicted =>
    \A s \in Sources :
      Contains(reg, s) =>
        \E e \in Retained : /\ e.event.kind \in {"registered", "retired"}
                            /\ e.event.source = s

(* "stamped with the registry revision it reflects".                       *)
EventRevisionIsItsOwn ==
  \A e \in Retained :
    e.event.reflects # None => e.event.revision = e.event.reflects

(* "An active/stale/online producer cannot be forgotten".                  *)
ForgetOnlyOffline ==
  [][\A s \in Sources :
       Contains(reg, s) /\ ~Contains(reg', s) => run[s] = None \/ ~run[s].online]_vars
=============================================================================
