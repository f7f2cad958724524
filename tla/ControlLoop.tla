---------------------------- MODULE ControlLoop ----------------------------
(***************************************************************************)
(* The control loop of one sensor: the operator's commands in the core's   *)
(* registry, the producer that fetches them, opens or closes its camera    *)
(* and reports what it applied, the ingress row those reports are kept in, *)
(* and the catalog that compares row and registry.                         *)
(*                                                                         *)
(* The producer is one of                                                  *)
(*   "desktop"  the client of producer_cli.py (webcam, screen, image or    *)
(*              Kinect; only the last negotiates a packet transport),      *)
(*   "android"  ProducerControlLoop run by a ProducerRunController,        *)
(* chosen once.  One process at a time; it may fail, die and start again   *)
(* while reports and frames it sent are still on their way.                *)
(*                                                                         *)
(* Abstractions.  A heartbeat is the switch and the revision it reports;   *)
(* a frame is only its effect on the row (FrameDelivery has its sequence   *)
(* and drop accounting).  Time is a choice: a poll or a refresh may be due *)
(* whenever the code lets it be, a row may age at any moment.  A handler   *)
(* that ControlPlane takes apart is one step here.                         *)
(***************************************************************************)
EXTENDS RegistryOps

CONSTANTS
  Source,       \* the sensor, one of Sources
  Type,         \* its source_type, one of Types
  Producers,    \* the kinds of producer explored
  Watched,      \* those beside which the catalog is explored
  MaxRevision,  \* bound: registry revision up to which the operator acts
  MaxFaults,    \* bound: lost, late and failed requests, crashes
  MaxLate       \* bound: frames left on their way by a timeout

Heartbeat == [active : BOOLEAN, applied : Nat, epoch : Nat]

Row == [active : BOOLEAN, applied : Nat \cup {None}, epoch : Nat]

Desired == [enabled : BOOLEAN, revision : Nat, epoch : Nat]

ASSUME ControlLoopAssumption ==
  /\ Source \in Sources
  /\ Type \in Types
  /\ None \notin Nat \cup Row \cup Desired
  /\ Watched \subseteq Producers
  /\ Producers \subseteq {"desktop", "android"}
  /\ {MaxRevision, MaxFaults, MaxLate} \subseteq Nat

VARIABLES
  reg,        \* the core's registry
  row,        \* the ingress row of the source, or None
  epoch,      \* how often the source was forgotten (no code reads it)
  wire,       \* heartbeats sent and not yet handled or lost
  late,       \* number of frames on their way whose sender gave up
  kind,       \* the kind of producer
  pc,         \* where the producer is
  desired,    \* the desired state it fetched and has not yet reported, or None
  open,       \* its camera is open
  slot,       \* jobRef of the run controller: "free" or "claimed"
  cancelled,  \* the claimed job was cancelled
  look,       \* a catalog request under way
  faults      \* faults so far

core == <<reg, row, epoch>>
network == <<wire, late>>
producer == <<kind, pc, desired, open>>
control == <<slot, cancelled>>
vars == <<core, network, producer, control, look, faults>>

Labels == {"down", "dispatched", "top", "fetch", "apply", "wait",
           "frame", "sleep", "closing", "closed"}

NoLook == [at |-> "idle", row |-> None, enabled |-> FALSE]

Told(r) == r # None /\ r.applied # None

Enabled == Get(reg, Source).enabled
Revision == reg.control[Source]

-----------------------------------------------------------------------------
(* The core *)

\* Each handler that changes the switch, as the operator calls it.
Operate(changed) ==
  /\ reg.revision < MaxRevision
  /\ reg' = changed
  /\ UNCHANGED <<row, epoch, network, producer, control, look, faults>>

Command(e) ==
  /\ ~PatchRefused(reg, Source, e)
  /\ e # Enabled
  /\ Operate(Patched(reg, Source, None, e))

Retire == ~Get(reg, Source).retired /\ Contains(reg, Source)
          /\ Operate(Retired(reg, Source))

Restore == Get(reg, Source).retired /\ Operate(Restored(reg, Source))

\* Only a retired sensor whose row is old enough can be forgotten; as a row may
\* age at any moment, its age restricts nothing here.
Forget ==
  /\ reg.revision < MaxRevision
  /\ Get(reg, Source).retired
  /\ reg' = Forgotten(reg, Source)
  /\ row' = None
  /\ epoch' = epoch + 1
  /\ look' = NoLook
  /\ UNCHANGED <<network, producer, control, faults>>

Fault == faults < MaxFaults /\ faults' = faults + 1

\* The registry is on disk, the ingress rows are not.
CoreRestart ==
  /\ Fault
  /\ row' = None
  /\ UNCHANGED <<reg, epoch, network, producer, control, look>>

\* Mutant: a report is only recorded when it is not older than the last.
ReportedNoOlder(h) ==
  IF row # None /\ row.applied # None /\ row.applied > h.applied THEN row
  ELSE [active |-> h.active, applied |-> h.applied, epoch |-> h.epoch]

\* A heartbeat replaces what the row says, whatever it said.
Reported(h) ==
  [active |-> h.active, applied |-> h.applied, epoch |-> h.epoch]

\* A frame proves that the camera is open and acknowledges nothing.
FrameSeen ==
  IF row = None
  THEN [active |-> TRUE, applied |-> None, epoch |-> epoch]
  ELSE [row EXCEPT !.active = TRUE]

-----------------------------------------------------------------------------
(* The producer *)

Goto(label) == pc' = label

\* A process starts; start() claims the slot, then its job is dispatched.
Start ==
  /\ pc = "down"
  /\ slot = "free"
  /\ IF kind = "android"
     THEN slot' = "claimed" /\ Goto("dispatched")
     ELSE UNCHANGED slot /\ Goto("top")
  /\ UNCHANGED <<core, network, kind, desired, open, cancelled, look, faults>>

\* Mutant: stop() gives the slot up itself.
StopFrees ==
  /\ slot = "claimed"
  /\ slot' = "free"
  /\ UNCHANGED <<core, network, producer, cancelled, look, faults>>

\* stop() only cancels the job; the job gives the slot up when it ends.
Stop ==
  /\ slot = "claimed" /\ ~cancelled
  /\ cancelled' = TRUE
  /\ UNCHANGED <<core, network, producer, slot, look, faults>>

\* The dispatcher runs the body of the job, unless it was cancelled before:
\* then the body, and its finally, never run and the slot stays claimed.
Dispatch ==
  /\ pc = "dispatched"
  /\ Goto(IF cancelled THEN "down" ELSE "top")
  /\ UNCHANGED <<core, network, kind, desired, open, control, look,
                 faults>>

Step(from, to) ==
  /\ pc = from
  /\ Goto(to)
  /\ UNCHANGED <<core, kind, control, look>>

\* A Kinect client negotiates its packet budget before all else and now and
\* again: what it gets is not told apart, a failure ends the run.
RefreshFails ==
  /\ kind = "desktop"
  /\ Step("top", "closing")
  /\ Fault
  /\ UNCHANGED <<network, desired, open>>

\* The core answers a fetch with two reads: first the switch ...
FetchEnabled ==
  /\ Step("top", "fetch")
  /\ desired' = [enabled |-> Enabled, revision |-> 0, epoch |-> epoch]
  /\ UNCHANGED <<network, open, faults>>

\* ... then the revision of the last command.
FetchRevision ==
  /\ Step("fetch", "apply")
  /\ desired' = [desired EXCEPT !.revision = Revision, !.epoch = epoch]
  /\ UNCHANGED <<network, open, faults>>

FetchFails ==
  /\ Step("fetch", "closing")
  /\ desired' = None
  /\ Fault
  /\ UNCHANGED <<network, open>>

\* Between two polls an enabled desktop client goes on capturing.
NotDue ==
  /\ kind = "desktop" /\ open
  /\ Step("top", "frame")
  /\ UNCHANGED <<network, desired, open, faults>>

Beat == [active |-> desired.enabled, applied |-> desired.revision,
         epoch |-> desired.epoch]

Post == wire' = wire \cup {Beat}

\* Mutant: the camera of a paused sensor stays open.
ApplyWithoutClosing ==
  /\ Step("apply", "wait")
  /\ open' = (open \/ desired.enabled)
  /\ Post
  /\ UNCHANGED <<late, desired, faults>>

\* The camera is opened or closed, then the command is acknowledged.
Apply ==
  /\ Step("apply", "wait")
  /\ open' = desired.enabled
  /\ Post
  /\ UNCHANGED <<late, desired, faults>>

OpenFails ==
  /\ Step("apply", "closing")
  /\ desired.enabled /\ ~open
  /\ desired' = None
  /\ Fault
  /\ UNCHANGED <<network, open>>

AfterBeat == IF desired.enabled THEN "frame" ELSE "sleep"

\* The core handles a heartbeat, at once or after its sender gave up; the
\* reply of the one awaited may be lost.
Deliver(h) ==
  /\ wire' = wire \ {h}
  /\ row' = Reported(h)
  /\ reg' = Observed(reg, Source, Type, None)
  /\ IF pc = "wait" /\ h = Beat
     THEN /\ desired' = None
          /\ \/ Goto(AfterBeat) /\ UNCHANGED faults
             \/ Goto("closing") /\ Fault
     ELSE UNCHANGED <<pc, desired, faults>>
  /\ UNCHANGED <<epoch, late, kind, open, control, look>>

\* A heartbeat fails or times out: the run ends, the heartbeat may still come.
BeatFails ==
  /\ pc = "wait"
  /\ Goto("closing")
  /\ wire' \in {wire, wire \ {Beat}}
  /\ desired' = None
  /\ Fault
  /\ UNCHANGED <<core, late, kind, open, control, look>>

\* A frame is captured and sent: the core accepts it, ...
FrameAccepted ==
  /\ pc = "frame"
  /\ row' = FrameSeen
  /\ reg' = Observed(reg, Source, Type, None)
  /\ open' = TRUE
  /\ Goto("sleep")
  /\ UNCHANGED <<epoch, network, kind, desired, control, look,
                 faults>>

\* ... or it is dropped, perhaps to arrive after its sender gave it up ...
FrameDropped ==
  /\ pc = "frame"
  /\ open' = TRUE
  /\ Goto("sleep")
  /\ late' \in {late, late + 1} /\ late' <= MaxLate
  /\ Fault
  /\ UNCHANGED <<core, wire, kind, desired, control, look>>

\* ... or the camera has no more, the frame is too large at the lowest
\* quality, or the gateway refuses it for good.
FrameEnds ==
  /\ Step("frame", "closing")
  /\ Fault
  /\ open' = TRUE
  /\ UNCHANGED <<network, desired>>

LateFrame ==
  /\ late > 0
  /\ late' = late - 1
  /\ \/ row' = FrameSeen /\ reg' = Observed(reg, Source, Type, None)
     \/ UNCHANGED <<row, reg>>
  /\ UNCHANGED <<epoch, wire, producer, control, look, faults>>

\* delay() is where a cancelled job notices; an interrupt, the frame limit or
\* shouldContinue() ends a run too.
Sleep ==
  /\ \/ ~cancelled /\ Step("sleep", "top")
     \/ Step("sleep", "closing")
  /\ UNCHANGED <<network, desired, open, faults>>

\* finally: whatever ended the run, the camera is closed ...
Close ==
  /\ Step("closing", "closed")
  /\ open' = FALSE
  /\ UNCHANGED <<network, desired, faults>>

\* Mutant: the body of a cancelled job does not give its slot up.
EndKeepsSlot ==
  /\ pc = "closed"
  /\ Goto("down")
  /\ IF cancelled THEN UNCHANGED control
     ELSE slot' = "free" /\ cancelled' = FALSE
  /\ UNCHANGED <<core, network, kind, desired, open, look, faults>>

\* ... and then the slot is free for the next start().
End ==
  /\ pc = "closed"
  /\ Goto("down")
  /\ slot' = "free"
  /\ cancelled' = FALSE
  /\ UNCHANGED <<core, network, kind, desired, open, look, faults>>

\* The process dies: the system releases its camera.
Die ==
  /\ pc \notin {"down", "dispatched"}
  /\ Fault
  /\ Goto("down")
  /\ desired' = None
  /\ open' = FALSE
  /\ slot' = "free"
  /\ cancelled' = FALSE
  /\ UNCHANGED <<core, network, kind, look>>

-----------------------------------------------------------------------------
(* The catalog: the runtime rows first, then the switch, then the revision *)

LookRow ==
  /\ look.at = "idle"
  /\ kind \in Watched
  /\ Told(row)
  /\ look' = [at |-> "row", row |-> row, enabled |-> FALSE]
  /\ UNCHANGED <<core, network, producer, control, faults>>

LookEnabled ==
  /\ look.at = "row"
  /\ look' = [look EXCEPT !.at = "enabled", !.enabled = Enabled]
  /\ UNCHANGED <<core, network, producer, control, faults>>

LookRevision ==
  /\ look.at = "enabled"
  /\ look' = NoLook
  /\ UNCHANGED <<core, network, producer, control, faults>>

\* Mutant: only the revision decides.
StatusByRevision(r, enabled, revision) ==
  IF r = None \/ r.applied = None THEN "unknown"
  ELSE IF r.applied = revision THEN "converged" ELSE "pending"

Status(r, enabled, revision) ==
  IF r = None \/ r.applied = None THEN "unknown"
  ELSE IF r.applied = revision /\ r.active = enabled THEN "converged"
  ELSE "pending"

-----------------------------------------------------------------------------

Init ==
  /\ reg = Observed(EmptyRegistry, Source, Type, None)
  /\ row = None /\ epoch = 0
  /\ wire = {} /\ late = 0
  /\ kind \in Producers
  /\ pc = "down" /\ desired = None /\ open = FALSE
  /\ slot = "free" /\ cancelled = FALSE
  /\ look = NoLook
  /\ faults = 0

Loop ==
  \/ Dispatch \/ FetchEnabled \/ FetchRevision \/ NotDue
  \/ Apply \/ FrameAccepted \/ Sleep \/ Close \/ End

Next ==
  \/ \E e \in BOOLEAN : Command(e)
  \/ Retire \/ Restore \/ Forget \/ CoreRestart
  \/ Start \/ Stop \/ Loop
  \/ RefreshFails \/ FetchFails \/ OpenFails \/ BeatFails
  \/ FrameDropped \/ FrameEnds \/ Die
  \/ \E h \in wire : Deliver(h)
  \/ LateFrame
  \/ LookRow \/ LookEnabled \/ LookRevision

\* The producer's loop runs, what is on its way arrives or is given up, and a
\* desktop client's poll comes due however many frames it takes in between.
Fairness ==
  /\ WF_vars(Loop)
  /\ WF_vars(LateFrame)
  /\ WF_vars(\E h \in wire : Deliver(h))
  /\ SF_vars(FetchEnabled)

Spec == Init /\ [][Next]_vars /\ Fairness

-----------------------------------------------------------------------------
(* Properties *)

(* Every variable keeps its type; late reports and frames stay in bounds. *)
TypeOK ==
  /\ reg \in Registry
  /\ row \in Row \cup {None}
  /\ epoch \in Nat
  /\ wire \subseteq Heartbeat
  /\ late \in 0 .. MaxLate
  /\ kind \in Producers
  /\ pc \in Labels
  /\ desired \in Desired \cup {None}
  /\ {open, cancelled} \subseteq BOOLEAN
  /\ slot \in {"free", "claimed"}
  /\ look.at \in {"idle", "row", "enabled"}
  /\ look.row \in Row \cup {None}
  /\ faults \in 0 .. MaxFaults

(* A sensor the catalog shows as converged on "off" has its camera closed: *)
(* no report or frame of an earlier command, of a run that died or of a    *)
(* fetch that was torn between two commands can make it look applied       *)
(* while the camera is open.  Only reports that follow the last time the   *)
(* source was forgotten are claimed for; forgetting starts the revisions   *)
(* from 0 again.                                                           *)
SwitchedOffMeansClosed ==
  /\ Status(row, Enabled, Revision) = "converged"
  /\ ~Enabled
  /\ row.epoch = epoch
  => ~open

(* start() admits a new run only after the run before has closed its       *)
(* camera, however the stop, the end of the job and the start interleave.  *)
FreeSlotMeansClosed ==
  kind = "android" /\ slot = "free" => ~open /\ pc = "down"

(* The catalog reads the row, the switch and the revision one after the    *)
(* other while commands and reports go on.  When it says "converged", the  *)
(* capture state it read is the one the operator wants at that moment.     *)
CatalogVerdictIsCurrent ==
  [][LookRevision
       /\ Status(look.row, look.enabled, Revision) = "converged"
       /\ look.row.epoch = epoch
     => look.row.active = Enabled]_vars

(* Once commands and faults are over, a producer that keeps running brings *)
(* its sensor to "converged" and keeps it there.                           *)
ConvergesWhileUp ==
  <>[](pc \notin {"down", "dispatched"})
    => <>[](Status(row, Enabled, Revision) = "converged")

(* A job that is cancelled after its body began closes its camera and      *)
(* frees the slot for the next start().                                    *)
CancelledRunEnds ==
  cancelled /\ pc \notin {"down", "dispatched"} ~> slot = "free" /\ ~open

(* "applied_revision: exact command revision applied by the producer": the *)
(* revision a producer is handed is the one of the switch handed with it,  *)
(* so long as it is still the current one.                                 *)
AnswerIsOneCommand ==
  pc = "apply" /\ desired.revision = Revision => desired.enabled = Enabled
=============================================================================
