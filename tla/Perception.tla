----------------------------- MODULE Perception -----------------------------
(***************************************************************************)
(* The perception runtime of one service process and its ModelRig bridge.  *)
(* A frame is perceived, the event applied to the visual world, appended   *)
(* to the event journal and published to ModelRig, in that order and in    *)
(* the thread of the request that brought the frame.  Many threads do so   *)
(* at once: that of the sensor ingress, which has one processing slot, and *)
(* those of the direct endpoint, one for each request; nothing but the     *)
(* short locks of the world, the journal and the bridge orders their       *)
(* steps.                                                                  *)
(*                                                                         *)
(* ModelRig is another process.  It may handle a post long after the       *)
(* bridge gave up on it, and it may lose what it knows of the scenes.      *)
(*                                                                         *)
(* Abstractions.  What an event shows is its scene, which is what the      *)
(* change gate fingerprints; Blank is a scene without any observation.     *)
(* Pipeline stages are not modelled.  The two reads before a post (the     *)
(* gate, the back-off) are one step, as are the two writes after it.       *)
(***************************************************************************)
EXTENDS Integers, Sequences, FiniteSets

CONSTANTS
  Sources,       \* source ids
  Cam,           \* the sensor whose frames come through the ingress
  DirectThreads, \* threads of the direct endpoint
  DirectSources, \* sources named by its requests
  Scenes,        \* what a frame may show
  Blank,         \* the scene without a semantic observation
  None,
  Capacity,      \* of the event journal
  Receipts,      \* successful bridge results retained
  Failures,      \* what may fail or be interrupted: members of AllFailures
  MaxEvents,     \* bound: events perceived
  MaxDirect,     \* bound: events of the direct endpoint
  MaxFaults      \* bound: failures and interruptions

\* "by" is the instance that perceived the event, for the properties.
Event == [id : Nat, by : Nat, src : Sources, seq : Nat, scene : Scenes]

AllFailures ==
  {"refused", "timeout", "answer", "modelrig", "restart", "pause", "forget"}

ASSUME PerceptionAssumption ==
  /\ Cam \in Sources
  /\ DirectSources \subseteq Sources
  /\ "ingress" \notin DirectThreads
  /\ Failures \subseteq AllFailures
  /\ Blank \in Scenes
  /\ None \notin Scenes \cup Event
  /\ {Capacity, Receipts, MaxEvents} \subseteq Nat \ {0}
  /\ {MaxDirect, MaxFaults} \subseteq Nat

Threads == {"ingress"} \cup DirectThreads

VARIABLES
  instance, \* number of the service process (service_instance_id)
  made,     \* events perceived so far; an event's id
  direct,   \* how many of them by the direct endpoint
  thread,   \* what each thread is doing
  world,    \* the last event applied, or None
  journal,  \* [entries, next]: the event journal
  row,      \* the ingress row of Cam, or None
  gate,     \* fingerprint last committed, by source
  backoff,  \* the retry back-off is active
  results,  \* successful bridge results, newest last
  late,     \* events whose post the bridge gave up on
  rig,      \* ModelRig: events freshly admitted, its scene of each source
  logged,   \* ids of all events ever journalled (no code reads it)
  faults    \* failures and interruptions so far

local == <<world, journal>>
bridge == <<gate, backoff, results, late, rig>>
perceptionVars == <<instance, made, direct, thread, local, row, bridge, logged,
                    faults>>

Idle == [at |-> "idle", ev |-> None, answer |-> None]

At(t, label) == thread[t].at = label
Ev(t) == thread[t].ev
Goto(t, label) == thread' = [thread EXCEPT ![t].at = label]
Fault(kind) == kind \in Failures /\ faults < MaxFaults /\ faults' = faults + 1

FreshJournal == [entries |-> <<>>, next |-> 1]

-----------------------------------------------------------------------------
(* The runtime *)

Perceive(t, ev) ==
  /\ At(t, "idle")
  /\ made < MaxEvents
  /\ made' = made + 1
  /\ thread' = [thread EXCEPT ![t] = [at |-> "apply", ev |-> ev, answer |-> None]]
  /\ UNCHANGED <<instance, local, row, bridge, logged, faults>>

\* The ingress takes a frame newer than the last one it accepted (an older
\* one is refused without effect); the sequence grows with the id.
IngressFrame(scene) ==
  /\ UNCHANGED direct
  /\ Perceive("ingress", [id |-> made + 1, by |-> instance, src |-> Cam,
                          seq |-> made + 1, scene |-> scene])

\* The direct endpoint takes any sequence.
DirectFrame(t, src, seq, scene) ==
  /\ direct < MaxDirect
  /\ direct' = direct + 1
  /\ Perceive(t, [id |-> made + 1, by |-> instance, src |-> src,
                  seq |-> seq, scene |-> scene])

\* The world only compares an event with the one before it.
Stale(ev) == world # None /\ world.src = ev.src /\ ev.seq <= world.seq

Apply(t) ==
  /\ At(t, "apply")
  /\ ~Stale(Ev(t))
  /\ world' = Ev(t)
  /\ Goto(t, "append")
  /\ UNCHANGED <<instance, made, direct, journal, row, bridge, logged, faults>>

\* A stale event is refused; the ingress gives its slot back.
Refuse(t) ==
  /\ At(t, "apply")
  /\ Stale(Ev(t))
  /\ thread' = [thread EXCEPT ![t] = Idle]
  /\ UNCHANGED <<instance, made, direct, local, row, bridge, logged, faults>>

Newest(entries) ==
  SubSeq(entries, Len(entries) - Capacity + 1, Len(entries))

\* Mutant: nothing is evicted.
JournalledUnbounded(ev) ==
  [entries |-> Append(journal.entries, [cursor |-> journal.next, ev |-> ev]),
   next    |-> journal.next + 1]

Journalled(ev) ==
  LET all == Append(journal.entries, [cursor |-> journal.next, ev |-> ev])
  IN [entries |-> IF Len(all) > Capacity THEN Newest(all) ELSE all,
      next    |-> journal.next + 1]

\* Mutant: an event may be published without being journalled.
AppendNothing(t) ==
  /\ At(t, "append")
  /\ Goto(t, "gate")
  /\ UNCHANGED <<instance, made, direct, world, journal, logged, row, bridge,
                 faults>>

AppendEvent(t) ==
  /\ At(t, "append")
  /\ journal' = Journalled(Ev(t))
  /\ logged' = logged \cup {Ev(t).id}
  /\ Goto(t, "gate")
  /\ UNCHANGED <<instance, made, direct, world, row, bridge, faults>>

\* The sink has returned or failed: the frame is accepted either way.
Finish(t) ==
  /\ At(t, "done")
  /\ thread' = [thread EXCEPT ![t] = Idle]
  /\ row' = IF t # "ingress" THEN row
            ELSE [seq      |-> Ev(t).seq,
                  accepted |-> IF row = None THEN 1 ELSE row.accepted + 1,
                  active   |-> TRUE]
  /\ UNCHANGED <<instance, made, direct, local, bridge, logged, faults>>

\* A heartbeat says whether the producer captures; it may be the first thing
\* heard of the source.  A source not heard of for a while counts as stopped.
CaptureReports(on) ==
  /\ row' = IF row = None THEN [seq |-> None, accepted |-> 0, active |-> on]
            ELSE [row EXCEPT !.active = on]
  /\ IF on THEN UNCHANGED faults ELSE Fault("pause")
  /\ UNCHANGED <<instance, made, direct, thread, local, bridge, logged>>

\* The source is forgotten with its counts (it was offline when that was
\* checked, and may have been heard of since); the world, the journal and the
\* bridge keep what they have of it.
ForgetSource ==
  /\ row # None
  /\ Fault("forget")
  /\ row' = None
  /\ UNCHANGED <<instance, made, direct, thread, local, bridge, logged>>

-----------------------------------------------------------------------------
(* The bridge *)

Changed(ev) == gate[ev.src] # ev.scene

\* An unchanged scene is suppressed, a changed one waits out the back-off.
CheckGate(t) ==
  /\ At(t, "gate")
  /\ Goto(t, IF Changed(Ev(t)) /\ ~backoff THEN "post" ELSE "done")
  /\ UNCHANGED <<instance, made, direct, local, row, bridge, logged, faults>>

\* ModelRig cannot be reached or is not available (404, 503), or refuses the
\* event: only the former start a back-off.
PostFails(t) ==
  /\ At(t, "post")
  /\ Fault("refused")
  /\ backoff' \in {backoff, TRUE}
  /\ Goto(t, "done")
  /\ UNCHANGED <<instance, made, direct, local, row, gate, results, late, rig,
                 logged>>

\* The post times out: ModelRig has not handled it, but may yet do so.
PostTimesOut(t) ==
  /\ At(t, "post")
  /\ Fault("timeout")
  /\ backoff' = TRUE
  /\ late' = late \cup {Ev(t)}
  /\ Goto(t, "done")
  /\ UNCHANGED <<instance, made, direct, local, row, gate, results, rig, logged>>

\* ModelRig admits an event unless it shows the scene it holds already.
Known(ev) == rig.scene[ev.src] = ev.scene

Admitted(ev) ==
  IF Known(ev) THEN rig
  ELSE [fresh |-> rig.fresh \cup {ev.id},
        scene |-> [rig.scene EXCEPT ![ev.src] = ev.scene]]

PostArrives(t) ==
  /\ At(t, "post")
  /\ rig' = Admitted(Ev(t))
  /\ thread' = [thread EXCEPT ![t].at = "answer", ![t].answer =
                  IF Known(Ev(t)) THEN "replayed" ELSE "published"]
  /\ UNCHANGED <<instance, made, direct, local, row, gate, backoff, results,
                 late, logged, faults>>

\* Nobody waits for the answer any more.
LateArrives ==
  \E ev \in late :
    /\ rig' = Admitted(ev)
    /\ late' = late \ {ev}
    /\ UNCHANGED <<instance, made, direct, thread, local, row, gate, backoff,
                   results, logged, faults>>

\* The answer is lost (back-off) or is not a receipt bound to the event
\* (rejected): ModelRig holds a scene the gate knows nothing of.
AnswerLost(t) ==
  /\ At(t, "answer")
  /\ Fault("answer")
  /\ backoff' \in {backoff, TRUE}
  /\ Goto(t, "done")
  /\ UNCHANGED <<instance, made, direct, local, row, gate, results, late, rig,
                 logged>>

\* A receipt bound to the event commits its fingerprint.
Commit(t) ==
  /\ At(t, "answer")
  /\ gate' = [gate EXCEPT ![Ev(t).src] = Ev(t).scene]
  /\ Goto(t, "record")
  /\ UNCHANGED <<instance, made, direct, local, row, backoff, results, late, rig,
                 logged, faults>>

Record(t) ==
  LET all == Append(results, [ev |-> Ev(t), status |-> thread[t].answer])
  IN /\ At(t, "record")
     /\ backoff' = FALSE
     /\ results' = IF Len(all) > Receipts THEN Tail(all) ELSE all
     /\ Goto(t, "done")
     /\ UNCHANGED <<instance, made, direct, local, row, gate, late, rig,
                    logged, faults>>

BackoffEnds ==
  /\ backoff
  /\ backoff' = FALSE
  /\ UNCHANGED <<instance, made, direct, thread, local, row, gate, results, late,
                 rig, logged, faults>>

\* ModelRig restarts and holds no scene any more.
ModelRigForgets ==
  /\ Fault("modelrig")
  /\ rig' = [rig EXCEPT !.scene = [s \in Sources |-> None]]
  /\ UNCHANGED <<instance, made, direct, thread, local, row, gate, backoff,
                 results, late, logged>>

\* Nothing of this is kept on disk; ModelRig goes on.
Restart ==
  /\ Fault("restart")
  /\ instance' = instance + 1
  /\ thread' = [t \in Threads |-> Idle]
  /\ world' = None
  /\ journal' = FreshJournal
  /\ row' = None
  /\ gate' = [s \in Sources |-> None]
  /\ backoff' = FALSE
  /\ results' = <<>>
  /\ UNCHANGED <<made, direct, late, rig, logged>>

-----------------------------------------------------------------------------

PerceptionInit ==
  /\ instance = 1
  /\ made = 0 /\ direct = 0
  /\ thread = [t \in Threads |-> Idle]
  /\ world = None
  /\ journal = FreshJournal
  /\ row = None
  /\ gate = [s \in Sources |-> None]
  /\ backoff = FALSE
  /\ results = <<>>
  /\ rig = [fresh |-> {}, scene |-> [s \in Sources |-> None]]
  /\ late = {}
  /\ logged = {}
  /\ faults = 0

PerceptionNext ==
  \/ \E scene \in Scenes : IngressFrame(scene)
  \/ \E t \in DirectThreads, src \in DirectSources, seq \in 1 .. made + 1,
        scene \in Scenes : DirectFrame(t, src, seq, scene)
  \/ \E t \in Threads :
       \/ Apply(t) \/ Refuse(t) \/ AppendEvent(t) \/ Finish(t)
       \/ CheckGate(t) \/ PostFails(t) \/ PostTimesOut(t) \/ PostArrives(t)
       \/ AnswerLost(t) \/ Commit(t) \/ Record(t)
  \/ \E on \in BOOLEAN : CaptureReports(on)
  \/ ForgetSource \/ BackoffEnds \/ LateArrives \/ ModelRigForgets \/ Restart

PerceptionSpec == PerceptionInit /\ [][PerceptionNext]_perceptionVars

-----------------------------------------------------------------------------
(* Properties *)

Answer == {"published", "replayed"}
ThreadState ==
  [at : {"idle", "apply", "append", "gate", "post", "answer", "record", "done"},
   ev : Event \cup {None}, answer : Answer \cup {None}]
Entry == [cursor : Nat, ev : Event]
Row == [seq : Nat \cup {None}, accepted : Nat, active : BOOLEAN]
Receipt == [ev : Event, status : Answer]
Rig == [fresh : SUBSET Nat, scene : [Sources -> Scenes \cup {None}]]

(* Every variable keeps its type, the bounded queues their bounds. *)
PerceptionTypeOK ==
  /\ {instance, made, direct, faults} \subseteq Nat
  /\ thread \in [Threads -> ThreadState]
  /\ world \in Event \cup {None}
  /\ journal \in [entries : Seq(Entry), next : Nat]
  /\ Len(journal.entries) <= Capacity
  /\ row \in Row \cup {None}
  /\ gate \in [Sources -> Scenes \cup {None}]
  /\ backoff \in BOOLEAN
  /\ results \in Seq(Receipt)
  /\ Len(results) <= Receipts
  /\ late \subseteq Event
  /\ rig \in Rig
  /\ logged \subseteq 1 .. made

(* VisionRig commits an event to its own journal before anyone else hears  *)
(* of it: whatever ModelRig admitted, in time or late, was journalled      *)
(* first, however the threads interleave and whatever fails in between.    *)
AdmittedIsJournalled == rig.fresh \subseteq logged

(* "Suppress frame-to-frame noise while retaining meaningful scene         *)
(* changes": an event that the gate suppresses shows the scene ModelRig    *)
(* holds, so that ModelRig misses nothing by it.                           *)
SuppressedIsKnown ==
  [][\A t \in Threads :
       CheckGate(t) /\ ~Changed(Ev(t)) => Known(Ev(t))]_perceptionVars
=============================================================================
