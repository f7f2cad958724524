--------------------------- MODULE FrameDelivery ---------------------------
(***************************************************************************)
(* One producer delivering frames to the core: GatewayFrameProducer (and   *)
(* its Kotlin twin) over a ProducerStateStore file, HTTP through the       *)
(* gateway, and SensorIngress with the world behind it.                    *)
(*                                                                         *)
(* A sequence is reserved in the file before the frame is sent, and the    *)
(* outcome is written after.  A request or its answer may be lost, and the *)
(* producer gives up (5 s) before the gateway does (30 s), so a request    *)
(* may reach the core when the producer has long counted it as dropped.    *)
(* Producer and core may die at any time; the file survives, what the core *)
(* knows about sequences does not.  In an application the client object    *)
(* also outlives a run that failed, and recover() runs only when one is    *)
(* built.                                                                  *)
(*                                                                         *)
(* The core decides a request in one step: the ingress slot is exclusive.  *)
(* Other sources, undecodable frames and a failing pipeline are choices.   *)
(* "accepted", "counted", "acked" and "reported" are history.              *)
(***************************************************************************)
EXTENDS Naturals, Sequences, FiniteSets

CONSTANTS
  None,
  Native,      \* TRUE for the Kotlin client, FALSE for the Python producer
  MaxFrames,   \* bound on the frames captured, for model checking
  MaxLives     \* bound on restarts and forgets at the core, likewise

ASSUME DeliveryAssumption ==
  /\ None \notin Nat
  /\ Native \in BOOLEAN
  /\ MaxFrames \in Nat
  /\ MaxLives \in Nat

VARIABLES
  file,       \* ProducerStateEntry: next_sequence, pending_dropped, inflight
  proc,       \* the producer process and the frame it is busy with
  net,        \* requests on their way to the core
  core,       \* _last_sequence and the world's last frame of this source
  accepted,   \* history: the frames the core accepted, in order
  counted,    \* history: the sum of dropped_frames over accepted
  acked,      \* history: the number of frames marked accepted
  reported    \* history: the drops cleared by them

vars == <<file, proc, net, core, accepted, counted, acked, reported>>

Entry(next, pending, inflight) ==
  [next |-> next, pending |-> pending, inflight |-> inflight]

Request == [seq : Nat, dropped : Nat]

\* A producer that is "down" has no client, one that is "stopped" does.
Busy == {"reserved", "waiting", "accepting", "dropping"}
Phases == {"down", "stopped", "ready"} \cup Busy

Goto(phase) == proc' = [proc EXCEPT !.phase = phase]

-----------------------------------------------------------------------------
(* The producer *)

\* Mutants of Recovered: the early return missing, the drop not counted,
\* and the unfinished frame's number used again.
RecoveredAlways(f) == Entry(f.inflight, f.pending + 1, None)

RecoveredUncounted(f) == Entry(f.next, f.pending, None)

RecoveredResends(f) ==
  IF f.inflight = None THEN f ELSE Entry(f.inflight, f.pending, None)

\* recover(): an unfinished frame of an earlier run is one drop.
Recovered(f) ==
  IF f.inflight = None THEN f ELSE Entry(f.next, f.pending + 1, None)

\* Mutant of Start: a client that does not recover.
StartUnrecovered ==
  /\ proc.phase \in {"down", "stopped"}
  /\ Goto("ready")
  /\ UNCHANGED <<file, net, core, accepted, counted, acked, reported>>

Start ==
  /\ proc.phase \in {"down", "stopped"}
  /\ file' = Recovered(file)
  /\ Goto("ready")
  /\ UNCHANGED <<net, core, accepted, counted, acked, reported>>

\* session.run() once more, on the client of the run that ended.
RunAgain ==
  /\ Native
  /\ proc.phase = "stopped"
  /\ Goto("ready")
  /\ UNCHANGED <<file, net, core, accepted, counted, acked, reported>>

Reserve ==
  /\ proc.phase = "ready"
  /\ file.inflight = None
  /\ file.next < MaxFrames
  /\ file' = Entry(file.next + 1, file.pending, file.next)
  /\ proc' = [phase |-> "reserved", seq |-> file.next, pending |-> file.pending]
  /\ UNCHANGED <<net, core, accepted, counted, acked, reported>>

\* "producer state has an in-flight frame; recover before reserve"
ReserveRefused ==
  /\ proc.phase = "ready"
  /\ file.inflight # None
  /\ Goto("stopped")
  /\ UNCHANGED <<file, net, core, accepted, counted, acked, reported>>

CurrentRequest == [seq |-> proc.seq, dropped |-> proc.pending]

Send ==
  /\ proc.phase = "reserved"
  /\ net' = net \cup {CurrentRequest}
  /\ Goto("waiting")
  /\ UNCHANGED <<file, core, accepted, counted, acked, reported>>

\* OkHttp repeats a request whose connection broke; httpx does not.
SendAgain ==
  /\ Native
  /\ proc.phase = "waiting"
  /\ net' = net \cup {CurrentRequest}
  /\ UNCHANGED <<file, proc, core, accepted, counted, acked, reported>>

\* Mutant of GiveUp: silence is taken for success.
GiveUpContent ==
  /\ proc.phase \in {"reserved", "waiting"}
  /\ Goto("accepting")
  /\ UNCHANGED <<file, net, core, accepted, counted, acked, reported>>

\* No capabilities or a frame over the limit (Kotlin), a timeout, a broken
\* connection, or an answer that is not the receipt of this frame.
GiveUp ==
  /\ proc.phase \in {"reserved", "waiting"}
  /\ Goto("dropping")
  /\ UNCHANGED <<file, net, core, accepted, counted, acked, reported>>

\* Mutant of MarkDropped: the frame leaves no trace.
MarkDroppedUncounted ==
  /\ proc.phase = "dropping"
  /\ file' = Entry(file.next, file.pending, None)
  /\ Goto("ready")
  /\ UNCHANGED <<net, core, accepted, counted, acked, reported>>

MarkDropped ==
  /\ proc.phase = "dropping"
  /\ file' = Entry(file.next, file.pending + 1, None)
  /\ Goto("ready")
  /\ UNCHANGED <<net, core, accepted, counted, acked, reported>>

MarkAccepted ==
  /\ proc.phase = "accepting"
  /\ file' = Entry(file.next, 0, None)
  /\ Goto("ready")
  /\ acked' = acked + 1
  /\ reported' = reported + proc.pending
  /\ UNCHANGED <<net, core, accepted, counted>>

\* The operator stops the run, the desired state cannot be fetched, or the
\* file cannot be written and the exception ends the run.
RunEnds ==
  /\ proc.phase \in {"ready", "accepting", "dropping"}
  /\ Goto("stopped")
  /\ UNCHANGED <<file, net, core, accepted, counted, acked, reported>>

Die ==
  /\ proc.phase # "down"
  /\ Goto("down")
  /\ UNCHANGED <<file, net, core, accepted, counted, acked, reported>>

-----------------------------------------------------------------------------
(* The network and the core *)

Lose(r) ==
  /\ net' = net \ {r}
  /\ UNCHANGED <<file, proc, core, accepted, counted, acked, reported>>

\* The answer reaches the producer if it still waits for it, or is lost.
Answered(r, phase) ==
  \/ proc' = proc
  \/ /\ proc.phase = "waiting" /\ proc.seq = r.seq
     /\ proc' = [proc EXCEPT !.phase = phase]

\* Mutant of Admissible: the ingress lets its last frame in again.
AdmissibleAgain(r) ==
  /\ core.last # None => r.seq >= core.last
  /\ core.world # None => r.seq > core.world

\* SensorIngress compares with its own last sequence, the world with the
\* last event it was given, if that was of the same source.
Admissible(r) ==
  /\ core.last # None => r.seq > core.last
  /\ core.world # None => r.seq > core.world

\* A repeated request may be under way once more: net is a set, and equal
\* copies in it are one.
Handled(r) == net' = net \ {r} \/ (Native /\ net' = net)

Accept(r) ==
  /\ Admissible(r)
  /\ Handled(r)
  /\ core' = [core EXCEPT !.last = r.seq, !.world = r.seq]
  /\ accepted' = Append(accepted, [seq |-> r.seq, life |-> core.life])
  /\ counted' = counted + r.dropped
  /\ Answered(r, "accepting")
  /\ UNCHANGED <<file, acked, reported>>

\* 429 busy, 409 sequence, 422 decoding, 500 pipeline, 502 gateway.
Refuse(r) ==
  /\ Handled(r)
  /\ Answered(r, "dropping")
  /\ UNCHANGED <<file, core, accepted, counted, acked, reported>>

\* An event of another source becomes the world's last one.
OtherSource ==
  /\ core.world # None
  /\ core' = [core EXCEPT !.world = None]
  /\ UNCHANGED <<file, proc, net, accepted, counted, acked, reported>>

\* forget_source() clears the ingress, not the world.
ForgetSource ==
  /\ core.life < MaxLives
  /\ core' = [core EXCEPT !.last = None, !.life = @ + 1]
  /\ UNCHANGED <<file, proc, net, accepted, counted, acked, reported>>

CoreRestart ==
  /\ core.life < MaxLives
  /\ core' = [last |-> None, world |-> None, life |-> core.life + 1]
  /\ UNCHANGED <<file, proc, net, accepted, counted, acked, reported>>

-----------------------------------------------------------------------------
Init ==
  /\ file = Entry(0, 0, None)
  /\ proc = [phase |-> "down", seq |-> 0, pending |-> 0]
  /\ net = {}
  /\ core = [last |-> None, world |-> None, life |-> 0]
  /\ accepted = <<>>
  /\ counted = 0
  /\ acked = 0
  /\ reported = 0

Producer ==
  \/ Start \/ RunAgain \/ Reserve \/ ReserveRefused
  \/ Send \/ SendAgain \/ GiveUp \/ MarkDropped \/ MarkAccepted
  \/ RunEnds \/ Die

Next ==
  \/ Producer
  \/ \E r \in net : Lose(r) \/ Accept(r) \/ Refuse(r)
  \/ OtherSource \/ ForgetSource \/ CoreRestart

\* A running producer gets on with the frame it has, its timeout included,
\* and one that ended is run again: whether on a new client or on the old
\* one nothing decides.
Fairness ==
  /\ WF_vars(Start \/ RunAgain)
  /\ WF_vars(ReserveRefused)
  /\ WF_vars(Send \/ GiveUp)
  /\ WF_vars(MarkDropped \/ MarkAccepted)

Spec == Init /\ [][Next]_vars

FairSpec == Spec /\ Fairness

-----------------------------------------------------------------------------
(* Properties *)

TypeOK ==
  /\ file \in [next : Nat, pending : Nat, inflight : Nat \cup {None}]
  /\ proc \in [phase : Phases, seq : Nat, pending : Nat]
  /\ net \subseteq Request
  /\ core \in [last : Nat \cup {None}, world : Nat \cup {None}, life : Nat]
  /\ accepted \in Seq([seq : Nat, life : Nat])
  /\ counted \in Nat /\ acked \in Nat /\ reported \in Nat

InFlight == IF file.inflight = None THEN 0 ELSE 1

(* Every sequence ever reserved is in exactly one account: acknowledged,   *)
(* reported as dropped with an acknowledged frame, pending to be reported, *)
(* or in flight; a crash or a failed write at any point loses none and     *)
(* counts none twice.                                                      *)
FramesAreAccountedFor ==
  file.next = acked + reported + file.pending + InFlight

(* A sequence names one frame: whatever is on the network or was accepted  *)
(* carries a number the file has gone past, and no two requests on the     *)
(* network share one, through every crash and restart of the producer.     *)
SequenceIsNeverReused ==
  /\ \A r \in net : r.seq < file.next
  /\ \A i \in DOMAIN accepted : accepted[i].seq < file.next
  /\ \A r1, r2 \in net : r1.seq = r2.seq => r1 = r2

(* Between two restarts of the core, or forgets, frames are accepted in    *)
(* capture order and once, however late a request the producer gave up     *)
(* arrives.                                                                *)
AcceptedInCaptureOrder ==
  \A i, j \in DOMAIN accepted :
    i < j /\ accepted[i].life = accepted[j].life
      => accepted[i].seq < accepted[j].seq

(* An acknowledged frame is one the core accepted: a drop count is cleared *)
(* only after the core has taken it over.                                  *)
NothingIsClearedUnseen == acked <= Len(accepted) /\ reported <= counted

AcceptedSequences == {accepted[i].seq : i \in DOMAIN accepted}

(* "prevents a crash from silently hiding a lost visual frame": the core's *)
(* account refines the ledger of losses.                                   *)
Ledger == INSTANCE FrameLedger WITH accepted <- AcceptedSequences

LedgerSpec == Ledger!Spec

(* A frame does not stay in flight: a running producer decides it and one  *)
(* that is run again recovers it, so that reserving never blocks for good; *)
(* "The same session can be run again later", says the Android client.     *)
InFlightIsResolved == file.inflight # None ~> file.inflight = None

(* Whatever dies, fails or is lost, a frame does not stay in flight unless *)
(* an application runs the client of an ended run again and again: each    *)
(* new process and each new client recovers it.                            *)
ResolvedUnlessReused ==
  \/ []<><<RunAgain /\ file.inflight # None>>_vars
  \/ InFlightIsResolved
=============================================================================
