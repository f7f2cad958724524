------------------------ MODULE FrameDeliveryProofs ------------------------
(***************************************************************************)
(* Every safety invariant of FrameDelivery, for every bound, for both      *)
(* clients and through any number of crashes.  The inductive invariant     *)
(* ties the state file to what the process holds in memory, the requests   *)
(* on the network to the reservation they were sent for, and the core's    *)
(* last sequence to what it has accepted in its present life.              *)
(*                                                                         *)
(* The second part shows that the delivery implements the ledger of        *)
(* losses: at every moment the losses below a sequence are covered by what *)
(* the core has counted, what a request carries, and what the state file   *)
(* has pending or in flight.                                               *)
(***************************************************************************)
EXTENDS FrameDelivery, SequenceTheorems, FiniteSetTheorems, TLAPS

(* A busy producer holds what the file says is in flight. *)
BusyMatchesFile ==
  proc.phase \in Busy =>
    /\ file.inflight = proc.seq
    /\ file.pending = proc.pending

(* What the file says is in flight has been reserved. *)
InFlightIsReserved == file.inflight # None => file.inflight < file.next

(* A request for the current frame carries what the producer remembers. *)
RequestIsCurrent ==
  proc.phase \in Busy =>
    \A r \in net : r.seq = proc.seq => r.dropped = proc.pending

(* The acknowledgement under way is of a frame the core has accepted. *)
AckIsBacked ==
  IF proc.phase = "accepting"
    THEN acked + 1 <= Len(accepted) /\ reported + proc.pending <= counted
    ELSE acked <= Len(accepted) /\ reported <= counted

(* The core's last sequence bounds what it accepted in its present life. *)
LastBoundsLife ==
  \A i \in DOMAIN accepted :
    /\ accepted[i].life <= core.life
    /\ accepted[i].life = core.life =>
         core.last # None /\ accepted[i].seq <= core.last

IInv ==
  /\ TypeOK
  /\ FramesAreAccountedFor
  /\ SequenceIsNeverReused
  /\ AcceptedInCaptureOrder
  /\ BusyMatchesFile
  /\ InFlightIsReserved
  /\ RequestIsCurrent
  /\ AckIsBacked
  /\ LastBoundsLife

-----------------------------------------------------------------------------
(* Helpers *)

(* What appending an entry to the history of accepted frames does. *)
LEMMA AppendedEntry ==
  ASSUME NEW S, NEW seq \in Seq(S), NEW e \in S
  PROVE  /\ Append(seq, e) \in Seq(S)
         /\ Len(Append(seq, e)) = Len(seq) + 1
         /\ DOMAIN Append(seq, e) = DOMAIN seq \cup {Len(seq) + 1}
         /\ \A i \in DOMAIN seq : Append(seq, e)[i] = seq[i]
         /\ Append(seq, e)[Len(seq) + 1] = e
PROOF
  <1>1. Len(seq) \in Nat /\ DOMAIN seq = 1 .. Len(seq)
    BY LenProperties
  <1>2. /\ Append(seq, e) \in Seq(S)
        /\ Len(Append(seq, e)) = Len(seq) + 1
        /\ \A i \in 1 .. Len(seq) : Append(seq, e)[i] = seq[i]
        /\ Append(seq, e)[Len(seq) + 1] = e
    BY AppendProperties
  <1>3. DOMAIN Append(seq, e) = 1 .. Len(seq) + 1
    BY <1>2, LenProperties
  <1> QED
    BY <1>1, <1>2, <1>3

(* The history of accepted frames holds records of numbers. *)
LEMMA AcceptedEntries ==
  ASSUME TypeOK
  PROVE  /\ Len(accepted) \in Nat
         /\ \A i \in DOMAIN accepted :
              accepted[i].seq \in Nat /\ accepted[i].life \in Nat
PROOF
  <1>1. Len(accepted) \in Nat /\ DOMAIN accepted = 1 .. Len(accepted)
    BY LenProperties DEF TypeOK
  <1>2. \A i \in 1 .. Len(accepted) : accepted[i] \in [seq : Nat, life : Nat]
    BY ElementOfSeq DEF TypeOK
  <1> QED
    BY <1>1, <1>2

(* The initial state satisfies the invariant. *)
LEMMA DeliveryInit == Init => IInv
PROOF
  <1> SUFFICES ASSUME Init PROVE IInv
    OBVIOUS
  <1> USE DeliveryAssumption DEF Init, Entry
  <1>1. accepted \in Seq([seq : Nat, life : Nat]) /\ DOMAIN accepted = {} /\ Len(accepted) = 0
    BY EmptySeq, LenProperties
  <1>2. TypeOK
    BY <1>1 DEF TypeOK, Phases, Busy
  <1>3. FramesAreAccountedFor
    BY DEF FramesAreAccountedFor, InFlight
  <1>4. SequenceIsNeverReused /\ AcceptedInCaptureOrder /\ LastBoundsLife
    BY <1>1 DEF SequenceIsNeverReused, AcceptedInCaptureOrder, LastBoundsLife
  <1>5. BusyMatchesFile /\ InFlightIsReserved /\ RequestIsCurrent
    BY DEF BusyMatchesFile, InFlightIsReserved, RequestIsCurrent, Busy
  <1>6. AckIsBacked
    BY <1>1 DEF AckIsBacked
  <1> QED
    BY <1>2, <1>3, <1>4, <1>5, <1>6 DEF IInv

-----------------------------------------------------------------------------
(* The steps *)

(* A producer that gives a frame up, ends or is started again on the old   *)
(* client changes nothing but its phase, and requests that are lost or     *)
(* refused only leave the network.                                         *)
LEMMA QuietStep ==
  ASSUME IInv, NEW phase \in Phases \ {"accepting"},
         phase \in Busy => proc.phase \in Busy,
         Goto(phase) \/ proc' = proc,
         net' \subseteq net,
         UNCHANGED <<file, core, accepted, counted, acked, reported>>
  PROVE  IInv'
PROOF
  <1> USE DEF IInv
  <1>1. /\ proc' \in [phase : Phases, seq : Nat, pending : Nat]
        /\ proc'.seq = proc.seq /\ proc'.pending = proc.pending
        /\ proc'.phase \in {phase, proc.phase}
        /\ proc'.phase \in Busy => proc.phase \in Busy
        /\ proc'.phase = "accepting" => proc.phase = "accepting"
    BY DEF TypeOK, Goto
  <1>2. TypeOK'
    BY <1>1 DEF TypeOK
  <1>3. FramesAreAccountedFor'
    BY DEF FramesAreAccountedFor, InFlight
  <1>4. SequenceIsNeverReused' /\ AcceptedInCaptureOrder' /\ LastBoundsLife'
    BY DEF SequenceIsNeverReused, AcceptedInCaptureOrder, LastBoundsLife
  <1>5. BusyMatchesFile' /\ InFlightIsReserved' /\ RequestIsCurrent'
    BY <1>1 DEF BusyMatchesFile, InFlightIsReserved, RequestIsCurrent
  <1>6. AckIsBacked'
    <2>1. Len(accepted) \in Nat
      BY LenProperties DEF TypeOK
    <2> QED
      BY <1>1, <2>1 DEF AckIsBacked, TypeOK
  <1> QED
    BY <1>2, <1>3, <1>4, <1>5, <1>6

(* A busy producer sends its current request, for the first time or again. *)
LEMMA SendStep ==
  ASSUME IInv, proc.phase \in {"reserved", "waiting"},
         net' = net \cup {CurrentRequest},
         Goto("waiting") \/ proc' = proc,
         UNCHANGED <<file, core, accepted, counted, acked, reported>>
  PROVE  IInv'
PROOF
  <1> USE DeliveryAssumption DEF IInv
  <1>1. /\ proc' \in [phase : Phases, seq : Nat, pending : Nat]
        /\ proc'.seq = proc.seq /\ proc'.pending = proc.pending
        /\ proc'.phase \in {"reserved", "waiting"}
    BY DEF TypeOK, Goto, Phases, Busy
  <1>2. /\ CurrentRequest \in Request
        /\ CurrentRequest.seq = proc.seq /\ CurrentRequest.dropped = proc.pending
    BY DEF TypeOK, CurrentRequest, Request
  <1>3. proc.seq < file.next /\ proc.seq # None
    BY DEF BusyMatchesFile, InFlightIsReserved, Busy, TypeOK
  <1>4. \A r \in net : r.seq = proc.seq => r = CurrentRequest
    <2> SUFFICES ASSUME NEW r \in net, r.seq = proc.seq
                 PROVE  r = CurrentRequest
      OBVIOUS
    <2>1. r.dropped = proc.pending
      BY DEF RequestIsCurrent, Busy
    <2>2. r = [seq |-> r.seq, dropped |-> r.dropped]
      BY DEF TypeOK, Request
    <2> QED
      BY <2>1, <2>2 DEF CurrentRequest
  <1>5. TypeOK'
    BY <1>1, <1>2 DEF TypeOK
  <1>6. FramesAreAccountedFor' /\ AcceptedInCaptureOrder' /\ LastBoundsLife'
    BY DEF FramesAreAccountedFor, InFlight, AcceptedInCaptureOrder, LastBoundsLife
  <1>7. SequenceIsNeverReused'
    BY <1>2, <1>3, <1>4 DEF SequenceIsNeverReused
  <1>8. BusyMatchesFile' /\ InFlightIsReserved'
    BY <1>1 DEF BusyMatchesFile, InFlightIsReserved, Busy
  <1>9. RequestIsCurrent'
    BY <1>1, <1>2 DEF RequestIsCurrent, Busy
  <1>10. AckIsBacked'
    BY <1>1 DEF AckIsBacked
  <1> QED
    BY <1>5, <1>6, <1>7, <1>8, <1>9, <1>10

(* A new client recovers the file: what was in flight becomes a drop. *)
LEMMA StartStep ==
  ASSUME IInv, Start
  PROVE  IInv'
PROOF
  <1> USE DeliveryAssumption DEF IInv, Start
  <1>1. /\ file'.next = file.next /\ file'.inflight = None
        /\ file'.pending = file.pending + InFlight
        /\ file' \in [next : Nat, pending : Nat, inflight : Nat \cup {None}]
    BY DEF TypeOK, Recovered, Entry, InFlight
  <1>2. /\ proc'.phase = "ready"
        /\ proc' \in [phase : Phases, seq : Nat, pending : Nat]
    BY DEF TypeOK, Goto, Phases, Busy
  <1>3. TypeOK'
    BY <1>1, <1>2 DEF TypeOK
  <1>4. FramesAreAccountedFor'
    BY <1>1 DEF FramesAreAccountedFor, InFlight, TypeOK
  <1>5. SequenceIsNeverReused' /\ AcceptedInCaptureOrder' /\ LastBoundsLife'
    BY <1>1 DEF SequenceIsNeverReused, AcceptedInCaptureOrder, LastBoundsLife
  <1>6. BusyMatchesFile' /\ InFlightIsReserved' /\ RequestIsCurrent'
    BY <1>1, <1>2 DEF BusyMatchesFile, InFlightIsReserved, RequestIsCurrent, Busy
  <1>7. AckIsBacked'
    BY <1>2 DEF AckIsBacked
  <1> QED
    BY <1>3, <1>4, <1>5, <1>6, <1>7

(* A reservation takes a number no request has carried before. *)
LEMMA ReserveStep ==
  ASSUME IInv, Reserve
  PROVE  IInv'
PROOF
  <1> USE DeliveryAssumption DEF IInv, Reserve
  <1>1. /\ file' = [next |-> file.next + 1, pending |-> file.pending, inflight |-> file.next]
        /\ file' \in [next : Nat, pending : Nat, inflight : Nat \cup {None}]
    BY DEF TypeOK, Entry
  <1>2. proc' \in [phase : Phases, seq : Nat, pending : Nat]
    BY DEF TypeOK, Phases, Busy
  <1>3. TypeOK'
    BY <1>1, <1>2 DEF TypeOK
  <1>4. FramesAreAccountedFor'
    BY <1>1 DEF FramesAreAccountedFor, InFlight, TypeOK
  <1>5. SequenceIsNeverReused'
    <2>1. \A r \in net : r.seq \in Nat /\ r.seq < file'.next
      BY <1>1 DEF SequenceIsNeverReused, TypeOK, Request
    <2>2. \A i \in DOMAIN accepted : accepted[i].seq < file'.next
      BY <1>1, AcceptedEntries DEF SequenceIsNeverReused, TypeOK
    <2> QED
      BY <2>1, <2>2 DEF SequenceIsNeverReused
  <1>6. AcceptedInCaptureOrder' /\ LastBoundsLife'
    BY DEF AcceptedInCaptureOrder, LastBoundsLife
  <1>7. BusyMatchesFile' /\ InFlightIsReserved'
    BY <1>1 DEF BusyMatchesFile, InFlightIsReserved, TypeOK
  <1>8. RequestIsCurrent'
    BY DEF RequestIsCurrent, SequenceIsNeverReused, TypeOK, Request
  <1>9. AckIsBacked'
    BY DEF AckIsBacked
  <1> QED
    BY <1>3, <1>4, <1>5, <1>6, <1>7, <1>8, <1>9

(* A frame given up becomes a pending drop. *)
LEMMA MarkDroppedStep ==
  ASSUME IInv, MarkDropped
  PROVE  IInv'
PROOF
  <1> USE DeliveryAssumption DEF IInv, MarkDropped
  <1>1. /\ file' = [next |-> file.next, pending |-> file.pending + 1, inflight |-> None]
        /\ file' \in [next : Nat, pending : Nat, inflight : Nat \cup {None}]
    BY DEF TypeOK, Entry
  <1>2. /\ proc'.phase = "ready"
        /\ proc' \in [phase : Phases, seq : Nat, pending : Nat]
    BY DEF TypeOK, Goto, Phases, Busy
  <1>3. TypeOK'
    BY <1>1, <1>2 DEF TypeOK
  <1>4. InFlight = 1
    BY DEF InFlight, BusyMatchesFile, Busy, TypeOK
  <1>5. FramesAreAccountedFor'
    BY <1>1, <1>4 DEF FramesAreAccountedFor, InFlight, TypeOK
  <1>6. SequenceIsNeverReused' /\ AcceptedInCaptureOrder' /\ LastBoundsLife'
    BY <1>1 DEF SequenceIsNeverReused, AcceptedInCaptureOrder, LastBoundsLife
  <1>7. BusyMatchesFile' /\ InFlightIsReserved' /\ RequestIsCurrent'
    BY <1>1, <1>2 DEF BusyMatchesFile, InFlightIsReserved, RequestIsCurrent, Busy
  <1>8. AckIsBacked'
    BY <1>2 DEF AckIsBacked
  <1> QED
    BY <1>3, <1>5, <1>6, <1>7, <1>8

(* An acknowledged frame clears the drops it has reported, and no others:  *)
(* the file holds what the process remembers.                              *)
LEMMA MarkAcceptedStep ==
  ASSUME IInv, MarkAccepted
  PROVE  IInv'
PROOF
  <1> USE DeliveryAssumption DEF IInv, MarkAccepted
  <1>1. /\ file' = [next |-> file.next, pending |-> 0, inflight |-> None]
        /\ file' \in [next : Nat, pending : Nat, inflight : Nat \cup {None}]
    BY DEF TypeOK, Entry
  <1>2. /\ proc'.phase = "ready"
        /\ proc' \in [phase : Phases, seq : Nat, pending : Nat]
    BY DEF TypeOK, Goto, Phases, Busy
  <1>3. /\ acked' = acked + 1 /\ reported' = reported + proc.pending
        /\ acked' \in Nat /\ reported' \in Nat
    BY DEF TypeOK
  <1>4. TypeOK'
    BY <1>1, <1>2, <1>3 DEF TypeOK
  <1>5. InFlight = 1 /\ file.pending = proc.pending
    BY DEF InFlight, BusyMatchesFile, Busy, TypeOK
  <1>6. FramesAreAccountedFor'
    <2>1. file.next = acked + reported + proc.pending + 1
      BY <1>5 DEF FramesAreAccountedFor
    <2>2. acked \in Nat /\ reported \in Nat /\ proc.pending \in Nat
      BY DEF TypeOK
    <2>3. file'.next = acked' + reported'
      BY <1>1, <1>3, <2>1, <2>2
    <2>4. file'.pending = 0 /\ InFlight' = 0
      BY <1>1 DEF InFlight
    <2> QED
      BY <1>3, <2>3, <2>4 DEF FramesAreAccountedFor
  <1>7. SequenceIsNeverReused' /\ AcceptedInCaptureOrder' /\ LastBoundsLife'
    BY <1>1 DEF SequenceIsNeverReused, AcceptedInCaptureOrder, LastBoundsLife
  <1>8. BusyMatchesFile' /\ InFlightIsReserved' /\ RequestIsCurrent'
    BY <1>1, <1>2 DEF BusyMatchesFile, InFlightIsReserved, RequestIsCurrent, Busy
  <1>9. AckIsBacked'
    BY <1>2 DEF AckIsBacked
  <1> QED
    BY <1>4, <1>6, <1>7, <1>8, <1>9

(* An accepted frame is newer than all the core accepted in this life, and *)
(* if its sender still waits for it, it carries the drops the sender will  *)
(* clear.                                                                  *)
LEMMA AcceptStep ==
  ASSUME IInv, NEW r \in net, Accept(r)
  PROVE  IInv'
PROOF
  <1> USE DeliveryAssumption DEF IInv
  <1> DEFINE e == [seq |-> r.seq, life |-> core.life]
  <1>0. /\ net' \subseteq net /\ counted' = counted + r.dropped
        /\ UNCHANGED <<file, acked, reported>>
    BY DEF Accept, Handled
  <1>1. r.seq \in Nat /\ r.dropped \in Nat /\ r.seq < file.next
    BY DEF TypeOK, Request, SequenceIsNeverReused
  <1>2. /\ e \in [seq : Nat, life : Nat] /\ e.seq = r.seq /\ e.life = core.life
        /\ accepted \in Seq([seq : Nat, life : Nat])
        /\ accepted' = Append(accepted, e)
    BY <1>1 DEF TypeOK, Accept
  <1> HIDE DEF e
  <1>3. /\ accepted' \in Seq([seq : Nat, life : Nat])
        /\ Len(accepted') = Len(accepted) + 1
        /\ DOMAIN accepted' = DOMAIN accepted \cup {Len(accepted) + 1}
        /\ \A i \in DOMAIN accepted : accepted'[i] = accepted[i]
        /\ accepted'[Len(accepted) + 1] = e
    BY <1>2, AppendedEntry
  <1>4. /\ core'.last = r.seq /\ core'.life = core.life
        /\ core' \in [last : Nat \cup {None}, world : Nat \cup {None}, life : Nat]
    BY <1>1 DEF TypeOK, Accept
  <1>5. /\ proc' \in [phase : Phases, seq : Nat, pending : Nat]
        /\ proc'.seq = proc.seq /\ proc'.pending = proc.pending
        /\ proc'.phase \in Busy => proc.phase \in Busy
        /\ \/ proc'.phase = proc.phase
           \/ /\ proc'.phase = "accepting"
              /\ proc.phase = "waiting"
              /\ proc.seq = r.seq
    BY DEF TypeOK, Accept, Answered, Phases, Busy
  <1>6. DOMAIN accepted = 1 .. Len(accepted) /\ Len(accepted) \in Nat
    BY LenProperties DEF TypeOK
  <1>7. TypeOK'
    <2>1. counted' \in Nat
      BY <1>1, <1>0 DEF TypeOK
    <2> QED
      BY <1>3, <1>4, <1>5, <1>0, <2>1 DEF TypeOK
  <1>8. FramesAreAccountedFor'
    BY <1>0 DEF FramesAreAccountedFor, InFlight
  <1>9. SequenceIsNeverReused'
    BY <1>1, <1>2, <1>3, <1>0 DEF SequenceIsNeverReused
  <1>10. \A i \in DOMAIN accepted :
           accepted[i].life = core.life => accepted[i].seq < r.seq
    <2>1. core.last # None => r.seq > core.last
      BY DEF Accept, Admissible
    <2>2. core.last \in Nat \cup {None}
      BY DEF TypeOK
    <2> QED
      BY <1>1, <2>1, <2>2, AcceptedEntries DEF LastBoundsLife
  <1>11. AcceptedInCaptureOrder'
    <2> SUFFICES ASSUME NEW i \in DOMAIN accepted', NEW j \in DOMAIN accepted',
                        i < j, accepted'[i].life = accepted'[j].life
                 PROVE  accepted'[i].seq < accepted'[j].seq
      BY DEF AcceptedInCaptureOrder
    <2>1. i \in DOMAIN accepted
      BY <1>3, <1>6
    <2>2. CASE j \in DOMAIN accepted
      BY <1>3, <2>1, <2>2 DEF AcceptedInCaptureOrder
    <2>3. CASE j = Len(accepted) + 1
      BY <1>2, <1>3, <1>10, <2>1, <2>3
    <2> QED
      BY <1>3, <2>2, <2>3
  <1>12. LastBoundsLife'
    <2>1. \A i \in DOMAIN accepted :
            /\ accepted[i].life <= core.life
            /\ accepted[i].life = core.life => accepted[i].seq <= r.seq
      BY <1>1, <1>10, AcceptedEntries DEF LastBoundsLife
    <2>2. e.life <= core.life /\ e.seq <= r.seq
      BY <1>1, <1>2 DEF TypeOK
    <2>3. r.seq # None
      BY <1>1
    <2> QED
      BY <1>3, <1>4, <2>1, <2>2, <2>3 DEF LastBoundsLife
  <1>13. BusyMatchesFile' /\ InFlightIsReserved' /\ RequestIsCurrent'
    BY <1>5, <1>0 DEF BusyMatchesFile, InFlightIsReserved, RequestIsCurrent
  <1>14. AckIsBacked'
    <2>1. /\ acked \in Nat /\ reported \in Nat /\ counted \in Nat
          /\ proc.pending \in Nat
      BY DEF TypeOK
    <2>2. /\ acked' = acked /\ reported' = reported
          /\ Len(accepted') = Len(accepted) + 1 /\ counted' = counted + r.dropped
          /\ proc'.pending = proc.pending
      BY <1>3, <1>5, <1>0
    <2>3. acked <= Len(accepted) /\ reported <= counted
      BY <1>6, <2>1 DEF AckIsBacked
    <2>4. CASE proc'.phase # "accepting"
      <3>1. acked' <= Len(accepted') /\ reported' <= counted'
        BY <1>1, <1>6, <2>1, <2>2, <2>3
      <3> QED
        BY <2>4, <3>1 DEF AckIsBacked
    <2>5. CASE proc'.phase = "accepting"
      <3>1. reported + proc.pending <= counted + r.dropped
        <4>1. CASE proc.phase = "accepting"
          BY <1>1, <2>1, <4>1 DEF AckIsBacked
        <4>2. CASE proc.phase = "waiting" /\ proc.seq = r.seq
          <5>1. r.dropped = proc.pending
            BY <4>2 DEF RequestIsCurrent, Busy
          <5> QED
            BY <2>1, <2>3, <5>1
        <4> QED
          BY <1>5, <2>5, <4>1, <4>2
      <3>2. acked' + 1 <= Len(accepted') /\ reported' + proc'.pending <= counted'
        BY <1>6, <2>1, <2>2, <2>3, <3>1
      <3> QED
        BY <2>5, <3>2 DEF AckIsBacked
    <2> QED
      BY <2>4, <2>5
  <1> QED
    BY <1>7, <1>8, <1>9, <1>11, <1>12, <1>13, <1>14

(* The core forgets what it knew of sequences only by beginning a new      *)
(* life; an event of another source touches the world alone.               *)
LEMMA CoreStep ==
  ASSUME IInv, OtherSource \/ ForgetSource \/ CoreRestart
  PROVE  IInv'
PROOF
  <1> USE DEF IInv, OtherSource, ForgetSource, CoreRestart
  <1>1. UNCHANGED <<file, proc, net, accepted, counted, acked, reported>>
    OBVIOUS
  <1>2. /\ core' \in [last : Nat \cup {None}, world : Nat \cup {None}, life : Nat]
        /\ \/ core'.life = core.life /\ core'.last = core.last
           \/ core'.life = core.life + 1
    <2>1. CASE OtherSource
      BY <2>1 DEF TypeOK
    <2>2. CASE ForgetSource
      <3>1. core.life + 1 \in Nat /\ None \in Nat \cup {None}
        BY DEF TypeOK
      <3>2. core' = [core EXCEPT !.last = None, !.life = core.life + 1]
        BY <2>2
      <3> QED
        BY <3>1, <3>2 DEF TypeOK
    <2>3. CASE CoreRestart
      BY <2>3 DEF TypeOK
    <2> QED
      BY <2>1, <2>2, <2>3
  <1>3. TypeOK'
    BY <1>1, <1>2 DEF TypeOK
  <1>4. LastBoundsLife'
    <2> HIDE DEF OtherSource, ForgetSource, CoreRestart
    <2>1. core.life \in Nat
      BY DEF TypeOK
    <2>2. CASE core'.life = core.life /\ core'.last = core.last
      BY <1>1, <2>2 DEF LastBoundsLife
    <2>3. CASE core'.life = core.life + 1
      <3>1. \A i \in DOMAIN accepted :
              accepted[i].life \in Nat /\ accepted[i].life <= core.life
        BY AcceptedEntries DEF LastBoundsLife
      <3>2. \A i \in DOMAIN accepted :
              accepted[i].life <= core'.life /\ accepted[i].life # core'.life
        BY <2>1, <2>3, <3>1
      <3> QED
        BY <1>1, <3>2 DEF LastBoundsLife
    <2> QED
      BY <1>2, <2>2, <2>3
  <1>5. FramesAreAccountedFor' /\ SequenceIsNeverReused' /\ AcceptedInCaptureOrder'
    BY <1>1 DEF FramesAreAccountedFor, InFlight, SequenceIsNeverReused, AcceptedInCaptureOrder
  <1>6. BusyMatchesFile' /\ InFlightIsReserved' /\ RequestIsCurrent' /\ AckIsBacked'
    BY <1>1 DEF BusyMatchesFile, InFlightIsReserved, RequestIsCurrent, AckIsBacked
  <1> QED
    BY <1>3, <1>4, <1>5, <1>6

(* Every step of the system preserves the invariant. *)
LEMMA DeliveryStep == IInv /\ [Next]_vars => IInv'
PROOF
  <1> SUFFICES ASSUME IInv, [Next]_vars PROVE IInv'
    OBVIOUS
  <1>1. CASE Start
    BY <1>1, StartStep
  <1>2. CASE RunAgain
    BY <1>2, QuietStep DEF RunAgain, Phases, Busy
  <1>3. CASE Reserve
    BY <1>3, ReserveStep
  <1>4. CASE ReserveRefused
    BY <1>4, QuietStep DEF ReserveRefused, Phases, Busy
  <1>5. CASE Send
    BY <1>5, SendStep DEF Send
  <1>6. CASE SendAgain
    BY <1>6, SendStep DEF SendAgain
  <1>7. CASE GiveUp
    BY <1>7, QuietStep DEF GiveUp, Phases, Busy
  <1>8. CASE MarkDropped
    BY <1>8, MarkDroppedStep
  <1>9. CASE MarkAccepted
    BY <1>9, MarkAcceptedStep
  <1>10. CASE RunEnds
    BY <1>10, QuietStep DEF RunEnds, Phases, Busy
  <1>11. CASE Die
    BY <1>11, QuietStep DEF Die, Phases, Busy
  <1>12. ASSUME NEW r \in net, Lose(r) PROVE IInv'
    <2>1. /\ proc' = proc /\ net' \subseteq net
          /\ UNCHANGED <<file, core, accepted, counted, acked, reported>>
      BY <1>12 DEF Lose
    <2> QED
      BY <2>1, QuietStep DEF Phases, Busy
  <1>13. ASSUME NEW r \in net, Accept(r) PROVE IInv'
    BY <1>13, AcceptStep
  <1>14. ASSUME NEW r \in net, Refuse(r) PROVE IInv'
    <2>1. /\ net' \subseteq net
          /\ UNCHANGED <<file, core, accepted, counted, acked, reported>>
      BY <1>14 DEF Refuse, Handled
    <2>2. CASE proc' = proc
      BY <2>1, <2>2, QuietStep DEF Phases, Busy
    <2>3. CASE proc.phase = "waiting" /\ Goto("dropping")
      BY <2>1, <2>3, QuietStep DEF Phases, Busy
    <2> QED
      BY <1>14, <2>2, <2>3 DEF Refuse, Answered, Goto
  <1>15. CASE OtherSource \/ ForgetSource \/ CoreRestart
    BY <1>15, CoreStep
  <1>16. CASE UNCHANGED vars
    <2>1. /\ proc' = proc /\ net' \subseteq net
          /\ UNCHANGED <<file, core, accepted, counted, acked, reported>>
      BY <1>16 DEF vars
    <2> QED
      BY <2>1, QuietStep DEF Phases, Busy
  <1> QED
    BY <1>1, <1>2, <1>3, <1>4, <1>5, <1>6, <1>7, <1>8, <1>9, <1>10, <1>11,
       <1>12, <1>13, <1>14, <1>15, <1>16 DEF Next, Producer

-----------------------------------------------------------------------------
(* The theorems *)

(* The inductive invariant holds in every reachable state. *)
THEOREM DeliveryInvariant == Spec => []IInv
PROOF
  BY DeliveryInit, DeliveryStep, PTL DEF Spec

(* Every reachable state has its type. *)
THEOREM DeliveryTypeOK == Spec => []TypeOK
PROOF
  <1>1. IInv => TypeOK
    BY DEF IInv
  <1> QED
    BY <1>1, DeliveryInvariant, PTL

(* However often producer and core die, every sequence ever reserved is in *)
(* exactly one account of the state file's owner.                          *)
THEOREM DeliveryFramesAreAccountedFor == Spec => []FramesAreAccountedFor
PROOF
  <1>1. IInv => FramesAreAccountedFor
    BY DEF IInv
  <1> QED
    BY <1>1, DeliveryInvariant, PTL

(* No sequence is ever given to two frames. *)
THEOREM DeliverySequenceIsNeverReused == Spec => []SequenceIsNeverReused
PROOF
  <1>1. IInv => SequenceIsNeverReused
    BY DEF IInv
  <1> QED
    BY <1>1, DeliveryInvariant, PTL

(* In one life of the core, frames are accepted in capture order and once, *)
(* however late or often their requests arrive.                            *)
THEOREM DeliveryAcceptedInCaptureOrder == Spec => []AcceptedInCaptureOrder
PROOF
  <1>1. IInv => AcceptedInCaptureOrder
    BY DEF IInv
  <1> QED
    BY <1>1, DeliveryInvariant, PTL

(* A drop count is cleared only after the core has taken it over. *)
THEOREM DeliveryNothingIsClearedUnseen == Spec => []NothingIsClearedUnseen
PROOF
  <1>1. IInv => NothingIsClearedUnseen
    <2> SUFFICES ASSUME IInv PROVE NothingIsClearedUnseen
      OBVIOUS
    <2>1. TypeOK /\ AckIsBacked
      BY DEF IInv
    <2>2. Len(accepted) \in Nat /\ acked \in Nat /\ reported \in Nat
          /\ counted \in Nat /\ proc.pending \in Nat
      BY <2>1, AcceptedEntries DEF TypeOK
    <2> QED
      BY <2>1, <2>2 DEF AckIsBacked, NothingIsClearedUnseen
  <1> QED
    BY <1>1, DeliveryInvariant, PTL

-----------------------------------------------------------------------------
(* The ledger of losses                                                    *)

LossesBelow(A, s) == Cardinality(Ledger!Losses(A, s))

(* A request on the network brings the count of the losses before it. *)
RequestsBringLosses ==
  \A r \in net : LossesBelow(AcceptedSequences, r.seq) <= counted + r.dropped

(* The producer remembers the losses before the frame it is busy with,     *)
(* and that frame is the newest.                                           *)
ProducerKnowsLosses ==
  proc.phase \in Busy =>
    /\ file.next = proc.seq + 1
    /\ LossesBelow(AcceptedSequences, proc.seq) <= counted + proc.pending

(* The file holds the losses the core has not counted. *)
FileHoldsLosses ==
  LossesBelow(AcceptedSequences, file.next)
    <= counted + file.pending + InFlight

(* Before the file is cleared, the core has counted all of them. *)
ClearedLossesAreCounted ==
  proc.phase = "accepting" =>
    LossesBelow(AcceptedSequences, file.next) <= counted

LInv ==
  /\ RequestsBringLosses
  /\ ProducerKnowsLosses
  /\ FileHoldsLosses
  /\ ClearedLossesAreCounted

-----------------------------------------------------------------------------
(* Counting losses *)

(* There are finitely many losses below a sequence. *)
LEMMA LossesAreFinite ==
  ASSUME NEW A, NEW s \in Nat
  PROVE  IsFiniteSet(Ledger!Losses(A, s)) /\ LossesBelow(A, s) \in Nat
PROOF
  <1>1. IsFiniteSet(0 .. s - 1)
    BY FS_Interval
  <1>2. Ledger!Losses(A, s) \in SUBSET (0 .. s - 1)
    BY DEF Ledger!Losses
  <1>3. IsFiniteSet(Ledger!Losses(A, s))
    BY <1>1, <1>2, FS_Subset
  <1> QED
    BY <1>3, FS_CardinalityType DEF LossesBelow

(* Accepting more frames loses no more of them. *)
LEMMA LossesShrink ==
  ASSUME NEW A, NEW B, A \subseteq B, NEW s \in Nat
  PROVE  LossesBelow(B, s) <= LossesBelow(A, s)
PROOF
  <1>1. Ledger!Losses(B, s) \in SUBSET Ledger!Losses(A, s)
    BY DEF Ledger!Losses
  <1> QED
    BY <1>1, LossesAreFinite, FS_Subset DEF LossesBelow

(* The next sequence adds one loss at most, and none if it was accepted. *)
LEMMA LossesOfNext ==
  ASSUME NEW A, NEW s \in Nat
  PROVE  /\ LossesBelow(A, s + 1) <= LossesBelow(A, s) + 1
         /\ s \in A => LossesBelow(A, s + 1) = LossesBelow(A, s)
PROOF
  <1>1. 0 .. (s + 1) - 1 = (0 .. s - 1) \cup {s}
    OBVIOUS
  <1>2. CASE s \in A
    <2>1. Ledger!Losses(A, s + 1) = Ledger!Losses(A, s)
      BY <1>1, <1>2 DEF Ledger!Losses
    <2>2. LossesBelow(A, s + 1) = LossesBelow(A, s)
      BY <2>1 DEF LossesBelow
    <2> QED
      BY <2>2, LossesAreFinite
  <1>3. CASE s \notin A
    <2>1. Ledger!Losses(A, s + 1) = Ledger!Losses(A, s) \cup {s}
      BY <1>1, <1>3 DEF Ledger!Losses
    <2>2. /\ IsFiniteSet(Ledger!Losses(A, s))
          /\ Cardinality(Ledger!Losses(A, s)) \in Nat
      BY LossesAreFinite DEF LossesBelow
    <2>3. Cardinality(Ledger!Losses(A, s) \cup {s})
            <= Cardinality(Ledger!Losses(A, s)) + 1
      BY <2>2, FS_AddElement
    <2> QED
      BY <1>3, <2>1, <2>3 DEF LossesBelow
  <1> QED
    BY <1>2, <1>3

-----------------------------------------------------------------------------
(* The steps *)

(* Nothing is lost before the first frame. *)
LEMMA LedgerInit == Init => LInv
PROOF
  <1> SUFFICES ASSUME Init PROVE LInv
    OBVIOUS
  <1> USE DEF Init, Entry
  <1>1. Ledger!Losses(AcceptedSequences, 0) = {}
    BY DEF Ledger!Losses
  <1>2. LossesBelow(AcceptedSequences, file.next) = 0
    BY <1>1, FS_EmptySet DEF LossesBelow
  <1>3. FileHoldsLosses
    BY <1>2 DEF FileHoldsLosses, InFlight
  <1> QED
    BY <1>3 DEF LInv, RequestsBringLosses, ProducerKnowsLosses, Busy,
                ClearedLossesAreCounted

(* A step that accepts nothing and leaves the file alone, and sends at     *)
(* most the current request of a busy producer.                            *)
LEMMA UnacceptingStep ==
  ASSUME IInv, LInv,
         UNCHANGED <<file, accepted, counted>>,
         proc'.seq = proc.seq, proc'.pending = proc.pending,
         proc'.phase \in Busy => proc.phase \in Busy,
         proc'.phase = "accepting" => proc.phase = "accepting",
         \A r \in net' : r \in net \/ (r = CurrentRequest /\ proc.phase \in Busy)
  PROVE  LInv'
PROOF
  <1> USE DEF LInv
  <1>1. AcceptedSequences' = AcceptedSequences
    BY DEF AcceptedSequences
  <1>2. RequestsBringLosses'
    <2> SUFFICES ASSUME NEW r \in net'
                 PROVE  LossesBelow(AcceptedSequences, r.seq) <= counted + r.dropped
      BY <1>1 DEF RequestsBringLosses, LossesBelow
    <2>1. CASE r \in net
      BY <2>1 DEF RequestsBringLosses
    <2>2. CASE r = CurrentRequest /\ proc.phase \in Busy
      BY <2>2 DEF ProducerKnowsLosses, CurrentRequest
    <2> QED
      BY <2>1, <2>2
  <1>3. ProducerKnowsLosses'
    BY <1>1 DEF ProducerKnowsLosses, LossesBelow
  <1>4. FileHoldsLosses' /\ ClearedLossesAreCounted'
    BY <1>1 DEF FileHoldsLosses, ClearedLossesAreCounted, InFlight, LossesBelow
  <1> QED
    BY <1>2, <1>3, <1>4

(* What was in flight when the client died is a pending drop of the next.  *)
LEMMA StartKeepsLosses ==
  ASSUME IInv, LInv, Start
  PROVE  LInv'
PROOF
  <1> USE DEF LInv
  <1>1. /\ file'.next = file.next /\ file'.inflight = None
        /\ file'.pending = file.pending + InFlight
        /\ file.pending \in Nat /\ InFlight \in Nat
    BY DEF IInv, TypeOK, Start, Recovered, Entry, InFlight
  <1>2. /\ proc'.phase = "ready"
        /\ UNCHANGED <<net, accepted, counted>>
    BY DEF IInv, TypeOK, Start, Goto
  <1>3. AcceptedSequences' = AcceptedSequences
    BY <1>2 DEF AcceptedSequences
  <1>4. counted \in Nat
    BY DEF IInv, TypeOK
  <1>5. FileHoldsLosses'
    <2>1. InFlight' = 0
      BY <1>1 DEF InFlight
    <2>2. counted + file.pending + InFlight = counted' + file'.pending + 0
      BY <1>1, <1>2, <1>4
    <2> QED
      BY <1>1, <1>3, <2>1, <2>2 DEF FileHoldsLosses, LossesBelow
  <1> QED
    BY <1>2, <1>3, <1>5 DEF RequestsBringLosses, ProducerKnowsLosses, Busy,
                            ClearedLossesAreCounted, LossesBelow

(* A reservation puts one more sequence at risk and holds it in flight. *)
LEMMA ReserveKeepsLosses ==
  ASSUME IInv, LInv, Reserve
  PROVE  LInv'
PROOF
  <1> USE DeliveryAssumption DEF LInv
  <1>1. /\ file'.next = file.next + 1 /\ file'.inflight = file.next
        /\ file'.pending = file.pending /\ InFlight = 0
        /\ file.pending \in Nat /\ file.next \in Nat
    BY DEF IInv, TypeOK, Reserve, Entry, InFlight
  <1>2. /\ proc'.phase = "reserved" /\ proc'.seq = file.next
        /\ proc'.pending = file.pending
        /\ UNCHANGED <<net, accepted, counted>>
    BY DEF Reserve
  <1>3. AcceptedSequences' = AcceptedSequences
    BY <1>2 DEF AcceptedSequences
  <1>4. counted \in Nat /\ InFlight' = 1
    BY <1>1 DEF IInv, TypeOK, InFlight
  <1>5. LossesBelow(AcceptedSequences, file.next) <= counted + file.pending
    BY <1>1, <1>4 DEF FileHoldsLosses
  <1>6. /\ LossesBelow(AcceptedSequences, file.next + 1)
             <= LossesBelow(AcceptedSequences, file.next) + 1
        /\ LossesBelow(AcceptedSequences, file.next) \in Nat
        /\ LossesBelow(AcceptedSequences, file.next + 1) \in Nat
    BY <1>1, LossesOfNext, LossesAreFinite
  <1>7. FileHoldsLosses'
    <2>1. LossesBelow(AcceptedSequences, file.next + 1)
            <= counted + file.pending + 1
      BY <1>1, <1>4, <1>5, <1>6
    <2> QED
      BY <1>1, <1>2, <1>3, <1>4, <2>1 DEF FileHoldsLosses, LossesBelow
  <1>8. ProducerKnowsLosses'
    BY <1>1, <1>2, <1>3, <1>5 DEF ProducerKnowsLosses, LossesBelow
  <1> QED
    BY <1>2, <1>3, <1>7, <1>8 DEF RequestsBringLosses,
                                  ClearedLossesAreCounted, LossesBelow

(* Dropping moves the frame in flight to the pending drops. *)
LEMMA MarkDroppedKeepsLosses ==
  ASSUME IInv, LInv, MarkDropped
  PROVE  LInv'
PROOF
  <1> USE DeliveryAssumption DEF LInv
  <1>1. /\ file'.next = file.next /\ file'.inflight = None
        /\ file'.pending = file.pending + 1 /\ file.pending \in Nat
        /\ InFlight = 1 /\ InFlight' = 0
    BY DEF IInv, TypeOK, MarkDropped, Entry, InFlight, BusyMatchesFile, Busy
  <1>2. /\ proc'.phase = "ready"
        /\ UNCHANGED <<net, accepted, counted>> /\ counted \in Nat
    BY DEF IInv, TypeOK, MarkDropped, Goto
  <1>3. AcceptedSequences' = AcceptedSequences
    BY <1>2 DEF AcceptedSequences
  <1>4. FileHoldsLosses'
    <2>1. counted + file.pending + InFlight = counted' + file'.pending + InFlight'
      BY <1>1, <1>2
    <2> QED
      BY <1>1, <1>3, <2>1 DEF FileHoldsLosses, LossesBelow
  <1> QED
    BY <1>2, <1>3, <1>4 DEF RequestsBringLosses, ProducerKnowsLosses, Busy,
                            ClearedLossesAreCounted, LossesBelow

(* Clearing the file loses nothing the core has not counted. *)
LEMMA MarkAcceptedKeepsLosses ==
  ASSUME IInv, LInv, MarkAccepted
  PROVE  LInv'
PROOF
  <1> USE DeliveryAssumption DEF LInv
  <1>1. /\ file'.next = file.next /\ file'.inflight = None
        /\ file'.pending = 0 /\ InFlight' = 0
    BY DEF MarkAccepted, Entry, InFlight
  <1>2. /\ proc.phase = "accepting" /\ proc'.phase = "ready"
        /\ UNCHANGED <<net, accepted, counted>> /\ counted \in Nat
    BY DEF IInv, TypeOK, MarkAccepted, Goto
  <1>3. AcceptedSequences' = AcceptedSequences
    BY <1>2 DEF AcceptedSequences
  <1>4. FileHoldsLosses'
    <2>1. LossesBelow(AcceptedSequences, file.next) <= counted
      BY <1>2 DEF ClearedLossesAreCounted
    <2>2. counted = counted' + file'.pending + InFlight'
      BY <1>1, <1>2
    <2> QED
      BY <1>1, <1>3, <2>1, <2>2 DEF FileHoldsLosses, LossesBelow
  <1> QED
    BY <1>2, <1>3, <1>4 DEF RequestsBringLosses, ProducerKnowsLosses, Busy,
                            ClearedLossesAreCounted, LossesBelow

(* What accepting a request does to the history. *)
LEMMA AcceptedGrow ==
  ASSUME IInv, NEW r \in net, Accept(r)
  PROVE  AcceptedSequences' = AcceptedSequences \cup {r.seq}
PROOF
  <1> DEFINE e == [seq |-> r.seq, life |-> core.life]
  <1>1. /\ r.seq \in Nat /\ e \in [seq : Nat, life : Nat] /\ e.seq = r.seq
        /\ accepted \in Seq([seq : Nat, life : Nat])
        /\ accepted' = Append(accepted, e)
    BY DEF IInv, TypeOK, Request, Accept
  <1> HIDE DEF e
  <1>2. /\ DOMAIN accepted' = DOMAIN accepted \cup {Len(accepted) + 1}
        /\ \A i \in DOMAIN accepted : accepted'[i] = accepted[i]
        /\ accepted'[Len(accepted) + 1] = e
    BY <1>1, AppendedEntry
  <1> QED
    BY <1>1, <1>2 DEF AcceptedSequences

(* The core takes over the losses the request brought. *)
LEMMA AcceptKeepsLosses ==
  ASSUME IInv, LInv, NEW r \in net, Accept(r)
  PROVE  LInv'
PROOF
  <1> USE DEF LInv
  <1> DEFINE A == AcceptedSequences
             B == AcceptedSequences \cup {r.seq}
  <1>1. /\ AcceptedSequences' = B /\ A \subseteq B
        /\ file' = file /\ net' \subseteq net /\ counted' = counted + r.dropped
    BY AcceptedGrow DEF Accept, Handled
  <1>2. /\ r.seq \in Nat /\ r.dropped \in Nat /\ counted \in Nat
        /\ file.next \in Nat /\ file.pending \in Nat
        /\ proc.seq \in Nat /\ proc.pending \in Nat /\ InFlight \in Nat
        /\ \A q \in net : q.seq \in Nat /\ q.dropped \in Nat
    BY DEF IInv, TypeOK, Request, InFlight
  <1>3. /\ proc'.seq = proc.seq /\ proc'.pending = proc.pending
        /\ proc'.phase \in Busy => proc.phase \in Busy
        /\ \/ proc'.phase = proc.phase
           \/ proc.phase = "waiting" /\ proc.seq = r.seq
    BY DEF IInv, TypeOK, Accept, Answered, Busy
  <1>4. \A s \in Nat : /\ LossesBelow(B, s) <= LossesBelow(A, s)
                       /\ LossesBelow(A, s) \in Nat /\ LossesBelow(B, s) \in Nat
    BY LossesShrink, LossesAreFinite
  <1> HIDE DEF A, B
  <1>5. RequestsBringLosses'
    <2> SUFFICES ASSUME NEW q \in net
                 PROVE  LossesBelow(B, q.seq) <= counted' + q.dropped
      BY <1>1 DEF RequestsBringLosses, LossesBelow
    <2>1. LossesBelow(A, q.seq) <= counted + q.dropped
      BY DEF RequestsBringLosses, A
    <2> QED
      BY <1>1, <1>2, <1>4, <2>1
  <1>6. ProducerKnowsLosses'
    <2> SUFFICES ASSUME proc.phase \in Busy
                 PROVE  /\ file.next = proc.seq + 1
                        /\ LossesBelow(B, proc.seq) <= counted' + proc.pending
      BY <1>1, <1>3 DEF ProducerKnowsLosses, LossesBelow
    <2>1. /\ file.next = proc.seq + 1
          /\ LossesBelow(A, proc.seq) <= counted + proc.pending
      BY DEF ProducerKnowsLosses, A
    <2> QED
      BY <1>1, <1>2, <1>4, <2>1
  <1>7. FileHoldsLosses'
    <2>1. LossesBelow(A, file.next) <= counted + file.pending + InFlight
      BY DEF FileHoldsLosses, A
    <2>2. LossesBelow(B, file.next) <= counted' + file.pending + InFlight
      BY <1>1, <1>2, <1>4, <2>1
    <2> QED
      BY <1>1, <2>2 DEF FileHoldsLosses, InFlight, LossesBelow
  <1>8. ClearedLossesAreCounted'
    <2> SUFFICES ASSUME proc'.phase = "accepting"
                 PROVE  LossesBelow(B, file.next) <= counted'
      BY <1>1 DEF ClearedLossesAreCounted, LossesBelow
    <2>1. CASE proc.phase = "accepting"
      <3>1. LossesBelow(A, file.next) <= counted
        BY <2>1 DEF ClearedLossesAreCounted, A
      <3> QED
        BY <1>1, <1>2, <1>4, <3>1
    <2>2. CASE proc.phase = "waiting" /\ proc.seq = r.seq
      <3>1. file.next = r.seq + 1
        BY <2>2 DEF ProducerKnowsLosses, Busy
      <3>2. LossesBelow(B, r.seq + 1) = LossesBelow(B, r.seq)
        BY <1>2, LossesOfNext DEF B
      <3>3. LossesBelow(A, r.seq) <= counted + r.dropped
        BY DEF RequestsBringLosses, A
      <3> QED
        BY <1>1, <1>2, <1>4, <3>1, <3>2, <3>3
    <2> QED
      BY <1>3, <2>1, <2>2
  <1> QED
    BY <1>5, <1>6, <1>7, <1>8

(* Every step keeps the losses covered. *)
LEMMA LedgerStep == IInv /\ LInv /\ [Next]_vars => LInv'
PROOF
  <1> SUFFICES ASSUME IInv, LInv, [Next]_vars PROVE LInv'
    OBVIOUS
  <1>0. proc \in [phase : Phases, seq : Nat, pending : Nat]
    BY DEF IInv, TypeOK
  <1>1. CASE Start
    BY <1>1, StartKeepsLosses
  <1>2. CASE Reserve
    BY <1>2, ReserveKeepsLosses
  <1>3. CASE MarkDropped
    BY <1>3, MarkDroppedKeepsLosses
  <1>4. CASE MarkAccepted
    BY <1>4, MarkAcceptedKeepsLosses
  <1>5. ASSUME NEW r \in net, Accept(r) PROVE LInv'
    BY <1>5, AcceptKeepsLosses
  <1>6. CASE RunAgain \/ ReserveRefused \/ GiveUp \/ RunEnds \/ Die
    BY <1>0, <1>6, UnacceptingStep
       DEF RunAgain, ReserveRefused, GiveUp, RunEnds, Die, Goto, Busy
  <1>7. CASE Send \/ SendAgain
    BY <1>0, <1>7, UnacceptingStep DEF Send, SendAgain, Goto, Busy
  <1>8. ASSUME NEW r \in net, Lose(r) \/ Refuse(r) PROVE LInv'
    BY <1>0, <1>8, UnacceptingStep DEF Lose, Refuse, Handled, Answered, Busy
  <1>9. CASE OtherSource \/ ForgetSource \/ CoreRestart
    BY <1>9, UnacceptingStep DEF OtherSource, ForgetSource, CoreRestart
  <1>10. CASE UNCHANGED vars
    BY <1>10, UnacceptingStep DEF vars
  <1> QED
    BY <1>1, <1>2, <1>3, <1>4, <1>5, <1>6, <1>7, <1>8, <1>9, <1>10
       DEF Next, Producer

(* A step of the system is a step of the ledger, or none. *)
LEMMA RefinementStep ==
  IInv /\ LInv /\ [Next]_vars => [Ledger!Next]_(Ledger!vars)
PROOF
  <1> SUFFICES ASSUME IInv, LInv, [Next]_vars
               PROVE  [Ledger!Next]_(Ledger!vars)
    OBVIOUS
  <1>1. ASSUME NEW r \in net, Accept(r)
        PROVE  Ledger!Next
    <2>1. /\ AcceptedSequences' = AcceptedSequences \cup {r.seq}
          /\ counted' = counted + r.dropped
          /\ r.seq \in Nat /\ r.dropped \in Nat /\ counted \in Nat
      BY <1>1, AcceptedGrow DEF Accept, IInv, TypeOK, Request
    <2>2. LossesBelow(AcceptedSequences', r.seq)
            <= LossesBelow(AcceptedSequences, r.seq)
      BY <2>1, LossesShrink
    <2>3. /\ LossesBelow(AcceptedSequences, r.seq) <= counted + r.dropped
          /\ LossesBelow(AcceptedSequences, r.seq) \in Nat
          /\ LossesBelow(AcceptedSequences', r.seq) \in Nat
      BY <2>1, LossesAreFinite DEF LInv, RequestsBringLosses
    <2>4. LossesBelow(AcceptedSequences', r.seq) <= counted'
      BY <2>1, <2>2, <2>3
    <2>5. Ledger!Accept(r.seq, r.dropped)
      BY <2>1, <2>4 DEF Ledger!Accept, LossesBelow, Cardinality, Ledger!Cardinality
    <2>6. r.seq \in AcceptedSequences' /\ r.dropped \in 0 .. counted'
      BY <2>1
    <2> QED
      BY <2>5, <2>6 DEF Ledger!Next
  <1>2. CASE UNCHANGED <<accepted, counted>>
    BY <1>2 DEF Ledger!vars, AcceptedSequences
  <1>3. (\E r \in net : Accept(r)) \/ UNCHANGED <<accepted, counted>>
    BY DEF Next, Producer, vars, Start, RunAgain, Reserve, ReserveRefused,
           Send, SendAgain, GiveUp, MarkDropped, MarkAccepted, RunEnds, Die,
           Lose, Refuse, OtherSource, ForgetSource, CoreRestart
  <1> QED
    BY <1>1, <1>2, <1>3

-----------------------------------------------------------------------------
(* The theorem *)

(* "prevents a crash from silently hiding a lost visual frame": for every  *)
(* client, bound and number of crashes, whenever the core accepts a frame  *)
(* it has been told of every loss before it.                               *)
THEOREM DeliveryImplementsLedger == Spec => LedgerSpec
PROOF
  <1>1. Init => Ledger!Init
    BY DEF Init, Ledger!Init, AcceptedSequences
  <1> QED
    BY <1>1, DeliveryInit, DeliveryStep, LedgerInit, LedgerStep,
       RefinementStep, PTL DEF Spec, LedgerSpec, Ledger!Spec
=============================================================================
