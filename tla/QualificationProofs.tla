------------------------- MODULE QualificationProofs -------------------------
(***************************************************************************)
(* The safety properties of Perception and Qualification for every set of  *)
(* sources and scenes, any capacity of the queues and any number of        *)
(* events, faults and restarts.                                            *)
(*                                                                         *)
(* The argument.  An event's id is new when it is perceived and is logged  *)
(* once, when its thread journals it (ThreadInv); so an entry that was not *)
(* in the journal when the probe began is not in "before" (ProbeInv),      *)
(* unless the service restarted, which the instance number tells.  A post  *)
(* that timed out is of a logged event whenever it arrives (LateInv).      *)
(***************************************************************************)
EXTENDS Qualification, SequenceTheorems, TLAPS

Busy(t) == thread[t].at # "idle"
Unlogged(t) == thread[t].at \in {"apply", "append"}

\* What a thread holds, and how far its event has come.
ThreadInv ==
  \A t \in Threads :
    /\ Busy(t) <=> Ev(t) # None
    /\ Busy(t) => Ev(t).id \in 1 .. made /\ Ev(t).by = instance
    /\ Unlogged(t) => Ev(t).id \notin logged
    /\ Busy(t) /\ ~Unlogged(t) => Ev(t).id \in logged
    /\ At(t, "answer") \/ At(t, "record") =>
         /\ thread[t].answer \in Answer
         /\ thread[t].answer = "published" => Ev(t).id \in rig.fresh
    /\ \A u \in Threads : t # u /\ Busy(t) /\ Busy(u) => Ev(t).id # Ev(u).id

\* The journal holds logged events of this instance.
JournalInv ==
  \A e \in Entries :
    e.cursor < journal.next /\ e.ev.by = instance /\ e.ev.id \in logged

ResultInv ==
  \A i \in 1 .. Len(results) :
    results[i].status = "published" => results[i].ev.id \in rig.fresh

\* A post that the bridge gave up on was one of a logged event.
LateInv == \A ev \in late : ev.id \in logged

RunInv ==
  /\ PerceptionTypeOK /\ ThreadInv /\ JournalInv /\ ResultInv /\ LateInv
  /\ AdmittedIsJournalled

\* A row with accepted frames has the sequence of the last one.
RowInv == row # None /\ row.accepted >= 1 => row.seq \in Nat

Late == q.at \in {"poll", "entries", "finalStatus", "lastStatus",
                  "finalHealth", "lastHealth"}
Bounded == q.at \in {"finalStatus", "lastStatus", "finalHealth", "lastHealth"}
SameRun == instance = q.instance

\* A logged event that can be evidence for a probe that began after seq.
Evidence(ev, seq, log) ==
  ev.src = Cam /\ ev.scene # Blank /\ ev.seq > seq /\ ev.id \in log

ProbeInv ==
  /\ q.at \in {"health", "status", "baseline"} => q.todo = {} /\ q.candidate = None
  /\ q.at = "baseline" => q.row.accepted \in Nat /\ q.row.seq \in Nat
  /\ Late => q.row.accepted \in Nat /\ q.row.seq \in Nat
  /\ q.at \in {"finalHealth", "lastHealth"} => q.row.final \in Row \cup {None}
  /\ Late /\ SameRun =>
       \A e \in Entries : e.cursor > q.cursor => e.ev.id \notin q.before
  /\ \A e \in q.todo :
       /\ Evidence(e.ev, q.row.seq, logged)
       /\ e.ev.by \in q.instance .. instance
       /\ SameRun => e.ev.id \notin q.before
  /\ q.candidate # None =>
       /\ Evidence(q.candidate, q.row.seq, logged)
       /\ q.candidate.by = q.instance
       /\ q.candidate.id \notin q.before
  /\ Bounded => q.candidate # None /\ q.candidate.id \in rig.fresh
  /\ report # "none" => q.at = "over"

QInv == TypeOK /\ RunInv /\ RowInv /\ ProbeInv /\ PassIsFreshEvidence

\* What a step of the runtime may do to what the probe relies on.
Grows ==
  /\ logged \subseteq logged' /\ rig.fresh \subseteq rig'.fresh
  /\ instance' \in Nat /\ instance <= instance'
  /\ instance' = instance =>
       \A e \in Entries' : e \in Entries \/ e.ev.id \notin logged

-----------------------------------------------------------------------------
(* The two bounded queues and the threads                                  *)

(* Appending to the journal adds the event with the next cursor; what is   *)
(* left of the journal was there before.                                   *)
LEMMA JournalledIs ==
  ASSUME PerceptionTypeOK, NEW ev \in Event
  PROVE  LET new == Journalled(ev)
         IN /\ new \in [entries : Seq(Entry), next : Nat]
            /\ Len(new.entries) <= Capacity
            /\ new.next = journal.next + 1
            /\ \A i \in 1 .. Len(new.entries) :
                 \/ new.entries[i] \in Entries
                 \/ new.entries[i] = [cursor |-> journal.next, ev |-> ev]
<1> DEFINE old == journal.entries
           last == [cursor |-> journal.next, ev |-> ev]
           all == Append(old, last)
           n == Len(all)
           kept == IF n > Capacity THEN Newest(all) ELSE all
<1>1. /\ old \in Seq(Entry) /\ journal.next \in Nat /\ Len(old) <= Capacity
      /\ Capacity \in Nat \ {0}
  BY PerceptionAssumption DEF PerceptionTypeOK
<1>2. last \in Entry
  BY <1>1 DEF Entry
<1> HIDE DEF last
<1>3. /\ all \in Seq(Entry) /\ n = Len(old) + 1 /\ n \in Nat
      /\ \A i \in 1 .. n : all[i] \in Entries \/ all[i] = last
  BY <1>1, <1>2 DEF Entries
<1> HIDE DEF all
<1>4. n > Capacity =>
        /\ Newest(all) \in Seq(Entry) /\ Len(Newest(all)) <= Capacity
        /\ \A i \in 1 .. Len(Newest(all)) :
             Newest(all)[i] \in Entries \/ Newest(all)[i] = last
  <2> DEFINE first == n - Capacity + 1
  <2> SUFFICES ASSUME n > Capacity
               PROVE  /\ Newest(all) \in Seq(Entry)
                      /\ Len(Newest(all)) <= Capacity
                      /\ \A i \in 1 .. Len(Newest(all)) :
                           Newest(all)[i] \in Entries \/ Newest(all)[i] = last
    OBVIOUS
  <2>1. first \in 1 .. n /\ n - first + 1 = Capacity
    BY <1>1, <1>3
  <2>2. \A i \in first .. n : all[i] \in Entry
    BY <1>3, <2>1
  <2> HIDE DEF first
  <2>3. /\ SubSeq(all, first, n) \in Seq(Entry)
        /\ Len(SubSeq(all, first, n)) = n - first + 1
        /\ \A i \in 1 .. n - first + 1 :
             SubSeq(all, first, n)[i] = all[first + i - 1]
    BY <1>3, <2>1, <2>2, SubSeqProperties
  <2>4. \A i \in 1 .. Capacity : first + i - 1 \in 1 .. n
    BY <1>1, <1>3, <2>1
  <2>5. Newest(all) = SubSeq(all, first, n)
    BY DEF Newest, first
  <2>6. QED
    BY <1>1, <1>3, <2>1, <2>3, <2>4, <2>5
<1>5. /\ kept \in Seq(Entry) /\ Len(kept) <= Capacity
      /\ \A i \in 1 .. Len(kept) : kept[i] \in Entries \/ kept[i] = last
  BY <1>1, <1>3, <1>4
<1>6. Journalled(ev) = [entries |-> kept, next |-> journal.next + 1]
  BY DEF Journalled, all, last
<1> HIDE DEF kept
<1>7. QED
  BY <1>1, <1>5, <1>6 DEF last

(* The entries of the journal are typed. *)
LEMMA EntryTypes ==
  ASSUME PerceptionTypeOK
  PROVE  Entries \subseteq Entry
<1>1. journal.entries \in Seq(Entry)
  BY DEF PerceptionTypeOK
<1>2. QED
  BY <1>1 DEF Entries

(* Recording a result keeps at most the newest Receipts results. *)
LEMMA RecordedIs ==
  ASSUME PerceptionTypeOK, NEW receipt \in Receipt
  PROVE  LET all == Append(results, receipt)
             new == IF Len(all) > Receipts THEN Tail(all) ELSE all
         IN /\ new \in Seq(Receipt) /\ Len(new) <= Receipts
            /\ \A i \in 1 .. Len(new) :
                 \/ new[i] = receipt
                 \/ \E j \in 1 .. Len(results) : new[i] = results[j]
<1> DEFINE all == Append(results, receipt)
<1>1. results \in Seq(Receipt) /\ Len(results) <= Receipts /\ Receipts \in Nat
  BY PerceptionAssumption DEF PerceptionTypeOK
<1>2. /\ all \in Seq(Receipt) /\ Len(all) = Len(results) + 1
      /\ \A i \in 1 .. Len(results) : all[i] = results[i]
      /\ all[Len(results) + 1] = receipt
  BY <1>1
<1> HIDE DEF all
<1>3. /\ Tail(all) \in Seq(Receipt) /\ Len(Tail(all)) = Len(results)
      /\ \A i \in 1 .. Len(results) : Tail(all)[i] = all[i + 1]
  BY <1>1, <1>2, HeadTailProperties
<1>4. CASE Len(all) > Receipts
  <2>1. \A i \in 1 .. Len(results) :
          i + 1 \in 1 .. Len(results) \/ i + 1 = Len(results) + 1
    BY <1>1
  <2>2. QED
    BY <1>1, <1>2, <1>3, <1>4, <2>1 DEF all
<1>5. CASE ~(Len(all) > Receipts)
  <2>1. \A i \in 1 .. Len(all) :
          i \in 1 .. Len(results) \/ i = Len(results) + 1
    BY <1>1, <1>2
  <2>2. QED
    BY <1>1, <1>2, <1>5, <2>1 DEF all
<1>6. QED
  BY <1>4, <1>5

(* A thread's fields. *)
LEMMA ThreadTypes ==
  ASSUME PerceptionTypeOK, NEW t \in Threads
  PROVE  /\ thread[t] \in ThreadState
         /\ Ev(t) \in Event \cup {None}
         /\ thread[t].answer \in Answer \cup {None}
BY DEF PerceptionTypeOK, ThreadState, Ev

(* A busy thread holds an event. *)
LEMMA BusyHasEvent ==
  ASSUME PerceptionTypeOK, ThreadInv, NEW t \in Threads, Busy(t)
  PROVE  Ev(t) \in Event
BY ThreadTypes DEF ThreadInv

(* A thread that goes on to a label keeps its event and its answer, and no *)
(* other thread moves.                                                     *)
LEMMA GotoIs ==
  ASSUME PerceptionTypeOK, NEW t \in Threads,
         NEW label \in {"append", "gate", "post", "record", "done"},
         Goto(t, label)
  PROVE  /\ thread' \in [Threads -> ThreadState]
         /\ thread'[t].at = label
         /\ \A u \in Threads :
              /\ thread'[u].ev = thread[u].ev
              /\ thread'[u].answer = thread[u].answer
              /\ u # t => thread'[u] = thread[u]
<1>1. thread \in [Threads -> ThreadState]
  BY DEF PerceptionTypeOK
<1>2. thread' = [thread EXCEPT ![t] = [thread[t] EXCEPT !.at = label]]
  BY DEF Goto
<1>3. thread[t] \in ThreadState
  BY <1>1
<1>4. [thread[t] EXCEPT !.at = label] \in ThreadState
  BY <1>3 DEF ThreadState
<1>5. /\ [thread[t] EXCEPT !.at = label].at = label
      /\ [thread[t] EXCEPT !.at = label].ev = thread[t].ev
      /\ [thread[t] EXCEPT !.at = label].answer = thread[t].answer
  BY <1>3 DEF ThreadState
<1>6. QED
  BY <1>1, <1>2, <1>4, <1>5

-----------------------------------------------------------------------------
(* What steps leave alone                                                  *)

(* A busy thread goes on, and stays on its side of the journal. *)
LEMMA ThreadGoes ==
  ASSUME PerceptionTypeOK, ThreadInv, NEW t \in Threads,
         NEW label \in {"append", "gate", "post", "record", "done"},
         Goto(t, label), Busy(t), Unlogged(t) <=> label = "append",
         label = "record" => At(t, "answer"),
         logged' = logged, made' = made, instance' = instance,
         rig.fresh \subseteq rig'.fresh
  PROVE  ThreadInv'
<1>1. /\ thread'[t].at = label
      /\ \A u \in Threads :
           /\ thread'[u].ev = thread[u].ev
           /\ thread'[u].answer = thread[u].answer
           /\ u # t => thread'[u] = thread[u]
  BY GotoIs
<1>2. QED
  BY <1>1 DEF ThreadInv, Busy, Unlogged, Ev, At

(* A thread becomes idle. *)
LEMMA ThreadStops ==
  ASSUME PerceptionTypeOK, ThreadInv, NEW t \in Threads,
         thread' = [thread EXCEPT ![t] = Idle],
         logged' = logged, made' = made, instance' = instance, rig' = rig
  PROVE  /\ thread' \in [Threads -> ThreadState]
         /\ ThreadInv'
<1>1. thread \in [Threads -> ThreadState]
  BY DEF PerceptionTypeOK
<1>2. Idle \in ThreadState /\ Idle.at = "idle" /\ Idle.ev = None
  BY DEF Idle, ThreadState
<1>3. /\ thread' \in [Threads -> ThreadState] /\ thread'[t] = Idle
      /\ \A u \in Threads : u # t => thread'[u] = thread[u]
  BY <1>1, <1>2
<1>4. ThreadInv'
  BY <1>2, <1>3 DEF ThreadInv, Busy, Unlogged, Ev, At
<1>5. QED
  BY <1>3, <1>4

(* The journal is not touched. *)
LEMMA JournalStays ==
  ASSUME PerceptionTypeOK, JournalInv, journal' = journal,
         instance' = instance, logged' = logged, rig.fresh \subseteq rig'.fresh
  PROVE  JournalInv' /\ Grows
BY DEF JournalInv, Grows, Entries, PerceptionTypeOK

(* Neither are the results. *)
LEMMA ResultsStay ==
  ASSUME ResultInv, results' = results, rig.fresh \subseteq rig'.fresh
  PROVE  ResultInv'
BY DEF ResultInv

(* Neither are the late posts. *)
LEMMA LateStay ==
  ASSUME LateInv, late' = late, logged \subseteq logged'
  PROVE  LateInv'
BY DEF LateInv

-----------------------------------------------------------------------------
(* The steps of the runtime                                                *)

(* At first nothing is perceived, journalled or published. *)
LEMMA InitRunInv == PerceptionInit => RunInv /\ RowInv
<1> SUFFICES ASSUME PerceptionInit PROVE RunInv /\ RowInv
  OBVIOUS
<1>1. Idle \in ThreadState /\ Idle.at = "idle" /\ Idle.ev = None
  BY DEF Idle, ThreadState
<1>2. FreshJournal \in [entries : Seq(Entry), next : Nat]
      /\ Len(FreshJournal.entries) = 0
  BY DEF FreshJournal
<1>3. /\ thread \in [Threads -> ThreadState]
      /\ \A t \in Threads : thread[t] = Idle
  BY <1>1 DEF PerceptionInit
<1>4. PerceptionTypeOK
  <2>1. rig \in Rig /\ gate \in [Sources -> Scenes \cup {None}]
    BY DEF PerceptionInit, Rig
  <2>2. results \in Seq(Receipt) /\ Len(results) <= Receipts
    BY PerceptionAssumption DEF PerceptionInit
  <2>3. /\ journal \in [entries : Seq(Entry), next : Nat]
        /\ Len(journal.entries) <= Capacity
    BY <1>2, PerceptionAssumption DEF PerceptionInit
  <2>4. {instance, made, direct, faults} \subseteq Nat
    BY DEF PerceptionInit
  <2>5. /\ world \in Event \cup {None} /\ row \in Row \cup {None}
        /\ backoff \in BOOLEAN /\ late \subseteq Event
        /\ logged \subseteq 1 .. made
    BY DEF PerceptionInit
  <2>6. QED
    BY <1>3, <2>1, <2>2, <2>3, <2>4, <2>5 DEF PerceptionTypeOK
<1>5. ThreadInv
  BY <1>1, <1>3 DEF ThreadInv, Busy, Unlogged, Ev, At
<1>6. JournalInv /\ ResultInv
  BY <1>2 DEF PerceptionInit, JournalInv, ResultInv, Entries
<1>7. LateInv
  BY DEF LateInv, PerceptionInit
<1>8. AdmittedIsJournalled
  BY DEF AdmittedIsJournalled, PerceptionInit
<1>9. RowInv
  BY DEF RowInv, PerceptionInit
<1>10. QED
  BY <1>4, <1>5, <1>6, <1>7, <1>8, <1>9 DEF RunInv

(* A new event has an id no event had. *)
LEMMA PerceiveKeeps ==
  ASSUME RunInv, RowInv, NEW t \in Threads, NEW ev \in Event, Perceive(t, ev),
         ev.id = made + 1, ev.by = instance, direct' \in Nat
  PROVE  RunInv' /\ RowInv' /\ Grows
<1>1. /\ PerceptionTypeOK /\ ThreadInv /\ JournalInv /\ ResultInv /\ LateInv
      /\ AdmittedIsJournalled
  BY DEF RunInv
<1> DEFINE mine == [at |-> "apply", ev |-> ev, answer |-> None]
<1>2. /\ instance' = instance /\ world' = world /\ journal' = journal
      /\ row' = row /\ gate' = gate /\ backoff' = backoff
      /\ results' = results /\ rig' = rig /\ late' = late
      /\ logged' = logged /\ faults' = faults /\ made' = made + 1
      /\ thread' = [thread EXCEPT ![t] = mine]
  BY DEF Perceive, local, bridge
<1>3. mine \in ThreadState /\ mine.at = "apply" /\ mine.ev = ev
  BY DEF ThreadState
<1> HIDE DEF mine
<1>4. /\ thread' \in [Threads -> ThreadState]
      /\ thread'[t] = mine
      /\ \A u \in Threads : u # t => thread'[u] = thread[u]
  BY <1>1, <1>2, <1>3 DEF PerceptionTypeOK
<1>5. made \in Nat /\ logged \subseteq 1 .. made
  BY <1>1 DEF PerceptionTypeOK
<1>6. PerceptionTypeOK'
  <2>1. made' \in Nat /\ logged' \subseteq 1 .. made'
    BY <1>2, <1>5
  <2>2. QED
    BY <1>1, <1>2, <1>4, <2>1 DEF PerceptionTypeOK
<1>7. ev.id \notin logged /\ ev.id \in 1 .. made' /\ ev # None
  BY <1>2, <1>5, PerceptionAssumption
<1>8. ThreadInv'
  <2>1. \A u \in Threads :
          Busy(u) => Ev(u).id \in 1 .. made' /\ Ev(u).id # ev.id
    BY <1>1, <1>2, <1>5 DEF ThreadInv
  <2>2. QED
    BY <1>1, <1>2, <1>3, <1>4, <1>7, <2>1
    DEF ThreadInv, Busy, Unlogged, Ev, At
<1>9. JournalInv' /\ Grows
  BY <1>1, <1>2, JournalStays
<1>10. ResultInv' /\ LateInv'
  BY <1>1, <1>2, ResultsStay, LateStay
<1>11. AdmittedIsJournalled' /\ RowInv'
  BY <1>1, <1>2 DEF AdmittedIsJournalled, RowInv
<1>12. QED
  BY <1>6, <1>8, <1>9, <1>10, <1>11 DEF RunInv

(* The world takes an event or refuses it, the gate is looked at, a post   *)
(* fails, an answer is lost, a finished frame is counted: nothing that is  *)
(* promised changes.                                                       *)
LEMMA QuietStepsKeep ==
  ASSUME RunInv, RowInv, NEW t \in Threads,
         \/ Apply(t) \/ Refuse(t) \/ CheckGate(t) \/ PostFails(t)
         \/ AnswerLost(t) \/ Finish(t)
  PROVE  RunInv' /\ RowInv' /\ Grows
<1>1. /\ PerceptionTypeOK /\ ThreadInv /\ JournalInv /\ ResultInv /\ LateInv
      /\ AdmittedIsJournalled
  BY DEF RunInv
<1>2. /\ instance' = instance /\ made' = made /\ direct' = direct
      /\ journal' = journal /\ logged' = logged /\ late' = late
      /\ gate' = gate /\ results' = results /\ rig' = rig
  BY DEF Apply, Refuse, CheckGate, PostFails, AnswerLost, Finish, local, bridge
<1>3. Busy(t) /\ Ev(t) \in Event
  <2>1. Busy(t)
    BY DEF Apply, Refuse, CheckGate, PostFails, AnswerLost, Finish, Busy, At
  <2>2. QED
    BY <1>1, <2>1, BusyHasEvent
<1>4. thread' \in [Threads -> ThreadState] /\ ThreadInv'
  <2>1. ASSUME NEW label \in {"append", "post", "done"}, Goto(t, label),
               Unlogged(t) <=> label = "append"
        PROVE  thread' \in [Threads -> ThreadState] /\ ThreadInv'
    BY <1>1, <1>2, <1>3, <2>1, GotoIs, ThreadGoes
  <2>2. CASE Apply(t)
    BY <2>1, <2>2 DEF Apply, At, Unlogged
  <2>3. CASE Refuse(t) \/ Finish(t)
    BY <1>1, <1>2, <2>3, ThreadStops DEF Refuse, Finish
  <2>4. CASE CheckGate(t)
    <3> DEFINE label == IF Changed(Ev(t)) /\ ~backoff THEN "post" ELSE "done"
    <3>1. label \in {"post", "done"} /\ Goto(t, label) /\ ~Unlogged(t)
      BY <2>4 DEF CheckGate, At, Unlogged
    <3> HIDE DEF label
    <3>2. QED
      BY <2>1, <3>1
  <2>5. CASE PostFails(t) \/ AnswerLost(t)
    BY <2>1, <2>5 DEF PostFails, AnswerLost, At, Unlogged
  <2>6. QED
    BY <2>2, <2>3, <2>4, <2>5
<1>5. /\ world' \in Event \cup {None} /\ backoff' \in BOOLEAN
      /\ row' \in Row \cup {None} /\ RowInv'
  <2>1. /\ world \in Event \cup {None} /\ backoff \in BOOLEAN
        /\ row \in Row \cup {None}
    BY <1>1 DEF PerceptionTypeOK
  <2>2. CASE ~Finish(t)
    BY <1>3, <2>1, <2>2
    DEF Apply, Refuse, CheckGate, PostFails, AnswerLost, bridge, local, RowInv
  <2>3. CASE Finish(t)
    <3> DEFINE n == IF row = None THEN 1 ELSE row.accepted + 1
    <3>1. n \in Nat /\ Ev(t).seq \in Nat
      BY <1>3, <2>1 DEF Row, Event
    <3>2. \/ row' = row
          \/ row' = [seq |-> Ev(t).seq, accepted |-> n, active |-> TRUE]
      BY <2>3 DEF Finish
    <3> HIDE DEF n
    <3>3. QED
      BY <2>1, <2>3, <3>1, <3>2 DEF Finish, local, bridge, Row, RowInv
  <2>4. QED
    BY <2>2, <2>3
<1>6. faults' \in Nat
  <2>1. faults \in Nat
    BY <1>1 DEF PerceptionTypeOK
  <2>2. faults' = faults \/ faults' = faults + 1
    BY DEF Apply, Refuse, CheckGate, PostFails, AnswerLost, Finish, Fault
  <2>3. QED
    BY <2>1, <2>2
<1>7. PerceptionTypeOK'
  BY <1>1, <1>2, <1>4, <1>5, <1>6 DEF PerceptionTypeOK
<1>8. JournalInv' /\ Grows
  BY <1>1, <1>2, JournalStays
<1>9. ResultInv' /\ LateInv'
  BY <1>1, <1>2, ResultsStay, LateStay
<1>10. AdmittedIsJournalled'
  BY <1>1, <1>2 DEF AdmittedIsJournalled
<1>11. QED
  BY <1>4, <1>5, <1>7, <1>8, <1>9, <1>10 DEF RunInv

(* The bridge gives up on the post of a journalled event. *)
LEMMA PostTimesOutKeeps ==
  ASSUME RunInv, RowInv, NEW t \in Threads, PostTimesOut(t)
  PROVE  RunInv' /\ RowInv' /\ Grows
<1>1. /\ PerceptionTypeOK /\ ThreadInv /\ JournalInv /\ ResultInv /\ LateInv
      /\ AdmittedIsJournalled
  BY DEF RunInv
<1>2. /\ instance' = instance /\ made' = made /\ direct' = direct
      /\ journal' = journal /\ logged' = logged /\ world' = world
      /\ gate' = gate /\ results' = results /\ rig' = rig /\ row' = row
      /\ backoff' = TRUE /\ late' = late \cup {Ev(t)} /\ faults' = faults + 1
      /\ Goto(t, "done") /\ thread[t].at = "post"
  BY DEF PostTimesOut, Fault, At, local
<1>3. Busy(t) /\ ~Unlogged(t)
  BY <1>2 DEF Busy, Unlogged
<1>4. Ev(t) \in Event /\ Ev(t).id \in logged
  BY <1>1, <1>3, BusyHasEvent DEF ThreadInv
<1>5. thread' \in [Threads -> ThreadState] /\ ThreadInv'
  BY <1>1, <1>2, <1>3, GotoIs, ThreadGoes
<1>6. PerceptionTypeOK'
  <2>1. faults' \in Nat /\ late' \subseteq Event
    BY <1>1, <1>2, <1>4 DEF PerceptionTypeOK
  <2>2. QED
    BY <1>1, <1>2, <1>5, <2>1 DEF PerceptionTypeOK
<1>7. JournalInv' /\ Grows
  BY <1>1, <1>2, JournalStays
<1>8. ResultInv' /\ LateInv'
  BY <1>1, <1>2, <1>4, ResultsStay DEF LateInv
<1>9. AdmittedIsJournalled' /\ RowInv'
  BY <1>1, <1>2 DEF AdmittedIsJournalled, RowInv
<1>10. QED
  BY <1>5, <1>6, <1>7, <1>8, <1>9 DEF RunInv

(* What is said of the row, and the end of the back-off. *)
LEMMA RowStepsKeep ==
  ASSUME RunInv, RowInv,
         \/ \E on \in BOOLEAN : CaptureReports(on)
         \/ ForgetSource \/ BackoffEnds
  PROVE  RunInv' /\ RowInv' /\ Grows
<1>1. /\ PerceptionTypeOK /\ ThreadInv /\ JournalInv /\ ResultInv /\ LateInv
      /\ AdmittedIsJournalled
  BY DEF RunInv
<1>2. /\ instance' = instance /\ made' = made /\ direct' = direct
      /\ journal' = journal /\ logged' = logged /\ world' = world
      /\ gate' = gate /\ results' = results /\ rig' = rig /\ late' = late
      /\ thread' = thread
  BY DEF CaptureReports, ForgetSource, BackoffEnds, local, bridge
<1>2a. faults' \in Nat
  BY <1>1 DEF PerceptionTypeOK, CaptureReports, ForgetSource, BackoffEnds,
              Fault
<1>3. backoff' \in BOOLEAN
  BY <1>1 DEF PerceptionTypeOK, CaptureReports, ForgetSource, BackoffEnds,
              bridge
<1>4. row' \in Row \cup {None} /\ RowInv'
  <2>1. row \in Row \cup {None}
    BY <1>1 DEF PerceptionTypeOK
  <2>2. ASSUME NEW on \in BOOLEAN, CaptureReports(on)
        PROVE  row' \in Row \cup {None} /\ RowInv'
    <3>1. CASE row = None
      BY <2>2, <3>1 DEF CaptureReports, Row, RowInv
    <3>2. CASE row # None
      <4>1. row' = [row EXCEPT !.active = on] /\ row \in Row
        BY <2>1, <2>2, <3>2 DEF CaptureReports
      <4>2. /\ row' \in Row /\ row'.seq = row.seq
            /\ row'.accepted = row.accepted
        BY <4>1 DEF Row
      <4>3. QED
        BY <3>2, <4>2 DEF RowInv
    <3>3. QED
      BY <3>1, <3>2
  <2>3. CASE ForgetSource
    BY <2>3 DEF ForgetSource, RowInv
  <2>4. CASE BackoffEnds
    BY <2>1, <2>4 DEF BackoffEnds, RowInv
  <2>5. QED
    BY <2>2, <2>3, <2>4
<1>5. PerceptionTypeOK'
  BY <1>1, <1>2, <1>2a, <1>3, <1>4 DEF PerceptionTypeOK
<1>6. ThreadInv'
  BY <1>1, <1>2 DEF ThreadInv, Busy, Unlogged, Ev, At
<1>7. JournalInv' /\ Grows
  BY <1>1, <1>2, JournalStays
<1>8. ResultInv' /\ LateInv' /\ AdmittedIsJournalled'
  BY <1>1, <1>2 DEF ResultInv, LateInv, AdmittedIsJournalled
<1>9. QED
  BY <1>4, <1>5, <1>6, <1>7, <1>8 DEF RunInv

(* An event is journalled, for the first time. *)
LEMMA AppendEventKeeps ==
  ASSUME RunInv, RowInv, NEW t \in Threads, AppendEvent(t)
  PROVE  RunInv' /\ RowInv' /\ Grows
<1>1. /\ PerceptionTypeOK /\ ThreadInv /\ JournalInv /\ ResultInv /\ LateInv
      /\ AdmittedIsJournalled
  BY DEF RunInv
<1> DEFINE ev == Ev(t)
<1>2. /\ instance' = instance /\ made' = made /\ direct' = direct
      /\ world' = world /\ row' = row /\ backoff' = backoff /\ faults' = faults
      /\ gate' = gate /\ results' = results /\ rig' = rig /\ late' = late
      /\ journal' = Journalled(ev) /\ logged' = logged \cup {ev.id}
      /\ Goto(t, "gate") /\ thread[t].at = "append"
  BY DEF AppendEvent, bridge, At
<1>3. Busy(t) /\ Unlogged(t)
  BY <1>2 DEF Busy, Unlogged
<1>4. ev \in Event
  BY <1>1, <1>3, BusyHasEvent
<1>5. ev.id \in 1 .. made /\ ev.by = instance /\ ev.id \notin logged
  BY <1>1, <1>3 DEF ThreadInv
<1>6. /\ journal' \in [entries : Seq(Entry), next : Nat]
      /\ Len(journal'.entries) <= Capacity
      /\ journal'.next = journal.next + 1
      /\ \A e \in Entries' : \/ e \in Entries
                             \/ e = [cursor |-> journal.next, ev |-> ev]
  <2> HIDE DEF ev
  <2>1. /\ Journalled(ev) \in [entries : Seq(Entry), next : Nat]
        /\ Len(Journalled(ev).entries) <= Capacity
        /\ Journalled(ev).next = journal.next + 1
        /\ \A i \in 1 .. Len(Journalled(ev).entries) :
             \/ Journalled(ev).entries[i] \in Entries
             \/ Journalled(ev).entries[i] = [cursor |-> journal.next, ev |-> ev]
    BY <1>1, <1>4, JournalledIs
  <2>2. Entries' = {Journalled(ev).entries[i] :
                      i \in 1 .. Len(Journalled(ev).entries)}
    BY <1>2 DEF Entries
  <2>3. QED
    BY <1>2, <2>1, <2>2
<1>7. /\ thread' \in [Threads -> ThreadState] /\ thread'[t].at = "gate"
      /\ \A u \in Threads :
           /\ thread'[u].ev = thread[u].ev
           /\ thread'[u].answer = thread[u].answer
           /\ u # t => thread'[u] = thread[u]
  BY <1>1, <1>2, GotoIs
<1>8. PerceptionTypeOK'
  BY <1>1, <1>2, <1>5, <1>6, <1>7 DEF PerceptionTypeOK
<1>9. ThreadInv'
  <2>1. \A u \in Threads : u # t /\ Busy(u) => Ev(u).id # ev.id
    BY <1>1, <1>3 DEF ThreadInv
  <2>2. QED
    BY <1>1, <1>2, <1>3, <1>7, <2>1 DEF ThreadInv, Busy, Unlogged, Ev, At
<1>10. JournalInv' /\ Grows
  <2>1. journal.next \in Nat /\ instance \in Nat
    BY <1>1 DEF PerceptionTypeOK
  <2>2. \A e \in Entries : e.cursor < journal.next /\ e.cursor \in Nat
    BY <1>1, EntryTypes DEF JournalInv, Entry
  <2>3. ASSUME NEW e \in Entries'
        PROVE  /\ e.cursor < journal'.next /\ e.ev.by = instance'
               /\ e.ev.id \in logged'
               /\ e \in Entries \/ e.ev.id \notin logged
    <3>1. CASE e \in Entries
      BY <1>1, <1>2, <1>6, <2>1, <2>2, <3>1 DEF JournalInv
    <3>2. CASE e = [cursor |-> journal.next, ev |-> ev]
      <4>1. e.cursor = journal.next /\ e.ev = ev
        BY <3>2
      <4>2. QED
        BY <1>2, <1>5, <1>6, <2>1, <4>1
    <3>3. QED
      BY <1>6, <3>1, <3>2
  <2>4. QED
    BY <1>2, <2>1, <2>3 DEF JournalInv, Grows
<1>11. ResultInv' /\ LateInv'
  BY <1>1, <1>2, ResultsStay, LateStay
<1>12. AdmittedIsJournalled' /\ RowInv'
  BY <1>1, <1>2 DEF AdmittedIsJournalled, RowInv
<1>13. QED
  BY <1>8, <1>9, <1>10, <1>11, <1>12 DEF RunInv

(* ModelRig admits an event at most once, and only ever adds to what it    *)
(* admitted.                                                               *)
LEMMA AdmittedIs ==
  ASSUME PerceptionTypeOK, NEW ev \in Event
  PROVE  /\ Admitted(ev) \in Rig
         /\ rig.fresh \subseteq Admitted(ev).fresh
         /\ Admitted(ev).fresh \subseteq rig.fresh \cup {ev.id}
         /\ ~Known(ev) => ev.id \in Admitted(ev).fresh
<1>1. /\ rig \in Rig /\ rig.scene \in [Sources -> Scenes \cup {None}]
      /\ rig.fresh \subseteq Nat
  BY DEF PerceptionTypeOK, Rig
<1>2. ev.src \in Sources /\ ev.scene \in Scenes /\ ev.id \in Nat
  BY DEF Event
<1>3. CASE Known(ev)
  BY <1>1, <1>3 DEF Admitted
<1>4. CASE ~Known(ev)
  <2> DEFINE new == [fresh |-> rig.fresh \cup {ev.id},
                     scene |-> [rig.scene EXCEPT ![ev.src] = ev.scene]]
  <2>1. Admitted(ev) = new
    BY <1>4 DEF Admitted
  <2>2. new \in Rig /\ new.fresh = rig.fresh \cup {ev.id}
    BY <1>1, <1>2 DEF Rig
  <2> HIDE DEF new
  <2>3. QED
    BY <2>1, <2>2
<1>5. QED
  BY <1>3, <1>4

(* A post arrives in time: its event has been journalled. *)
LEMMA PostArrivesKeeps ==
  ASSUME RunInv, RowInv, NEW t \in Threads, PostArrives(t)
  PROVE  RunInv' /\ RowInv' /\ Grows
<1>1. /\ PerceptionTypeOK /\ ThreadInv /\ JournalInv /\ ResultInv /\ LateInv
      /\ AdmittedIsJournalled
  BY DEF RunInv
<1> DEFINE ev == Ev(t)
           answer == IF Known(ev) THEN "replayed" ELSE "published"
           me == [thread[t] EXCEPT !.at = "answer", !.answer = answer]
<1>2. /\ instance' = instance /\ made' = made /\ direct' = direct
      /\ world' = world /\ row' = row /\ backoff' = backoff /\ faults' = faults
      /\ gate' = gate /\ results' = results /\ late' = late
      /\ journal' = journal /\ logged' = logged /\ thread[t].at = "post"
      /\ rig' = Admitted(ev)
  BY DEF PostArrives, At, local
<1>3. Busy(t) /\ ~Unlogged(t)
  BY <1>2 DEF Busy, Unlogged
<1>4. ev \in Event /\ ev.id \in logged
  BY <1>1, <1>3, BusyHasEvent DEF ThreadInv
<1>5. thread' = [thread EXCEPT ![t] = me]
  BY DEF PostArrives
<1>6. /\ me \in ThreadState /\ me.at = "answer" /\ me.ev = ev
      /\ me.answer = answer
  BY <1>1, ThreadTypes DEF ThreadState, Answer, Ev
<1>7. answer \in Answer /\ (answer = "published" => ~Known(ev))
  BY DEF Answer
<1>8. Ev(t) = ev
  OBVIOUS
<1> HIDE DEF ev, me, answer
<1>9. /\ rig' \in Rig /\ rig.fresh \subseteq rig'.fresh
      /\ rig'.fresh \subseteq rig.fresh \cup {ev.id}
      /\ answer = "published" => ev.id \in rig'.fresh
  BY <1>1, <1>2, <1>4, <1>7, AdmittedIs
<1>10. /\ thread' \in [Threads -> ThreadState] /\ thread'[t] = me
       /\ \A u \in Threads : u # t => thread'[u] = thread[u]
  BY <1>1, <1>5, <1>6 DEF PerceptionTypeOK
<1>11. PerceptionTypeOK'
  BY <1>1, <1>2, <1>9, <1>10 DEF PerceptionTypeOK
<1>12. ThreadInv'
  BY <1>1, <1>2, <1>3, <1>4, <1>6, <1>7, <1>8, <1>9, <1>10
  DEF ThreadInv, Busy, Unlogged, Ev, At
<1>13. JournalInv' /\ Grows
  BY <1>1, <1>2, <1>9, JournalStays
<1>14. ResultInv' /\ LateInv'
  BY <1>1, <1>2, <1>9, ResultsStay, LateStay
<1>15. AdmittedIsJournalled' /\ RowInv'
  BY <1>1, <1>2, <1>4, <1>9 DEF AdmittedIsJournalled, RowInv
<1>16. QED
  BY <1>11, <1>12, <1>13, <1>14, <1>15 DEF RunInv

(* A post arrives late, perhaps in another run of the service: its event   *)
(* had been journalled before it was posted.  Or ModelRig forgets its      *)
(* scenes, but not what it admitted.                                       *)
LEMMA ModelRigStepsKeep ==
  ASSUME RunInv, RowInv, LateArrives \/ ModelRigForgets
  PROVE  RunInv' /\ RowInv' /\ Grows
<1>1. /\ PerceptionTypeOK /\ ThreadInv /\ JournalInv /\ ResultInv /\ LateInv
      /\ AdmittedIsJournalled
  BY DEF RunInv
<1>2. /\ instance' = instance /\ made' = made /\ direct' = direct
      /\ world' = world /\ row' = row /\ backoff' = backoff
      /\ gate' = gate /\ results' = results /\ thread' = thread
      /\ journal' = journal /\ logged' = logged /\ late' \subseteq late
  BY DEF LateArrives, ModelRigForgets, local
<1>3. faults' \in Nat
  <2>1. faults \in Nat
    BY <1>1 DEF PerceptionTypeOK
  <2>2. faults' = faults \/ faults' = faults + 1
    BY DEF LateArrives, ModelRigForgets, Fault
  <2>3. QED
    BY <2>1, <2>2
<1>4. /\ rig' \in Rig /\ rig.fresh \subseteq rig'.fresh
      /\ rig'.fresh \subseteq rig.fresh \cup logged
  <2>1. CASE LateArrives
    <3>1. PICK ev \in late : rig' = Admitted(ev)
      BY <2>1 DEF LateArrives
    <3>2. ev \in Event /\ ev.id \in logged
      BY <1>1 DEF PerceptionTypeOK, LateInv
    <3>3. QED
      BY <1>1, <3>1, <3>2, AdmittedIs
  <2>2. CASE ModelRigForgets
    <3>1. rig' = [rig EXCEPT !.scene = [s \in Sources |-> None]] /\ rig \in Rig
      BY <1>1, <2>2 DEF ModelRigForgets, PerceptionTypeOK
    <3>2. rig' \in Rig /\ rig'.fresh = rig.fresh
      BY <3>1 DEF Rig
    <3>3. QED
      BY <3>2
  <2>3. QED
    BY <2>1, <2>2
<1>5. PerceptionTypeOK'
  BY <1>1, <1>2, <1>3, <1>4 DEF PerceptionTypeOK
<1>6. ThreadInv'
  BY <1>1, <1>2, <1>4 DEF ThreadInv, Busy, Unlogged, Ev, At
<1>7. JournalInv' /\ Grows
  BY <1>1, <1>2, <1>4, JournalStays
<1>8. ResultInv' /\ LateInv'
  BY <1>1, <1>2, <1>4, ResultsStay DEF LateInv
<1>9. AdmittedIsJournalled' /\ RowInv'
  BY <1>1, <1>2, <1>4 DEF AdmittedIsJournalled, RowInv
<1>10. QED
  BY <1>5, <1>6, <1>7, <1>8, <1>9 DEF RunInv

(* A receipt commits its fingerprint. *)
LEMMA CommitKeeps ==
  ASSUME RunInv, RowInv, NEW t \in Threads, Commit(t)
  PROVE  RunInv' /\ RowInv' /\ Grows
<1>1. /\ PerceptionTypeOK /\ ThreadInv /\ JournalInv /\ ResultInv /\ LateInv
      /\ AdmittedIsJournalled
  BY DEF RunInv
<1>2. /\ instance' = instance /\ made' = made /\ direct' = direct
      /\ world' = world /\ row' = row /\ rig' = rig /\ faults' = faults
      /\ backoff' = backoff /\ late' = late
      /\ results' = results /\ journal' = journal /\ logged' = logged
      /\ gate' = [gate EXCEPT ![Ev(t).src] = Ev(t).scene]
      /\ Goto(t, "record") /\ thread[t].at = "answer"
  BY DEF Commit, At, local
<1>3. Busy(t) /\ ~Unlogged(t) /\ At(t, "answer")
  BY <1>2 DEF Busy, Unlogged, At
<1>4. Ev(t).src \in Sources /\ Ev(t).scene \in Scenes
  <2>1. Ev(t) \in Event
    BY <1>1, <1>3, BusyHasEvent
  <2>2. QED
    BY <2>1 DEF Event
<1>5. thread' \in [Threads -> ThreadState] /\ ThreadInv'
  BY <1>1, <1>2, <1>3, GotoIs, ThreadGoes
<1>6. gate' \in [Sources -> Scenes \cup {None}]
  BY <1>1, <1>2, <1>4 DEF PerceptionTypeOK
<1>7. PerceptionTypeOK'
  BY <1>1, <1>2, <1>5, <1>6 DEF PerceptionTypeOK
<1>8. JournalInv' /\ Grows
  BY <1>1, <1>2, JournalStays
<1>9. ResultInv' /\ LateInv'
  BY <1>1, <1>2, ResultsStay, LateStay
<1>10. AdmittedIsJournalled' /\ RowInv'
  BY <1>1, <1>2 DEF AdmittedIsJournalled, RowInv
<1>11. QED
  BY <1>5, <1>7, <1>8, <1>9, <1>10 DEF RunInv

(* A receipt is recorded; a published one is of an admitted event. *)
LEMMA RecordKeeps ==
  ASSUME RunInv, RowInv, NEW t \in Threads, Record(t)
  PROVE  RunInv' /\ RowInv' /\ Grows
<1>1. /\ PerceptionTypeOK /\ ThreadInv /\ JournalInv /\ ResultInv /\ LateInv
      /\ AdmittedIsJournalled
  BY DEF RunInv
<1> DEFINE receipt == [ev |-> Ev(t), status |-> thread[t].answer]
           all == Append(results, receipt)
<1>2. /\ instance' = instance /\ made' = made /\ direct' = direct
      /\ world' = world /\ row' = row /\ rig' = rig /\ faults' = faults
      /\ journal' = journal /\ logged' = logged /\ backoff' = FALSE
      /\ gate' = gate /\ late' = late /\ Goto(t, "done")
      /\ results' = IF Len(all) > Receipts THEN Tail(all) ELSE all
      /\ thread[t].at = "record"
  BY DEF Record, At, local
<1>3. Busy(t) /\ ~Unlogged(t)
  BY <1>2 DEF Busy, Unlogged
<1>4. receipt \in Receipt /\ (receipt.status = "published" => receipt.ev.id \in rig.fresh)
  <2>1. Ev(t) \in Event /\ thread[t].answer \in Answer
        /\ (thread[t].answer = "published" => Ev(t).id \in rig.fresh)
    BY <1>1, <1>2, <1>3, BusyHasEvent DEF ThreadInv, At
  <2>2. QED
    BY <2>1 DEF Receipt
<1> HIDE DEF receipt
<1>5. /\ results' \in Seq(Receipt) /\ Len(results') <= Receipts
      /\ \A i \in 1 .. Len(results') :
           \/ results'[i] = receipt
           \/ \E j \in 1 .. Len(results) : results'[i] = results[j]
  BY <1>1, <1>2, <1>4, RecordedIs
<1>6. thread' \in [Threads -> ThreadState]
  BY <1>1, <1>2, GotoIs
<1>7. ThreadInv'
  BY <1>1, <1>2, <1>3, ThreadGoes
<1> HIDE DEF all
<1>8. PerceptionTypeOK'
  BY <1>1, <1>2, <1>5, <1>6 DEF PerceptionTypeOK
<1>9. JournalInv' /\ Grows
  BY <1>1, <1>2, JournalStays
<1>10. ResultInv'
  BY <1>1, <1>2, <1>4, <1>5 DEF ResultInv
<1>11. LateInv'
  BY <1>1, <1>2, LateStay
<1>12. AdmittedIsJournalled' /\ RowInv'
  BY <1>1, <1>2 DEF AdmittedIsJournalled, RowInv
<1>13. QED
  BY <1>7, <1>8, <1>9, <1>10, <1>11, <1>12 DEF RunInv

(* A restart leaves nothing but ModelRig and what is on its way there. *)
LEMMA RestartKeeps ==
  ASSUME RunInv, RowInv, Restart
  PROVE  RunInv' /\ RowInv' /\ Grows
<1>1. PerceptionTypeOK /\ AdmittedIsJournalled /\ LateInv
  BY DEF RunInv
<1>2. Idle \in ThreadState /\ Idle.at = "idle" /\ Idle.ev = None
  BY DEF Idle, ThreadState
<1>3. /\ thread' \in [Threads -> ThreadState]
      /\ \A t \in Threads : thread'[t] = Idle
  BY <1>2 DEF Restart
<1>4. /\ journal' \in [entries : Seq(Entry), next : Nat]
      /\ Len(journal'.entries) = 0
  BY DEF Restart, FreshJournal
<1>5. /\ instance \in Nat /\ instance' = instance + 1 /\ made' = made
      /\ direct' = direct /\ rig' = rig /\ logged' = logged /\ late' = late
      /\ faults \in Nat /\ faults' = faults + 1
      /\ world' = None /\ row' = None /\ backoff' = FALSE
      /\ gate' \in [Sources -> Scenes \cup {None}] /\ results' = <<>>
  BY <1>1 DEF Restart, Fault, PerceptionTypeOK
<1>6. Capacity \in Nat /\ Receipts \in Nat
  BY PerceptionAssumption
<1>7. results' \in Seq(Receipt) /\ Len(results') = 0
  BY <1>5
<1>8. PerceptionTypeOK'
  <2>1. Len(journal'.entries) <= Capacity /\ Len(results') <= Receipts
    BY <1>4, <1>6, <1>7
  <2>2. {instance', made', direct', faults'} \subseteq Nat
    BY <1>1, <1>5 DEF PerceptionTypeOK
  <2>3. rig' \in Rig /\ logged' \subseteq 1 .. made' /\ late' \subseteq Event
    BY <1>1, <1>5 DEF PerceptionTypeOK
  <2>4. QED
    BY <1>3, <1>4, <1>5, <1>7, <2>1, <2>2, <2>3 DEF PerceptionTypeOK
<1>9. ThreadInv'
  BY <1>2, <1>3 DEF ThreadInv, Busy, Unlogged, Ev, At
<1>10. JournalInv' /\ ResultInv'
  BY <1>4, <1>7 DEF JournalInv, ResultInv, Entries
<1>11. LateInv'
  BY <1>1, <1>5, LateStay
<1>12. Grows
  BY <1>5 DEF Grows
<1>13. AdmittedIsJournalled' /\ RowInv'
  BY <1>1, <1>5 DEF AdmittedIsJournalled, RowInv
<1>14. QED
  BY <1>8, <1>9, <1>10, <1>11, <1>12, <1>13 DEF RunInv

(* Every step of the runtime keeps its invariant. *)
LEMMA PerceptionKeeps ==
  ASSUME RunInv, RowInv, PerceptionNext
  PROVE  RunInv' /\ RowInv' /\ Grows
<1>1. made \in Nat /\ direct \in Nat /\ instance \in Nat
  BY DEF RunInv, PerceptionTypeOK
<1>2. ASSUME NEW scene \in Scenes, IngressFrame(scene)
      PROVE  RunInv' /\ RowInv' /\ Grows
  <2> DEFINE ev == [id |-> made + 1, by |-> instance, src |-> Cam,
                    seq |-> made + 1, scene |-> scene]
  <2>1. ev \in Event /\ ev.id = made + 1 /\ ev.by = instance
    BY <1>1, PerceptionAssumption DEF Event
  <2>2. Perceive("ingress", ev) /\ direct' \in Nat /\ "ingress" \in Threads
    BY <1>1, <1>2 DEF IngressFrame, Threads
  <2> HIDE DEF ev
  <2>3. QED
    BY <2>1, <2>2, PerceiveKeeps
<1>3. ASSUME NEW t \in DirectThreads, NEW src \in DirectSources,
             NEW seq \in 1 .. made + 1, NEW scene \in Scenes,
             DirectFrame(t, src, seq, scene)
      PROVE  RunInv' /\ RowInv' /\ Grows
  <2> DEFINE ev == [id |-> made + 1, by |-> instance, src |-> src,
                    seq |-> seq, scene |-> scene]
  <2>1. ev \in Event /\ ev.id = made + 1 /\ ev.by = instance
    BY <1>1, PerceptionAssumption DEF Event
  <2>2. Perceive(t, ev) /\ direct' \in Nat /\ t \in Threads
    BY <1>1, <1>3 DEF DirectFrame, Threads
  <2> HIDE DEF ev
  <2>3. QED
    BY <2>1, <2>2, PerceiveKeeps
<1>4. ASSUME NEW t \in Threads,
             \/ Apply(t) \/ Refuse(t) \/ AppendEvent(t) \/ Finish(t)
             \/ CheckGate(t) \/ PostFails(t) \/ PostTimesOut(t)
             \/ PostArrives(t) \/ AnswerLost(t) \/ Commit(t) \/ Record(t)
      PROVE  RunInv' /\ RowInv' /\ Grows
  BY <1>4, QuietStepsKeep, PostTimesOutKeeps, AppendEventKeeps,
     PostArrivesKeeps, CommitKeeps, RecordKeeps
<1>5. CASE \/ \E on \in BOOLEAN : CaptureReports(on)
           \/ ForgetSource \/ BackoffEnds
  BY <1>5, RowStepsKeep
<1>6. CASE LateArrives \/ ModelRigForgets \/ Restart
  BY <1>6, ModelRigStepsKeep, RestartKeeps
<1>7. QED
  BY <1>2, <1>3, <1>4, <1>5, <1>6 DEF PerceptionNext

-----------------------------------------------------------------------------
(* The probe                                                               *)

(* What the probe has noted stays true while the service goes on, also     *)
(* when it restarts: then it is another run, and the number tells.         *)
LEMMA ProbeStays ==
  ASSUME QInv, RunInv', RowInv', Grows, q' = q, report' = report
  PROVE  QInv'
<1>1. TypeOK /\ ProbeInv /\ PassIsFreshEvidence
  BY DEF QInv
<1>2. /\ logged \subseteq logged' /\ rig.fresh \subseteq rig'.fresh
      /\ instance \in Nat /\ instance' \in Nat /\ instance <= instance'
  BY <1>1 DEF Grows, TypeOK, PerceptionTypeOK
<1>3. TypeOK'
  <2>1. PerceptionTypeOK' /\ report' \in {"none", "fail", "pass"}
    BY <1>1 DEF RunInv, TypeOK
  <2>2. 0 .. instance \subseteq 0 .. instance'
    BY <1>2
  <2>3. q \in ProbeState'
    BY <1>1, <1>2, <2>2 DEF TypeOK, ProbeState
  <2>4. QED
    BY <2>1, <2>3 DEF TypeOK
<1>4. /\ q.instance \in 0 .. instance /\ q.before \subseteq logged
  BY <1>1 DEF TypeOK, ProbeState
<1>5. SameRun' => SameRun /\ instance' = instance
  BY <1>2, <1>4 DEF SameRun
<1>6. ProbeInv'
  <2>1. ASSUME NEW ev, Evidence(ev, q.row.seq, logged)
        PROVE  Evidence(ev, q.row.seq, logged')
    BY <1>2, <2>1 DEF Evidence
  <2>2. Late /\ SameRun' =>
          \A e \in Entries' : e.cursor > q.cursor => e.ev.id \notin q.before
    BY <1>1, <1>4, <1>5 DEF ProbeInv, Grows
  <2>3. \A e \in q.todo : /\ Evidence(e.ev, q.row.seq, logged')
                          /\ e.ev.by \in q.instance .. instance'
                          /\ SameRun' => e.ev.id \notin q.before
    <3>1. ASSUME NEW e \in q.todo
          PROVE  e.ev.by \in q.instance .. instance'
      <4>1. e.ev.by \in q.instance .. instance
        BY <1>1 DEF ProbeInv
      <4>2. QED
        BY <1>2, <1>4, <4>1
    <3>2. QED
      BY <1>1, <1>5, <2>1, <3>1 DEF ProbeInv
  <2>4. q.candidate # None => Evidence(q.candidate, q.row.seq, logged')
    BY <1>1, <2>1 DEF ProbeInv
  <2>5. Bounded => q.candidate # None /\ q.candidate.id \in rig'.fresh
    BY <1>1, <1>2 DEF ProbeInv
  <2>6. QED
    BY <1>1, <2>2, <2>3, <2>4, <2>5 DEF ProbeInv, Late, Bounded
<1>7. PassIsFreshEvidence'
  BY <1>1, <1>2 DEF PassIsFreshEvidence
<1>8. QED
  BY <1>3, <1>6, <1>7 DEF QInv

(* The runtime does not move while the probe does. *)
LEMMA RunStays ==
  ASSUME RunInv, RowInv, UNCHANGED perceptionVars
  PROVE  /\ RunInv' /\ RowInv' /\ instance' = instance /\ logged' = logged
         /\ Entries' = Entries /\ rig' = rig
<1>1. /\ instance' = instance /\ made' = made /\ direct' = direct
      /\ thread' = thread /\ world' = world /\ journal' = journal
      /\ row' = row /\ gate' = gate /\ backoff' = backoff
      /\ results' = results /\ rig' = rig /\ late' = late
      /\ logged' = logged /\ faults' = faults
  BY DEF perceptionVars, local, bridge
<1>2. PerceptionTypeOK' /\ ThreadInv' /\ JournalInv' /\ ResultInv'
  BY <1>1 DEF RunInv, PerceptionTypeOK, ThreadInv, JournalInv, ResultInv,
              Entries, Busy, Unlogged, Ev, At
<1>3. LateInv' /\ AdmittedIsJournalled' /\ RowInv'
  BY <1>1 DEF RunInv, LateInv, AdmittedIsJournalled, RowInv
<1>4. QED
  BY <1>1, <1>2, <1>3 DEF RunInv, Entries

(* The probe goes on; it has not reported. *)
LEMMA ProbeGoes ==
  ASSUME QInv, NEW new \in ProbeState, Probe(new), q.at # "over",
         ProbeInv'
  PROVE  QInv'
<1>1. TypeOK /\ RunInv /\ RowInv /\ ProbeInv
  BY DEF QInv
<1>2. /\ q' = new /\ report' = report /\ UNCHANGED perceptionVars
  BY DEF Probe
<1>3. /\ RunInv' /\ RowInv' /\ instance' = instance /\ logged' = logged
  BY <1>1, <1>2, RunStays
<1>4. report = "none"
  BY <1>1 DEF ProbeInv
<1>5. TypeOK'
  BY <1>1, <1>2, <1>3 DEF TypeOK, ProbeState, RunInv
<1>6. PassIsFreshEvidence'
  BY <1>2, <1>4 DEF PassIsFreshEvidence
<1>7. QED
  BY <1>3, <1>5, <1>6 DEF QInv

(* A failed probe promises nothing. *)
LEMMA FailKeeps ==
  ASSUME QInv, Fail
  PROVE  QInv'
<1>1. TypeOK /\ RunInv /\ RowInv
  BY DEF QInv
<1>2. /\ report' = "fail" /\ UNCHANGED perceptionVars
      /\ q' = [at |-> "over", instance |-> 0, row |-> None, cursor |-> 0,
               todo |-> {}, candidate |-> None, before |-> {}]
  BY DEF Fail, Start
<1>3. /\ RunInv' /\ RowInv' /\ instance' = instance /\ logged' = logged
  BY <1>1, <1>2, RunStays
<1>4. q' \in ProbeState
  <2>1. 0 \in 0 .. instance
    BY <1>1 DEF TypeOK, PerceptionTypeOK
  <2>2. QED
    BY <1>2, <2>1 DEF ProbeState, Labels
<1>5. TypeOK'
  BY <1>2, <1>3, <1>4 DEF TypeOK, ProbeState, RunInv
<1>6. ProbeInv' /\ PassIsFreshEvidence'
  BY <1>2 DEF ProbeInv, Late, Bounded, PassIsFreshEvidence
<1>7. QED
  BY <1>3, <1>5, <1>6 DEF QInv

(* What an unfinished step of the probe may rely on: the service and its   *)
(* journal as they are now.                                                *)
LEMMA ProbeSees ==
  ASSUME QInv, NEW new, Probe(new)
  PROVE  /\ q' = new /\ report' = report /\ instance' = instance
         /\ logged' = logged /\ Entries' = Entries /\ rig' = rig
BY RunStays DEF QInv, Probe

(* The notes before the poll begins: the instance, a row of a live camera  *)
(* with its last sequence, and the end of the journal, above which there   *)
(* is nothing yet.                                                         *)
LEMMA NotesKeep ==
  ASSUME QInv, NoteHealth \/ NoteStatus \/ NoteCursor
  PROVE  QInv'
<1>1. TypeOK /\ RunInv /\ RowInv /\ ProbeInv
  BY DEF QInv
<1>2. q \in ProbeState /\ instance \in Nat /\ row \in Row \cup {None}
  BY <1>1 DEF TypeOK, PerceptionTypeOK
<1>3. CASE NoteHealth
  <2> DEFINE new == [q EXCEPT !.at = "status", !.instance = instance]
  <2>1. new \in ProbeState
    <3>1. instance \in 0 .. instance
      BY <1>2
    <3>2. QED
      BY <1>2, <3>1 DEF ProbeState, Labels
  <2>2. Probe(new) /\ q.at = "health"
    BY <1>3 DEF NoteHealth, Q
  <2>3. new.at = "status" /\ new.todo = q.todo /\ new.candidate = q.candidate
    BY <1>2 DEF ProbeState
  <2> HIDE DEF new
  <2>4. q' = new /\ report' = report
    BY <2>2, ProbeSees
  <2>5. ProbeInv'
    BY <1>1, <2>2, <2>3, <2>4 DEF ProbeInv, Late, Bounded
  <2>6. QED
    BY <2>1, <2>2, <2>5, ProbeGoes
<1>4. CASE NoteStatus /\ ~Online(row)
  BY <1>4, FailKeeps DEF NoteStatus
<1>5. CASE NoteStatus /\ Online(row)
  <2> DEFINE new == [q EXCEPT !.at = "baseline", !.row = row]
  <2>1. row \in Row /\ row # None /\ row.accepted \in Nat /\ row.seq \in Nat
    BY <1>1, <1>2, <1>5 DEF Online, RowInv, Row
  <2>2. new \in ProbeState
    BY <1>2, <2>1 DEF ProbeState, Labels
  <2>3. Probe(new) /\ q.at = "status"
    BY <1>5 DEF NoteStatus, Q
  <2>4. /\ new.at = "baseline" /\ new.todo = q.todo /\ new.row = row
        /\ new.candidate = q.candidate
    BY <1>2 DEF ProbeState
  <2> HIDE DEF new
  <2>5. q' = new /\ report' = report
    BY <2>3, ProbeSees
  <2>6. ProbeInv'
    BY <1>1, <2>1, <2>3, <2>4, <2>5 DEF ProbeInv, Late, Bounded
  <2>7. QED
    BY <2>2, <2>3, <2>6, ProbeGoes
<1>6. CASE NoteCursor
  <2> DEFINE new == [q EXCEPT !.at = "poll", !.cursor = NewestCursor,
                              !.before = logged]
  <2>1. /\ NewestCursor \in Nat
        /\ \A e \in Entries : ~(e.cursor > NewestCursor)
    <3>1. /\ journal.next \in Nat /\ journal.entries \in Seq(Entry)
          /\ \A e \in Entries : e.cursor < journal.next /\ e.cursor \in Nat
      BY <1>1, EntryTypes DEF RunInv, JournalInv, PerceptionTypeOK, Entry
    <3>2. CASE journal.entries = <<>>
      BY <3>2 DEF NewestCursor, Entries
    <3>3. CASE journal.entries # <<>>
      <4>1. journal.entries[1] \in Entries
        BY <3>1, <3>3 DEF Entries
      <4>2. NewestCursor = journal.next - 1
        BY <3>3 DEF NewestCursor
      <4>3. QED
        BY <3>1, <4>1, <4>2
    <3>4. QED
      BY <3>2, <3>3
  <2>2. new \in ProbeState
    BY <1>2, <2>1 DEF ProbeState, Labels
  <2>3. Probe(new) /\ q.at = "baseline"
    BY <1>6 DEF NoteCursor, Q
  <2>4. /\ new.at = "poll" /\ new.todo = q.todo /\ new.row = q.row
        /\ new.candidate = q.candidate /\ new.cursor = NewestCursor
    BY <1>2 DEF ProbeState
  <2> HIDE DEF new
  <2>5. q' = new /\ report' = report /\ Entries' = Entries
    BY <2>3, ProbeSees
  <2>6. ProbeInv'
    BY <1>1, <2>1, <2>3, <2>4, <2>5 DEF ProbeInv, Late, Bounded
  <2>7. QED
    BY <2>2, <2>3, <2>6, ProbeGoes
<1>7. QED
  BY <1>3, <1>4, <1>5, <1>6

(* What is read from the journal was not there when the probe began, if it *)
(* is the journal of the same run.                                         *)
LEMMA PollKeeps ==
  ASSUME QInv, Poll
  PROVE  QInv'
<1>1. TypeOK /\ RunInv /\ RowInv /\ ProbeInv
  BY DEF QInv
<1>2. CASE Gap
  BY <1>2, FailKeeps DEF Poll
<1>3. CASE ~Gap
  <2> DEFINE cursor == IF Unread = {} THEN q.cursor ELSE NewestCursor
             todo == {e \in Unread : Qualifies(e.ev)}
             new == [q EXCEPT !.at = "entries", !.cursor = cursor,
                              !.todo = todo]
  <2>1. q \in ProbeState /\ q.cursor \in Nat /\ q.instance \in 0 .. instance
    BY <1>1 DEF TypeOK, ProbeState
  <2>2. /\ journal.next \in Nat /\ instance \in Nat
        /\ \A e \in Entries :
             /\ e \in Entry /\ e.cursor \in Nat /\ e.cursor < journal.next
             /\ e.ev.by = instance /\ e.ev.id \in logged
    BY <1>1, EntryTypes DEF RunInv, JournalInv, PerceptionTypeOK, Entry
  <2>3. /\ cursor \in Nat
        /\ \A e \in Entries : e.cursor > cursor => e.cursor > q.cursor
    <3>1. CASE Unread = {}
      BY <2>1, <3>1
    <3>2. ASSUME NEW e \in Entries, e.cursor > q.cursor, Unread # {}
          PROVE  /\ NewestCursor \in Nat
                 /\ \A x \in Entries : ~(x.cursor > NewestCursor)
      <4>1. journal.entries # <<>>
        BY DEF Entries
      <4>2. NewestCursor = journal.next - 1
        BY <4>1 DEF NewestCursor
      <4>3. QED
        BY <2>2, <4>2
    <3>3. CASE Unread # {}
      BY <3>2, <3>3 DEF Unread
    <3>4. QED
      BY <3>1, <3>3
  <2>4. \A e \in todo : /\ e \in Entries /\ e.cursor > q.cursor
                        /\ Qualifies(e.ev)
    BY DEF Unread
  <2>5. Probe(new) /\ q.at = "poll"
    BY <1>3 DEF Poll, Q
  <2> HIDE DEF todo, cursor
  <2>6. new \in ProbeState
    <3>1. todo \subseteq Entry
      BY <2>2, <2>4
    <3>2. QED
      BY <2>1, <2>3, <3>1 DEF ProbeState, Labels
  <2>7. /\ new.at = "entries" /\ new.todo = todo /\ new.row = q.row
        /\ new.candidate = q.candidate /\ new.cursor = cursor
        /\ new.instance = q.instance /\ new.before = q.before
    BY <2>1 DEF ProbeState
  <2> HIDE DEF new
  <2>8. /\ q' = new /\ report' = report /\ Entries' = Entries
        /\ instance' = instance /\ logged' = logged
    BY <2>5, ProbeSees
  <2>9. \A e \in todo : /\ Evidence(e.ev, q.row.seq, logged)
                        /\ e.ev.by \in q.instance .. instance
                        /\ SameRun => e.ev.id \notin q.before
    <3>1. \A e \in todo :
            Evidence(e.ev, q.row.seq, logged) /\ e.ev.by = instance
      BY <2>2, <2>4 DEF Evidence, Qualifies
    <3>2. instance \in q.instance .. instance
      BY <2>1, <2>2
    <3>3. \A e \in todo : SameRun => e.ev.id \notin q.before
      BY <1>1, <2>4, <2>5 DEF ProbeInv, Late
    <3>4. QED
      BY <3>1, <3>2, <3>3
  <2>10. ProbeInv'
    <3>1. Late /\ q.row.accepted \in Nat /\ q.row.seq \in Nat
      BY <1>1, <2>5 DEF ProbeInv, Late
    <3>2. SameRun' => SameRun
      BY <2>7, <2>8 DEF SameRun
    <3>3. q'.row.seq = q.row.seq
      BY <2>7, <2>8
    <3>4. report = "none"
      BY <1>1, <2>5 DEF ProbeInv
    <3>5. SameRun' => \A e \in Entries' : e.cursor > q'.cursor => e.ev.id \notin q'.before
      BY <1>1, <2>3, <2>7, <2>8, <3>1, <3>2 DEF ProbeInv
    <3>6. \A e \in q'.todo : /\ Evidence(e.ev, q'.row.seq, logged')
                             /\ e.ev.by \in q'.instance .. instance'
                             /\ SameRun' => e.ev.id \notin q'.before
      BY <2>7, <2>8, <2>9, <3>2, <3>3
    <3>7. q'.candidate # None => /\ Evidence(q'.candidate, q'.row.seq, logged')
                                 /\ q'.candidate.by = q'.instance
                                 /\ q'.candidate.id \notin q'.before
      BY <1>1, <2>7, <2>8, <3>3 DEF ProbeInv
    <3>8. q'.at = "entries" /\ q'.row = q.row /\ report' = "none"
      BY <2>7, <2>8, <3>4
    <3>9. QED
      BY <3>1, <3>5, <3>6, <3>7, <3>8 DEF ProbeInv, Late, Bounded
  <2>11. QED
    BY <2>5, <2>6, <2>10, ProbeGoes
<1>4. QED
  BY <1>2, <1>3

(* A step after the notes keeps them; it may take a new candidate that is  *)
(* evidence, and looks at the status only for one that ModelRig admitted.  *)
LEMMA LateGoes ==
  ASSUME QInv, Late, NEW new \in ProbeState, Probe(new),
         new.at \in {"poll", "entries", "finalStatus", "lastStatus",
                     "finalHealth", "lastHealth"},
         new.instance = q.instance, new.cursor = q.cursor,
         new.before = q.before, new.todo \subseteq q.todo,
         new.row.seq = q.row.seq, new.row.accepted = q.row.accepted,
         \/ new.candidate = q.candidate
         \/ /\ Evidence(new.candidate, q.row.seq, logged)
            /\ new.candidate.by = q.instance
            /\ new.candidate.id \notin q.before,
         new.at \notin {"poll", "entries"} =>
           new.candidate # None /\ new.candidate.id \in rig.fresh,
         new.at \in {"finalHealth", "lastHealth"} =>
           new.row.final \in Row \cup {None}
  PROVE  QInv'
<1>1. ProbeInv
  BY DEF QInv
<1>2. /\ q' = new /\ report' = report /\ instance' = instance
      /\ logged' = logged /\ Entries' = Entries /\ rig' = rig
  BY ProbeSees
<1>3. /\ report = "none" /\ q.row.accepted \in Nat /\ q.row.seq \in Nat
      /\ q.at # "over"
  BY <1>1 DEF ProbeInv, Late
<1>4. SameRun' <=> SameRun
  BY <1>2 DEF SameRun
<1>5. SameRun' => \A e \in Entries' : e.cursor > q'.cursor => e.ev.id \notin q'.before
  BY <1>1, <1>2, <1>4 DEF ProbeInv
<1>6. \A e \in q'.todo : /\ Evidence(e.ev, q'.row.seq, logged')
                         /\ e.ev.by \in q'.instance .. instance'
                         /\ SameRun' => e.ev.id \notin q'.before
  BY <1>1, <1>2, <1>4 DEF ProbeInv
<1>7. q'.candidate # None => /\ Evidence(q'.candidate, q'.row.seq, logged')
                             /\ q'.candidate.by = q'.instance
                             /\ q'.candidate.id \notin q'.before
  BY <1>1, <1>2 DEF ProbeInv
<1>8. Bounded' => q'.candidate # None /\ q'.candidate.id \in rig'.fresh
  BY <1>2 DEF Bounded
<1>9. ProbeInv'
  BY <1>2, <1>3, <1>5, <1>6, <1>7, <1>8 DEF ProbeInv
<1>10. QED
  BY <1>3, <1>9, ProbeGoes

(* A retained receipt of a fresh admission is of an admitted event. *)
LEMMA BoundIsFresh ==
  ASSUME RunInv, NEW ev, Bound(ev)
  PROVE  ev.id \in rig.fresh
BY DEF RunInv, ResultInv, Bound

(* An entry that was read is a candidate while the run is the same. *)
LEMMA CheckEntryKeeps ==
  ASSUME QInv, CheckEntry
  PROVE  QInv'
<1>1. TypeOK /\ RunInv /\ ProbeInv
  BY DEF QInv
<1>2. PICK entry \in q.todo :
        /\ q.at = "entries"
        /\ IF instance # q.instance THEN Fail
           ELSE Probe([q EXCEPT
                  !.candidate = entry.ev,
                  !.todo = @ \ {entry},
                  !.at = IF Bound(entry.ev) THEN "finalStatus" ELSE @])
  BY DEF CheckEntry, Q
<1>3. CASE instance # q.instance
  BY <1>2, <1>3, FailKeeps
<1>4. CASE instance = q.instance
  <2> DEFINE at == IF Bound(entry.ev) THEN "finalStatus" ELSE "entries"
             new == [q EXCEPT !.candidate = entry.ev, !.todo = @ \ {entry},
                              !.at = at]
  <2>1. q \in ProbeState /\ q.instance \in Nat /\ entry.ev \in Event
    BY <1>1, <1>4 DEF TypeOK, PerceptionTypeOK, ProbeState, Entry
  <2>2. Probe(new)
    BY <1>2, <1>4
  <2>3. /\ at \in {"finalStatus", "entries"}
        /\ at # "entries" => entry.ev.id \in rig.fresh
    BY <1>1, BoundIsFresh
  <2> HIDE DEF at
  <2>4. new \in ProbeState
    BY <2>1, <2>3 DEF ProbeState, Labels
  <2>5. /\ new.at = at /\ new.todo \subseteq q.todo /\ new.row = q.row
        /\ new.candidate = entry.ev /\ new.cursor = q.cursor
        /\ new.instance = q.instance /\ new.before = q.before
    BY <2>1 DEF ProbeState
  <2> HIDE DEF new
  <2>6. Late
    BY <1>2 DEF Late
  <2>7. /\ Evidence(entry.ev, q.row.seq, logged)
        /\ entry.ev.by \in q.instance .. instance
        /\ entry.ev.id \notin q.before
    BY <1>1, <1>4 DEF ProbeInv, SameRun
  <2>8. entry.ev.by = q.instance
    BY <1>4, <2>1, <2>7
  <2>9. entry.ev # None
    BY <2>1, PerceptionAssumption
  <2>10. QED
    BY <2>2, <2>3, <2>4, <2>5, <2>6, <2>7, <2>8, <2>9, LateGoes
<1>5. QED
  BY <1>3, <1>4

(* The last candidate is looked up once more. *)
LEMMA CheckCandidateKeeps ==
  ASSUME QInv, CheckCandidate
  PROVE  QInv'
<1>1. TypeOK /\ RunInv /\ ProbeInv
  BY DEF QInv
<1>2. q \in ProbeState /\ q.at = "entries"
  BY <1>1 DEF TypeOK, CheckCandidate, Q
<1>3. Late
  BY <1>2 DEF Late
<1>4. ASSUME NEW at \in {"poll", "lastStatus"}, Probe([q EXCEPT !.at = at]),
             at = "lastStatus" => q.candidate # None /\ Bound(q.candidate)
      PROVE  QInv'
  <2> DEFINE new == [q EXCEPT !.at = at]
  <2>1. new \in ProbeState
    BY <1>2 DEF ProbeState, Labels
  <2>2. /\ new.at = at /\ new.todo = q.todo /\ new.row = q.row
        /\ new.candidate = q.candidate /\ new.cursor = q.cursor
        /\ new.instance = q.instance /\ new.before = q.before
    BY <1>2 DEF ProbeState
  <2>3. Probe(new)
    BY <1>4
  <2> HIDE DEF new
  <2>4. at = "lastStatus" => q.candidate.id \in rig.fresh
    BY <1>1, <1>4, BoundIsFresh
  <2>5. QED
    BY <1>3, <1>4, <2>1, <2>2, <2>3, <2>4, LateGoes
<1>5. CASE q.candidate = None
  BY <1>4, <1>5 DEF CheckCandidate
<1>6. CASE q.candidate # None /\ instance # q.instance
  BY <1>6, FailKeeps DEF CheckCandidate
<1>7. CASE q.candidate # None /\ instance = q.instance
  <2> DEFINE at == IF Bound(q.candidate) THEN "lastStatus" ELSE "poll"
  <2>1. /\ at \in {"poll", "lastStatus"}
        /\ at = "lastStatus" => Bound(q.candidate)
        /\ Probe([q EXCEPT !.at = at])
    BY <1>7 DEF CheckCandidate
  <2> HIDE DEF at
  <2>2. QED
    BY <1>4, <1>7, <2>1
<1>8. QED
  BY <1>5, <1>6, <1>7

(* The final status is noted beside the first. *)
LEMMA FinalStatusKeeps ==
  ASSUME QInv, FinalStatus
  PROVE  QInv'
<1>1. TypeOK /\ RunInv /\ ProbeInv
  BY DEF QInv
<1> DEFINE at == IF q.at = "finalStatus" THEN "finalHealth" ELSE "lastHealth"
           note == [seq |-> q.row.seq, accepted |-> q.row.accepted,
                    final |-> row]
           new == [q EXCEPT !.at = at, !.row = note]
<1>2. /\ q \in ProbeState /\ row \in Row \cup {None}
      /\ q.at \in {"finalStatus", "lastStatus"}
  BY <1>1 DEF TypeOK, PerceptionTypeOK, FinalStatus
<1>3. /\ Late /\ q.row.seq \in Nat /\ q.row.accepted \in Nat
      /\ q.candidate # None /\ q.candidate.id \in rig.fresh
  BY <1>1, <1>2 DEF ProbeInv, Late, Bounded
<1>4. Probe(new)
  BY <1>2 DEF FinalStatus, ProbeState
<1>5. at \in {"finalHealth", "lastHealth"}
  OBVIOUS
<1>6. /\ note \in FinalRow /\ note.seq = q.row.seq
      /\ note.accepted = q.row.accepted /\ note.final \in Row \cup {None}
  BY <1>2, <1>3 DEF FinalRow
<1> HIDE DEF at, note
<1>7. new \in ProbeState
  BY <1>2, <1>5, <1>6 DEF ProbeState, Labels
<1>8. /\ new.at = at /\ new.todo = q.todo /\ new.row = note
      /\ new.candidate = q.candidate /\ new.cursor = q.cursor
      /\ new.instance = q.instance /\ new.before = q.before
  BY <1>2 DEF ProbeState
<1> HIDE DEF new
<1>9. QED
  BY <1>3, <1>4, <1>5, <1>6, <1>7, <1>8, LateGoes

(* The final health tells whether it is still the same run: only then, and *)
(* with a status that covers the candidate and counts more frames than the *)
(* first, the probe passes.                                                *)
LEMMA FinalHealthKeeps ==
  ASSUME QInv, FinalHealth
  PROVE  QInv'
<1>1. TypeOK /\ RunInv /\ RowInv /\ ProbeInv
  BY DEF QInv
<1>2. /\ q \in ProbeState /\ q.at \in {"finalHealth", "lastHealth"}
      /\ instance \in Nat
  BY <1>1 DEF TypeOK, PerceptionTypeOK, FinalHealth
<1>3. /\ Late /\ q.row.seq \in Nat /\ q.row.accepted \in Nat
      /\ q.candidate # None /\ q.candidate.id \in rig.fresh
      /\ Evidence(q.candidate, q.row.seq, logged)
      /\ q.candidate.by = q.instance /\ q.candidate.id \notin q.before
  BY <1>1, <1>2 DEF ProbeInv, Late, Bounded
<1>4. CASE instance # q.instance \/ ~Covered
  BY <1>4, FailKeeps DEF FinalHealth
<1>5. CASE instance = q.instance /\ Covered /\ ~MoreAccepted
  <2> DEFINE at == IF q.at = "finalHealth" THEN "entries" ELSE "poll"
             new == [q EXCEPT !.at = at]
  <2>1. Probe(new)
    BY <1>2, <1>5 DEF FinalHealth, ProbeState
  <2>2. at \in {"entries", "poll"}
    OBVIOUS
  <2> HIDE DEF at
  <2>3. new \in ProbeState
    BY <1>2, <2>2 DEF ProbeState, Labels
  <2>4. /\ new.at = at /\ new.todo = q.todo /\ new.row = q.row
        /\ new.candidate = q.candidate /\ new.cursor = q.cursor
        /\ new.instance = q.instance /\ new.before = q.before
    BY <1>2 DEF ProbeState
  <2> HIDE DEF new
  <2>5. QED
    BY <1>3, <2>1, <2>2, <2>3, <2>4, LateGoes
<1>6. CASE instance = q.instance /\ Covered /\ MoreAccepted
  <2> DEFINE new == [q EXCEPT !.at = "over", !.todo = {}]
  <2>1. report' = "pass" /\ q' = new /\ UNCHANGED perceptionVars
    BY <1>6 DEF FinalHealth, Pass
  <2>2. new \in ProbeState
    BY <1>2 DEF ProbeState, Labels
  <2>3. /\ new.at = "over" /\ new.todo = {} /\ new.row = q.row
        /\ new.candidate = q.candidate /\ new.instance = q.instance
        /\ new.before = q.before
    BY <1>2 DEF ProbeState
  <2> HIDE DEF new
  <2>4. /\ RunInv' /\ RowInv' /\ instance' = instance /\ logged' = logged
        /\ rig' = rig
    BY <1>1, <2>1, RunStays
  <2>5. TypeOK'
    BY <2>1, <2>2, <2>4 DEF TypeOK, ProbeState, RunInv
  <2>6. ProbeInv'
    BY <1>3, <2>1, <2>3, <2>4 DEF ProbeInv, Late, Bounded
  <2>7. PassIsFreshEvidence'
    <3>1. /\ q.candidate.scene # Blank /\ q.candidate.id \in logged
          /\ q.row.seq < q.candidate.seq
      BY <1>3 DEF Evidence
    <3>2. /\ q.row.accepted < q.row.final.accepted
          /\ q.candidate.seq <= q.row.final.seq
      BY <1>6 DEF Covered, MoreAccepted
    <3>3. QED
      BY <1>3, <2>1, <2>3, <2>4, <3>1, <3>2 DEF PassIsFreshEvidence
  <2>8. QED
    BY <2>4, <2>5, <2>6, <2>7 DEF QInv
<1>7. QED
  BY <1>4, <1>5, <1>6

(* At first the probe knows nothing. *)
LEMMA InitQInv == Init => QInv
<1> SUFFICES ASSUME Init PROVE QInv
  OBVIOUS
<1>1. RunInv /\ RowInv
  BY InitRunInv DEF Init
<1>2. /\ q = [at |-> "health", instance |-> 0, row |-> None, cursor |-> 0,
              todo |-> {}, candidate |-> None, before |-> {}]
      /\ report = "none"
  BY DEF Init, Start
<1>3. q \in ProbeState
  <2>1. 0 \in 0 .. instance
    BY <1>1 DEF RunInv, PerceptionTypeOK
  <2>2. QED
    BY <1>2, <2>1 DEF ProbeState, Labels
<1>4. TypeOK
  BY <1>1, <1>2, <1>3 DEF TypeOK, RunInv
<1>5. ProbeInv /\ PassIsFreshEvidence
  BY <1>2 DEF ProbeInv, Late, Bounded, PassIsFreshEvidence
<1>6. QED
  BY <1>1, <1>4, <1>5 DEF QInv

(* Every step of the runtime and of the probe keeps the invariant. *)
LEMMA NextQInv == QInv /\ [Next]_vars => QInv'
<1> SUFFICES ASSUME QInv, [Next]_vars PROVE QInv'
  OBVIOUS
<1>1. RunInv /\ RowInv
  BY DEF QInv
<1>2. CASE PerceptionNext /\ UNCHANGED <<q, report>>
  <2>1. RunInv' /\ RowInv' /\ Grows
    BY <1>1, <1>2, PerceptionKeeps
  <2>2. QED
    BY <1>2, <2>1, ProbeStays
<1>3. CASE NoteHealth \/ NoteStatus \/ NoteCursor
  BY <1>3, NotesKeep
<1>4. CASE Poll \/ CheckEntry \/ CheckCandidate
  BY <1>4, PollKeeps, CheckEntryKeeps, CheckCandidateKeeps
<1>5. CASE FinalStatus \/ FinalHealth
  BY <1>5, FinalStatusKeeps, FinalHealthKeeps
<1>6. CASE Timeout
  BY <1>6, FailKeeps DEF Timeout
<1>7. CASE UNCHANGED vars
  <2>1. UNCHANGED perceptionVars /\ q' = q /\ report' = report
    BY <1>7 DEF vars
  <2>2. /\ RunInv' /\ RowInv' /\ instance' = instance /\ logged' = logged
        /\ Entries' = Entries /\ rig' = rig
    BY <1>1, <2>1, RunStays
  <2>3. instance \in Nat
    BY <1>1 DEF RunInv, PerceptionTypeOK
  <2>4. Grows
    BY <2>2, <2>3 DEF Grows
  <2>5. QED
    BY <2>1, <2>2, <2>4, ProbeStays
<1>8. QED
  BY <1>2, <1>3, <1>4, <1>5, <1>6, <1>7 DEF Next

(* The inductive invariant holds of every behaviour. *)
THEOREM QualificationInvariant == Spec => []QInv
BY InitQInv, NextQInv, PTL DEF Spec

-----------------------------------------------------------------------------
(* What it says                                                            *)

(* The runtime and the probe keep their types, the queues their bounds.    *)
THEOREM QualificationTypes == Spec => []TypeOK
<1>1. QInv => TypeOK
  BY DEF QInv
<1>2. QED
  BY <1>1, QualificationInvariant, PTL

(* ModelRig never admits an event that is not in VisionRig's own journal's *)
(* history, however many threads interleave, however late a post arrives   *)
(* and whatever fails.                                                     *)
THEOREM AdmissionsAreJournalled == Spec => []AdmittedIsJournalled
<1>1. QInv => AdmittedIsJournalled
  BY DEF QInv, RunInv
<1>2. QED
  BY <1>1, QualificationInvariant, PTL

(* A PASS is fresh evidence of the run it names, although the probe only   *)
(* saw the service through requests between which it may have restarted.   *)
THEOREM PassesAreFresh == Spec => []PassIsFreshEvidence
<1>1. QInv => PassIsFreshEvidence
  BY DEF QInv
<1>2. QED
  BY <1>1, QualificationInvariant, PTL
=============================================================================
