---------------------------- MODULE Qualification ---------------------------
(***************************************************************************)
(* The physical perception qualifier, polling a running service over HTTP: *)
(* it notes the instance, a live camera and the end of the event journal,  *)
(* then reads the journal onwards and looks for a receipt of ModelRig for  *)
(* an event of that camera.  Every request is a step of its own, between   *)
(* which the service perceives, publishes, pauses or restarts.             *)
(*                                                                         *)
(* Abstractions.  Version, revision, type and device of what is polled do  *)
(* not change here while the instance does not; requests do not fail (a    *)
(* failed one ends the probe, as its timeout does).                        *)
(***************************************************************************)
EXTENDS Perception

VARIABLES
  q,     \* the probe: where it is and what it has noted
  report \* what it has written: "none", "fail", or "pass" for q.candidate

vars == <<perceptionVars, q, report>>

Start ==
  [at |-> "health", instance |-> 0, row |-> None, cursor |-> 0, todo |-> {},
   candidate |-> None, before |-> {}]

Q(label) == q.at = label

Probe(changed) ==
  /\ q' = changed
  /\ UNCHANGED <<perceptionVars, report>>

\* Nothing noted outlives a failed probe.
Fail ==
  /\ report' = "fail"
  /\ q' = [Start EXCEPT !.at = "over"]
  /\ UNCHANGED perceptionVars

Online(r) == r # None /\ r.active /\ r.accepted >= 1

-----------------------------------------------------------------------------

NoteHealth ==
  /\ Q("health")
  /\ Probe([q EXCEPT !.at = "status", !.instance = instance])

\* An online camera with accepted frames, or the probe fails.
NoteStatus ==
  /\ Q("status")
  /\ IF Online(row) THEN Probe([q EXCEPT !.at = "baseline", !.row = row])
     ELSE Fail

NewestCursor == IF journal.entries = <<>> THEN 0 ELSE journal.next - 1

\* Mutant: the probe reads the journal from its beginning.
NoteStart ==
  /\ Q("baseline")
  /\ Probe([q EXCEPT !.at = "poll", !.cursor = 0, !.before = logged])

\* Only what is journalled from here on can qualify.
NoteCursor ==
  /\ Q("baseline")
  /\ Probe([q EXCEPT !.at = "poll", !.cursor = NewestCursor, !.before = logged])

\* A cursor other than 0 that the journal has moved past is a gap.
Gap ==
  /\ journal.entries # <<>>
  /\ q.cursor # 0
  /\ q.cursor < Head(journal.entries).cursor - 1

Entries == {journal.entries[i] : i \in 1 .. Len(journal.entries)}
Unread == {e \in Entries : e.cursor > q.cursor}

\* An event of the camera, newer than its baseline, that shows something.
Qualifies(ev) == ev.src = Cam /\ ev.scene # Blank /\ ev.seq > q.row.seq

Poll ==
  /\ Q("poll")
  /\ IF Gap THEN Fail
     ELSE Probe([q EXCEPT
            !.at = "entries",
            !.cursor = IF Unread = {} THEN @ ELSE NewestCursor,
            !.todo = {e \in Unread : Qualifies(e.ev)}])

\* The receipt has been published (freshly admitted) and is still retained.
Bound(ev) ==
  \E i \in 1 .. Len(results) :
    results[i].ev = ev /\ results[i].status = "published"

Oldest(entry) == \A e \in q.todo : entry.cursor <= e.cursor

\* The health of the service, asked for the next of the entries just read.
CheckEntry ==
  \E entry \in q.todo :
    /\ Q("entries") /\ Oldest(entry)
    /\ IF instance # q.instance THEN Fail
       ELSE Probe([q EXCEPT
              !.candidate = entry.ev,
              !.todo = @ \ {entry},
              !.at = IF Bound(entry.ev) THEN "finalStatus" ELSE @])

\* After the entries the last candidate is looked up once more: its receipt
\* may have come in the meantime.
CheckCandidate ==
  /\ Q("entries") /\ q.todo = {}
  /\ IF q.candidate = None THEN Probe([q EXCEPT !.at = "poll"])
     ELSE IF instance # q.instance THEN Fail
     ELSE Probe([q EXCEPT !.at = IF Bound(q.candidate) THEN "lastStatus"
                                 ELSE "poll"])

\* The final status, then the final health.
FinalStatus ==
  /\ q.at \in {"finalStatus", "lastStatus"}
  /\ Probe([q EXCEPT !.at = IF @ = "finalStatus" THEN "finalHealth"
                            ELSE "lastHealth",
                     !.row = [seq |-> @.seq, accepted |-> @.accepted,
                              final |-> row]])

Covered == Online(q.row.final) /\ q.row.final.seq >= q.candidate.seq
MoreAccepted == q.row.final.accepted > q.row.accepted

Pass ==
  /\ report' = "pass"
  /\ q' = [q EXCEPT !.at = "over", !.todo = {}]
  /\ UNCHANGED perceptionVars

FinalHealth ==
  /\ q.at \in {"finalHealth", "lastHealth"}
  /\ IF instance # q.instance \/ ~Covered THEN Fail
     ELSE IF MoreAccepted THEN Pass
     ELSE Probe([q EXCEPT !.at = IF @ = "finalHealth" THEN "entries"
                                 ELSE "poll"])

Timeout == Q("poll") /\ Fail

-----------------------------------------------------------------------------

Init == PerceptionInit /\ q = Start /\ report = "none"

Next ==
  \/ PerceptionNext /\ UNCHANGED <<q, report>>
  \/ NoteHealth \/ NoteStatus \/ NoteCursor \/ Poll
  \/ CheckEntry \/ CheckCandidate \/ FinalStatus \/ FinalHealth \/ Timeout

Spec == Init /\ [][Next]_vars

-----------------------------------------------------------------------------
(* Properties *)

Labels ==
  {"health", "status", "baseline", "poll", "entries", "finalStatus",
   "lastStatus", "finalHealth", "lastHealth", "over"}
FinalRow == [seq : Nat, accepted : Nat, final : Row \cup {None}]

ProbeState ==
  [at : Labels, instance : 0 .. instance, row : Row \cup FinalRow \cup {None},
   cursor : Nat, todo : SUBSET Entry, candidate : Event \cup {None},
   before : SUBSET logged]

(* The probe and the runtime keep their types; what the probe noted never  *)
(* runs ahead of the service.                                              *)
TypeOK ==
  /\ PerceptionTypeOK
  /\ q \in ProbeState
  /\ report \in {"none", "fail", "pass"}

(* A PASS is evidence of this run of the service: its event shows          *)
(* something, was journalled after the probe had begun, was freshly        *)
(* admitted by ModelRig, and the service that perceived it is the one whose *)
(* identity the report carries, although the probe saw the service only    *)
(* through requests between which it may have paused or restarted.         *)
PassIsFreshEvidence ==
  report = "pass" =>
    LET ev == q.candidate
    IN /\ ev.scene # Blank
       /\ ev.by = q.instance
       /\ ev.id \in (logged \cap rig.fresh) \ q.before
       /\ q.row.accepted < q.row.final.accepted
       /\ q.row.seq < ev.seq /\ ev.seq <= q.row.final.seq
=============================================================================
