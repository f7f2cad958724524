-------------------------- MODULE ControlPlaneProofs --------------------------
(***************************************************************************)
(* The safety properties of ControlPlane for any number of handlers,       *)
(* sensors, requests and journal entries.                                  *)
(*                                                                         *)
(* The argument.  The handlers share the registry, the journal and the     *)
(* runtime table without a lock, so the invariants speak of what is still  *)
(* to come from a handler that is under way: a revision it may yet stamp   *)
(* (StampInv), a summary it will yet refresh (ReadyInv), a registration it *)
(* will yet report (ReportInv).  A step of a handler either mutates the    *)
(* registry, or stamps an event, or goes on to its next step; a lemma for  *)
(* each of these three, and one for appending to the journal, carries the  *)
(* types, and the invariants follow action by action.                      *)
(***************************************************************************)
EXTENDS ControlPlane, RegistryOpsProofs, SequenceTheorems, FiniteSetTheorems

Entry == [cursor : Nat, event : Event]

\* What a handler has yet to write is not ahead of the registry at revision r,
\* and no event is older than the mutation it reflects.
StampsPast(t, r) ==
  /\ t.at # None => t.at <= r
  /\ t.pc = "append" =>
       /\ t.event.revision <= r
       /\ t.event.reflects # None => t.event.reflects <= t.event.revision

StampInv ==
  /\ JournalNeverAhead
  /\ EventsAreNotBackdated
  /\ \A e \in Retained : e.event.revision <= jr.high
  /\ \A h \in Threads : StampsPast(thread[h], reg.revision)

\* Cursors handed out are below the next one.
CursorInv ==
  /\ \A e \in Retained : e.cursor < jr.next
  /\ ui.phase # "none" => ui.cursor < jr.next
  /\ Len(jr.items) < jr.next

\* The handler may have changed the runtime table, and has yet to refresh the
\* readiness summary.
RefreshDue(t) ==
  \/ t.pc \in {"resume", "registration", "runtime", "refresh"}
  \/ t.pc = "observe" /\ t.kind = "packet"
  \/ t.pc = "append" /\ t.then \in {"runtime", "refresh"}

SummaryIsCurrent == ready = Readiness \/ (ready = None /\ Rows = {})

ReadyInv ==
  failed \/ SummaryIsCurrent \/ \E h \in Threads : RefreshDue(thread[h])

Announces(event, s) ==
  event.kind \in {"registered", "retired"} /\ event.source = s

\* The handler will append an event that makes the sensor known.
Owes(t, s) ==
  /\ t.src = s
  /\ \/ /\ ~t.was
        /\ \/ t.pc \in {"registration", "registered"}
           \/ t.pc \in {"ingress", "resume"} /\ t.kind # "packet"
     \/ /\ t.pc = "lifecycle" /\ t.kind = "retire"
        /\ ~t.prev.retired /\ t.result.retired
     \/ t.pc = "append" /\ Announces(t.event, s)

\* What a handler read at first: a sensor that was known still is, and one
\* that was not had nothing but defaults.
FirstReadHolds(t, r) ==
  t.pc # "idle" => IF t.was THEN Contains(r, t.src) ELSE t.prev = DefaultMetadata

Accounted(s) ==
  \/ \E e \in Retained : Announces(e.event, s)
  \/ \E h \in Threads : Owes(thread[h], s)

ReportInv ==
  "forget" \notin Kinds =>
    /\ \A h \in Threads : FirstReadHolds(thread[h], reg)
    /\ ~failed /\ NothingEvicted =>
         \A s \in Sources : Contains(reg, s) => Accounted(s)

PlaneInv ==
  /\ TypeOK
  /\ IsFiniteSet(Rows)
  /\ StampInv
  /\ CursorInv
  /\ BootstrapCursorIsSafe
  /\ ReadyInv
  /\ ReportInv

-----------------------------------------------------------------------------
(* The mutators of the registry, as the handlers see them                  *)

\* The revision does not go back.
Grows(old, new) == new \in Registry /\ old.revision <= new.revision

(* Every mutator leaves a well-typed registry of no lower revision. *)
LEMMA MutatorsGrow ==
  ASSUME NEW r \in Registry, NEW s \in Sources
  PROVE  /\ \A t \in Types, d \in Devices \cup {None} : Grows(r, Observed(r, s, t, d))
         /\ Grows(r, Retired(r, s))
         /\ Grows(r, Restored(r, s))
         /\ Grows(r, Forgotten(r, s))
         /\ \A m \in Metas \cup {None}, e \in BOOLEAN \cup {None} :
              Grows(r, Patched(r, s, m, e))
<1>1. r.revision \in Nat
  BY DEF Registry
<1>2. ASSUME NEW t \in Types, NEW d \in Devices \cup {None}
      PROVE  Grows(r, Observed(r, s, t, d))
  <2>1. Observed(r, s, t, d) \in Registry
    BY ObservedIs
  <2>2. r.revision <= Observed(r, s, t, d).revision
    BY <1>1 DEF Observed, Advance
  <2>3. QED
    BY <2>1, <2>2 DEF Grows
<1>3. Grows(r, Retired(r, s))
  <2>1. Retired(r, s) \in Registry
    BY RetiredIs
  <2>2. r.revision <= Retired(r, s).revision
    BY <1>1 DEF Retired
  <2>3. QED
    BY <2>1, <2>2 DEF Grows
<1>4. Grows(r, Restored(r, s))
  <2>1. Restored(r, s) \in Registry
    BY RestoredIs
  <2>2. r.revision <= Restored(r, s).revision
    BY <1>1 DEF Restored
  <2>3. QED
    BY <2>1, <2>2 DEF Grows
<1>5. Grows(r, Forgotten(r, s))
  <2>1. Forgotten(r, s) \in Registry
    BY ForgottenIs
  <2>2. r.revision <= Forgotten(r, s).revision
    BY <1>1 DEF Forgotten
  <2>3. QED
    BY <2>1, <2>2 DEF Grows
<1>6. ASSUME NEW m \in Metas \cup {None}, NEW e \in BOOLEAN \cup {None}
      PROVE  Grows(r, Patched(r, s, m, e))
  <2>1. Patched(r, s, m, e) \in Registry
    BY PatchedIs
  <2>2. r.revision <= Patched(r, s, m, e).revision
    BY <1>1 DEF Patched, Advance
  <2>3. QED
    BY <2>1, <2>2 DEF Grows
<1>7. QED
  BY <1>2, <1>3, <1>4, <1>5, <1>6

\* A known sensor stays known, and no sensor but s becomes known.
Keeps(s, old, new) ==
  \A r \in Sources : /\ Contains(old, r) => Contains(new, r)
                     /\ Contains(new, r) /\ ~Contains(old, r) => r = s

(* Only forgetting makes a sensor unknown. *)
LEMMA MutatorsKeep ==
  ASSUME NEW r \in Registry, NEW s \in Sources
  PROVE  /\ \A t \in Types, d \in Devices \cup {None} : Keeps(s, r, Observed(r, s, t, d))
         /\ Keeps(s, r, Retired(r, s))
         /\ Get(r, s).retired => \A x \in Sources :
              Contains(Restored(r, s), x) <=> Contains(r, x)
         /\ \A m \in Metas \cup {None}, e \in BOOLEAN \cup {None} :
              Keeps(s, r, Patched(r, s, m, e))
<1>1. \A m \in Metadata : m # None
  BY NoneAssumption
<1>2. Get(r, s) \in Metadata
  BY GetType
<1>3. r.entries \in [Sources -> Metadata \cup {None}]
  BY DEF Registry
<1>4. ASSUME NEW t \in Types, NEW d \in Devices \cup {None}
      PROVE  Keeps(s, r, Observed(r, s, t, d))
  <2>1. /\ Observed(r, s, t, d).entries = [r.entries EXCEPT ![s] = Get(r, s)]
        /\ Observed(r, s, t, d).discovery =
             [r.discovery EXCEPT ![s] = Described(r, s, t, d)]
    BY DEF Observed
  <2>2. QED
    BY <1>1, <1>2, <1>3, <2>1 DEF Keeps, Contains, Registry
<1>5. ASSUME NEW new, NEW m \in Metadata,
             new.entries = [r.entries EXCEPT ![s] = m],
             new.discovery = r.discovery
      PROVE  Keeps(s, r, new)
  BY <1>1, <1>3, <1>5 DEF Keeps, Contains
<1>6. Keeps(s, r, Retired(r, s))
  <2>1. [meta |-> Get(r, s).meta, enabled |-> FALSE, retired |-> TRUE] \in Metadata
    BY <1>2 DEF Metadata
  <2>2. /\ Retired(r, s).entries =
             [r.entries EXCEPT ![s] =
                [meta |-> Get(r, s).meta, enabled |-> FALSE, retired |-> TRUE]]
        /\ Retired(r, s).discovery = r.discovery
    BY DEF Retired
  <2>3. QED
    BY <1>5, <2>1, <2>2
<1>7. ASSUME Get(r, s).retired, NEW x \in Sources
      PROVE  Contains(Restored(r, s), x) <=> Contains(r, x)
  <2>1. [meta |-> Get(r, s).meta, enabled |-> FALSE, retired |-> FALSE] \in Metadata
    BY <1>2 DEF Metadata
  <2>2. r.entries[s] # None
    BY <1>7 DEF Get, DefaultMetadata
  <2>3. /\ Restored(r, s).entries =
             [r.entries EXCEPT ![s] =
                [meta |-> Get(r, s).meta, enabled |-> FALSE, retired |-> FALSE]]
        /\ Restored(r, s).discovery = r.discovery
    BY DEF Restored
  <2>4. QED
    BY <1>1, <1>3, <2>1, <2>2, <2>3 DEF Contains
<1>8. ASSUME NEW m \in Metas \cup {None}, NEW e \in BOOLEAN \cup {None}
      PROVE  Keeps(s, r, Patched(r, s, m, e))
  <2>1. PatchedEntry(r, s, m, e) \in Metadata
    BY PatchedIs
  <2>2. /\ Patched(r, s, m, e).entries =
             [r.entries EXCEPT ![s] = PatchedEntry(r, s, m, e)]
        /\ Patched(r, s, m, e).discovery = r.discovery
    BY DEF Patched
  <2>3. QED
    BY <1>5, <2>1, <2>2
<1>9. QED
  BY <1>4, <1>6, <1>7, <1>8

-----------------------------------------------------------------------------
(* Appending to the journal *)

EntriesOf(j) == {j.items[i] : i \in DOMAIN j.items}

(* The entries of a well-typed journal. *)
LEMMA EntriesType ==
  ASSUME jr \in Journal
  PROVE  \A e \in Retained : /\ e \in Entry
                             /\ e.cursor \in Nat /\ e.event.revision \in Nat
                             /\ e.event.reflects \in Nat \cup {None}
<1>1. jr.items \in Seq(Entry)
  BY DEF Journal, Entry
<1>2. \A i \in DOMAIN jr.items : jr.items[i] \in Entry
  BY <1>1
<1>3. \A e \in Entry : /\ e.cursor \in Nat /\ e.event.revision \in Nat
                      /\ e.event.reflects \in Nat \cup {None}
  BY DEF Entry, Event
<1>4. QED
  BY <1>2, <1>3 DEF Retained

(* The journal after an append: the new entry is the last, the others were  *)
(* there before, and while there is room all of those are still there.     *)
LEMMA AppendedIs ==
  ASSUME NEW j \in Journal, NEW e \in Event
  PROVE  LET new   == Appended(j, e, Capacity)
             entry == [cursor |-> j.next, event |-> e]
         IN /\ new \in Journal
            /\ new.next = j.next + 1
            /\ new.high = Larger(j.high, e.revision)
            /\ EntriesOf(new) \subseteq EntriesOf(j) \cup {entry}
            /\ Len(new.items) <= Len(j.items) + 1
            /\ Len(j.items) < Capacity =>
                 EntriesOf(new) = EntriesOf(j) \cup {entry}
<1> DEFINE entry == [cursor |-> j.next, event |-> e]
           all   == Append(j.items, entry)
           new   == Appended(j, e, Capacity)
           first == Larger(1, Len(all) - Capacity + 1)
<1>1. /\ j.items \in Seq(Entry) /\ j.next \in Nat /\ j.high \in Nat
      /\ j.stream \in Nat /\ e.revision \in Nat /\ Capacity \in Nat \ {0}
  BY ControlPlaneAssumption DEF Journal, Event, Entry
<1>2. entry \in Entry
  BY <1>1 DEF Entry
<1>3. /\ new.stream = j.stream /\ new.items = SubSeq(all, first, Len(all))
      /\ new.next = j.next + 1 /\ new.high = Larger(j.high, e.revision)
      /\ new = [stream |-> new.stream, items |-> new.items, next |-> new.next,
                high |-> new.high]
  BY DEF Appended, Newest
<1> HIDE DEF entry, new
<1>4. /\ all \in Seq(Entry) /\ Len(all) = Len(j.items) + 1
      /\ all[Len(j.items) + 1] = entry
      /\ \A i \in 1 .. Len(j.items) : all[i] = j.items[i]
      /\ Len(j.items) \in Nat
  BY <1>1, <1>2
<1> HIDE DEF all
<1>5. first \in 1 .. Len(all) /\ first \in Int /\ Len(all) \in Int
  BY <1>1, <1>4 DEF Larger
<1>6. Len(j.items) < Capacity => first = 1
  BY <1>1, <1>4 DEF Larger
<1> HIDE DEF first
<1>7. \A i \in first .. Len(all) : all[i] \in Entry
  BY <1>4, <1>5
<1>8. /\ new.items \in Seq(Entry)
      /\ Len(new.items) = Len(all) - first + 1
      /\ \A i \in 1 .. Len(all) - first + 1 : new.items[i] = all[first + i - 1]
  BY <1>3, <1>5, <1>7, SubSeqProperties
<1>9. EntriesOf(new) \subseteq EntriesOf(j) \cup {entry}
  <2> SUFFICES ASSUME NEW i \in 1 .. Len(new.items)
               PROVE  new.items[i] \in EntriesOf(j) \cup {entry}
    BY <1>8 DEF EntriesOf
  <2>1. first + i - 1 \in 1 .. Len(j.items) + 1
    BY <1>4, <1>5, <1>8
  <2>2. all[first + i - 1] \in EntriesOf(j) \cup {entry}
    BY <1>1, <1>4, <2>1 DEF EntriesOf
  <2>3. QED
    BY <1>8, <2>2
<1>10. ASSUME Len(j.items) < Capacity
       PROVE  EntriesOf(j) \cup {entry} \subseteq EntriesOf(new)
  <2>1. /\ Len(new.items) = Len(j.items) + 1
        /\ \A i \in 1 .. Len(j.items) + 1 : new.items[i] = all[i]
    BY <1>4, <1>6, <1>8, <1>10
  <2>2. entry \in EntriesOf(new)
    BY <1>4, <1>8, <2>1 DEF EntriesOf
  <2>3. \A i \in 1 .. Len(j.items) : j.items[i] = new.items[i] /\ i \in DOMAIN new.items
    BY <1>4, <1>8, <2>1
  <2>4. QED
    BY <1>1, <2>2, <2>3 DEF EntriesOf
<1>11. new \in Journal
  <2>1. /\ new.stream \in Nat /\ new.items \in Seq(Entry) /\ new.next \in Nat
        /\ new.high \in Nat
    BY <1>1, <1>3, <1>8 DEF Larger
  <2>2. [stream |-> new.stream, items |-> new.items, next |-> new.next,
         high |-> new.high] \in Journal
    BY <2>1 DEF Journal, Entry
  <2>3. QED
    BY <1>3, <2>2
<1>12. Len(new.items) <= Len(j.items) + 1
  BY <1>4, <1>5, <1>8
<1>13. QED
  BY <1>3, <1>9, <1>10, <1>11, <1>12 DEF new, entry

-----------------------------------------------------------------------------
(* The steps of a handler *)

\* The locals after Goto.
Gone(t, pc) ==
  IF pc = "idle" THEN Idle ELSE [t EXCEPT !.pc = pc, !.event = None]

\* Where a handler may go without stamping an event.
Legal(t, pc) ==
  /\ pc \in Steps \ {"append"}
  /\ t.pc # "idle"
  /\ pc \in {"observe", "ingress", "resume"} =>
       t.kind \in {"heartbeat", "frame", "packet"}

(* The locals of a handler that goes on to another step. *)
LEMMA GoneIs ==
  ASSUME NEW t \in Handler, LocalsOK(t), NEW pc, Legal(t, pc)
  PROVE  /\ Gone(t, pc) \in Handler
         /\ LocalsOK(Gone(t, pc))
         /\ \A r \in Nat : StampsPast(t, r) => StampsPast(Gone(t, pc), r)
         /\ Gone(t, pc).pc = pc
         /\ pc # "idle" =>
              /\ Gone(t, pc).kind = t.kind /\ Gone(t, pc).src = t.src
              /\ Gone(t, pc).was = t.was /\ Gone(t, pc).prev = t.prev
              /\ Gone(t, pc).result = t.result
<1>1. CASE pc = "idle"
  <2>1. Gone(t, pc) = Idle
    BY <1>1 DEF Gone
  <2>2. Idle \in Handler
    BY DEF Idle, Handler, Steps
  <2>3. Idle.pc = "idle" /\ Idle.at = None
    BY DEF Idle
  <2>4. QED
    BY <1>1, <2>1, <2>2, <2>3 DEF LocalsOK, StampsPast
<1>2. CASE pc # "idle"
  <2> DEFINE new == [t EXCEPT !.pc = pc, !.event = None]
  <2>1. Gone(t, pc) = new
    BY <1>2 DEF Gone
  <2>2. /\ new.pc = pc /\ new.kind = t.kind /\ new.src = t.src
        /\ new.arg = t.arg /\ new.was = t.was /\ new.prev = t.prev
        /\ new.result = t.result /\ new.at = t.at
    BY DEF Handler
  <2>3. new \in Handler
    BY DEF Handler, Legal
  <2> HIDE DEF new
  <2>4. pc # "append" /\ t.pc # "idle"
    BY DEF Legal
  <2>5. LocalsOK(new)
    BY <2>2, <2>4 DEF LocalsOK, Legal
  <2>6. \A r \in Nat : StampsPast(t, r) => StampsPast(new, r)
    BY <2>2, <2>4 DEF StampsPast
  <2>7. QED
    BY <1>2, <2>1, <2>2, <2>3, <2>5, <2>6
<1>3. QED
  BY <1>1, <1>2

\* The locals after a mutation of the registry.
Changed(t, old, new, pc) ==
  [t EXCEPT !.pc = pc, !.result = Get(new, t.src),
            !.at = IF new.revision # old.revision THEN new.revision ELSE None]

(* The locals of a handler that has mutated the registry. *)
LEMMA ChangedIs ==
  ASSUME NEW t \in Handler, LocalsOK(t), NEW pc, Legal(t, pc), pc # "idle",
         NEW old, NEW new \in Registry
  PROVE  /\ Changed(t, old, new, pc) \in Handler
         /\ LocalsOK(Changed(t, old, new, pc))
         /\ StampsPast(Changed(t, old, new, pc), new.revision)
         /\ Changed(t, old, new, pc).pc = pc
         /\ Changed(t, old, new, pc).kind = t.kind
         /\ Changed(t, old, new, pc).src = t.src
         /\ Changed(t, old, new, pc).was = t.was
         /\ Changed(t, old, new, pc).prev = t.prev
         /\ Changed(t, old, new, pc).result = Get(new, t.src)
<1> DEFINE c == Changed(t, old, new, pc)
<1>1. t.pc # "idle" /\ pc # "append" /\ pc \in Steps /\ t.src \in Sources
  BY DEF Legal, LocalsOK
<1>2. Get(new, t.src) \in Metadata
  BY <1>1, GetType
<1>3. new.revision \in Nat
  BY DEF Registry
<1>4. /\ c.pc = pc /\ c.kind = t.kind /\ c.src = t.src /\ c.arg = t.arg
      /\ c.was = t.was /\ c.prev = t.prev /\ c.result = Get(new, t.src)
      /\ c.at = IF new.revision # old.revision THEN new.revision ELSE None
  BY DEF Changed, Handler
<1>5. c \in Handler
  <2> DEFINE res == Get(new, t.src)
             at  == IF new.revision # old.revision THEN new.revision ELSE None
  <2>1. res \in Metadata /\ at \in Nat \cup {None}
    BY <1>2, <1>3
  <2>2. c = [t EXCEPT !.pc = pc, !.result = res, !.at = at]
    BY DEF Changed
  <2> HIDE DEF res, at
  <2>3. QED
    BY <1>1, <2>1, <2>2 DEF Handler
<1> HIDE DEF c
<1>6. LocalsOK(c)
  BY <1>1, <1>4 DEF LocalsOK, Legal
<1>7. StampsPast(c, new.revision)
  BY <1>1, <1>3, <1>4 DEF StampsPast
<1>8. QED
  BY <1>4, <1>5, <1>6, <1>7 DEF c

\* The locals after reading the revision r for an event.
Stamped(t, kind, then, r) ==
  [t EXCEPT !.pc = "append", !.then = then,
            !.event = [kind |-> kind, source |-> t.src, revision |-> r,
                       reflects |-> IF kind = "runtime_changed" THEN None
                                    ELSE t.at]]

EventKinds ==
  {"registered", "discovery_changed", "runtime_changed", "retired", "restored",
   "metadata_changed", "control_changed", "forgotten"}

(* The locals of a handler that has stamped an event. *)
LEMMA StampedIs ==
  ASSUME NEW t \in Handler, LocalsOK(t), t.pc # "idle", NEW r \in Nat,
         NEW kind \in EventKinds,
         NEW then \in {"idle", "runtime", "refresh", "metadata", "control"}
  PROVE  /\ Stamped(t, kind, then, r) \in Handler
         /\ LocalsOK(Stamped(t, kind, then, r))
         /\ StampsPast(t, r) => StampsPast(Stamped(t, kind, then, r), r)
         /\ Stamped(t, kind, then, r).pc = "append"
         /\ Stamped(t, kind, then, r).then = then
         /\ Stamped(t, kind, then, r).kind = t.kind
         /\ Stamped(t, kind, then, r).src = t.src
         /\ Stamped(t, kind, then, r).was = t.was
         /\ Stamped(t, kind, then, r).prev = t.prev
         /\ Stamped(t, kind, then, r).event.kind = kind
         /\ Stamped(t, kind, then, r).event.source = t.src
<1> DEFINE reflects == IF kind = "runtime_changed" THEN None ELSE t.at
           event == [kind |-> kind, source |-> t.src, revision |-> r,
                     reflects |-> reflects]
           n == Stamped(t, kind, then, r)
<1>1. t.src \in Sources /\ t.kind \in Kinds /\ t.arg \in Arguments(t.kind)
  BY DEF LocalsOK
<1>2. reflects \in Nat \cup {None}
  BY DEF Handler
<1>3. event \in Event
  BY <1>1, <1>2 DEF Event, EventKinds
<1>4. /\ event.kind = kind /\ event.source = t.src /\ event.revision = r
      /\ event.reflects = reflects
  OBVIOUS
<1>5. n = [t EXCEPT !.pc = "append", !.then = then, !.event = event]
  BY DEF Stamped
<1> HIDE DEF event, n
<1>6. /\ n.pc = "append" /\ n.then = then /\ n.kind = t.kind /\ n.src = t.src
      /\ n.arg = t.arg /\ n.was = t.was /\ n.prev = t.prev /\ n.at = t.at
      /\ n.event = event
  BY <1>5 DEF Handler
<1>7. n \in Handler
  BY <1>3, <1>5 DEF Handler, Steps
<1>8. LocalsOK(n)
  BY <1>1, <1>3, <1>6 DEF LocalsOK
<1>9. StampsPast(t, r) => StampsPast(n, r)
  BY <1>4, <1>6 DEF StampsPast
<1>10. QED
  BY <1>4, <1>6, <1>7, <1>8, <1>9 DEF n

Sets(h, t) == thread' = [thread EXCEPT ![h] = t]

Goes(h) ==
  \E pc : /\ Legal(thread[h], pc)
          /\ Sets(h, Gone(thread[h], pc))
          /\ reg' = reg /\ jr' = jr

Mutates(h) ==
  \E new, pc : /\ Legal(thread[h], pc) /\ pc # "idle"
               /\ Grows(reg, new)
               /\ Sets(h, Changed(thread[h], reg, new, pc))
               /\ reg' = new /\ jr' = jr

Stamps(h) ==
  \E kind \in EventKinds,
     then \in {"idle", "runtime", "refresh", "metadata", "control"} :
    /\ thread[h].pc # "idle"
    /\ Sets(h, Stamped(thread[h], kind, then, reg.revision))
    /\ reg' = reg /\ jr' = jr

\* The event was stamped before, or is that of a readiness transition.
Appends(h) ==
  \E event \in Event : \E pc :
    /\ \/ At(h, "append") /\ event = thread[h].event
       \/ event.revision = reg.revision /\ event.reflects = None
    /\ Legal(thread[h], pc)
    /\ Sets(h, Gone(thread[h], pc))
    /\ jr' = Appended(jr, event, Capacity)
    /\ reg' = reg

\* What a handler's step does to the registry, the journal and the locals.
Shape(h) == Goes(h) \/ Mutates(h) \/ Stamps(h) \/ Appends(h)

ThreadsOK == thread \in [Threads -> Handler] /\ \A h \in Threads : LocalsOK(thread[h])

(* Goto and Finish *)
LEMMA GotoGoes ==
  ASSUME ThreadsOK, NEW h \in Threads, NEW pc, Legal(thread[h], pc), Goto(h, pc)
  PROVE  Sets(h, Gone(thread[h], pc))
<1>1. CASE pc = "idle"
  BY <1>1 DEF Goto, Gone, Sets
<1>2. CASE pc # "idle"
  BY <1>2 DEF Goto, Gone, Sets, ThreadsOK
<1>3. QED
  BY <1>1, <1>2

(* Mutated *)
LEMMA MutatedMutates ==
  ASSUME ThreadsOK, NEW h \in Threads, NEW new, Grows(reg, new), NEW pc,
         Legal(thread[h], pc), pc # "idle", Mutated(h, new, pc)
  PROVE  /\ Mutates(h)
         /\ reg' = new
         /\ Sets(h, Changed(thread[h], reg, new, pc))
<1>1. thread' = [thread EXCEPT
        ![h] = [@ EXCEPT !.pc = pc, !.result = Get(new, thread[h].src),
                         !.at = IF new.revision # reg.revision
                                THEN new.revision ELSE None]]
  BY DEF Mutated, ThreadsOK
<1>2. Sets(h, Changed(thread[h], reg, new, pc))
  BY <1>1 DEF Sets, Changed, ThreadsOK
<1>3. QED
  BY <1>2 DEF Mutates, Mutated

(* An event is stamped or there is nothing to report. *)
LEMMA EmitIfShape ==
  ASSUME ThreadsOK, NEW h \in Threads, NEW condition, NEW kind \in EventKinds,
         NEW then \in {"idle", "runtime", "refresh", "metadata", "control"},
         thread[h].pc # "idle", EmitIf(h, condition, kind, then)
  PROVE  /\ Goes(h) \/ Stamps(h)
         /\ \/ condition /\ Sets(h, Stamped(thread[h], kind, then, reg.revision))
            \/ ~condition /\ Sets(h, Gone(thread[h], then))
         /\ reg' = reg /\ jr' = jr /\ run' = run /\ ready' = ready
         /\ requests' = requests /\ failed' = failed /\ ui' = ui /\ check' = check
<1>1. /\ reg' = reg /\ jr' = jr /\ run' = run /\ ready' = ready
      /\ requests' = requests /\ failed' = failed /\ ui' = ui /\ check' = check
  BY DEF EmitIf
<1>2. CASE condition
  <2>1. Stamp(h, kind, then)
    BY <1>2 DEF EmitIf
  <2>2. thread' = [thread EXCEPT
          ![h] = [@ EXCEPT !.pc = "append", !.then = then,
                    !.event = [kind |-> kind, source |-> thread[h].src,
                               revision |-> reg.revision,
                               reflects |-> IF kind = "runtime_changed"
                                            THEN None ELSE thread[h].at]]]
    BY <2>1 DEF Stamp, ThreadsOK
  <2>3. Sets(h, Stamped(thread[h], kind, then, reg.revision))
    BY <2>2 DEF Sets, Stamped, ThreadsOK
  <2>4. QED
    BY <1>1, <1>2, <2>3 DEF Stamps
<1>3. CASE ~condition
  <2>1. Goto(h, then)
    BY <1>3 DEF EmitIf
  <2>2. Legal(thread[h], then)
    BY DEF Legal, Steps
  <2>3. Sets(h, Gone(thread[h], then))
    BY <2>1, <2>2, GotoGoes
  <2>4. QED
    BY <1>1, <1>3, <2>2, <2>3 DEF Goes
<1>4. QED
  BY <1>2, <1>3

\* What a handler's step does to the rest of the state.
Side(h) ==
  /\ run' \in [Sources -> Row \cup {None}]
  /\ IsFiniteSet(Rows')
  /\ ready' \in [sources : Nat, beats : Nat] \cup {None}
  /\ requests' = requests /\ ui' = ui /\ check' = check
  /\ failed' \in BOOLEAN /\ (failed => failed')

\* A refresh that is due stays due, and is due once the table has changed.
DueKept(h) ==
  /\ RefreshDue(thread[h]) => RefreshDue(thread'[h])
  /\ (run' = run /\ ready' = ready) \/ RefreshDue(thread'[h])

FirstReadKept(h) ==
  /\ FirstReadHolds(thread'[h], reg')
  /\ \A s \in Sources : Contains(reg, s) => Contains(reg', s)

\* A sensor that becomes known is owed an event, and an event that is owed
\* stays so until it is appended.
OwedKept(h) ==
  \A s \in Sources :
    /\ Contains(reg', s) /\ ~Contains(reg, s) => Owes(thread'[h], s)
    /\ Contains(reg, s) /\ Owes(thread[h], s) =>
         \/ Owes(thread'[h], s)
         \/ /\ At(h, "append") /\ Announces(thread[h].event, s)
            /\ jr' = Appended(jr, thread[h].event, Capacity)

\* All that the invariants need to know of a handler's step.
Accounts(h) ==
  /\ Shape(h)
  /\ Side(h)
  /\ failed' \/ SummaryIsCurrent' \/ DueKept(h)
  /\ "forget" \notin Kinds /\ FirstReadHolds(thread[h], reg) =>
       FirstReadKept(h) /\ (failed' \/ OwedKept(h))

Sane == TypeOK /\ IsFiniteSet(Rows)

(* The part of the type invariant about handlers. *)
LEMMA SaneThreads ==
  ASSUME Sane
  PROVE  /\ ThreadsOK
         /\ reg \in Registry /\ jr \in Journal
         /\ run \in [Sources -> Row \cup {None}]
         /\ ready \in [sources : Nat, beats : Nat] \cup {None}
         /\ failed \in BOOLEAN /\ IsFiniteSet(Rows)
BY DEF Sane, TypeOK, ThreadsOK

(* What is true of one handler after its step, and of the others. *)
LEMMA SetsOne ==
  ASSUME ThreadsOK, NEW h \in Threads, NEW t, Sets(h, t)
  PROVE  /\ thread'[h] = t
         /\ \A k \in Threads \ {h} : thread'[k] = thread[k]
BY DEF Sets, ThreadsOK

(* A step that leaves everything but the locals, registry and journal alone. *)
LEMMA QuietSide ==
  ASSUME Sane, NEW h, run' = run, ready' = ready, requests' = requests, ui' = ui,
         check' = check, failed' = failed
  PROVE  Side(h)
<1>1. Rows' = Rows
  BY DEF Rows
<1>2. QED
  BY <1>1, SaneThreads DEF Side

(* A mutation accounts for what it does if its sensor is owed an event. *)
LEMMA MutationAccounts ==
  ASSUME Sane, NEW h \in Threads, thread[h].pc \in {"observe", "mutate"},
         NEW new, Grows(reg, new), NEW pc, Legal(thread[h], pc), pc # "idle",
         Mutated(h, new, pc),
         RefreshDue(thread[h]) => pc = "registration",
         "forget" \notin Kinds /\ FirstReadHolds(thread[h], reg) =>
           \A s \in Sources :
             /\ Contains(reg, s) => Contains(new, s)
             /\ Contains(new, s) /\ ~Contains(reg, s) =>
                  Owes(Changed(thread[h], reg, new, pc), s)
  PROVE  Accounts(h)
<1> DEFINE c == Changed(thread[h], reg, new, pc)
<1>1. ThreadsOK /\ thread[h] \in Handler /\ LocalsOK(thread[h])
  BY SaneThreads DEF ThreadsOK
<1>2. Mutates(h) /\ reg' = new /\ Sets(h, c)
  BY <1>1, MutatedMutates
<1>3. c.pc = pc /\ c.src = thread[h].src /\ c.was = thread[h].was
      /\ c.prev = thread[h].prev
  BY <1>1, ChangedIs DEF Grows
<1>4. thread'[h] = c
  BY <1>1, <1>2, SetsOne
<1>5. thread[h].pc # "idle" /\ thread[h].src \in Sources
  BY <1>1 DEF LocalsOK
<1> HIDE DEF c
<1>6. run' = run /\ ready' = ready /\ requests' = requests /\ ui' = ui
      /\ check' = check /\ failed' = failed
  BY DEF Mutated
<1>7. Side(h)
  BY <1>6, QuietSide
<1>8. DueKept(h)
  BY <1>3, <1>4, <1>6 DEF DueKept, RefreshDue
<1>9. ASSUME "forget" \notin Kinds, FirstReadHolds(thread[h], reg)
      PROVE  FirstReadKept(h) /\ OwedKept(h)
  <2>1. \A s \in Sources : /\ Contains(reg, s) => Contains(new, s)
                           /\ Contains(new, s) /\ ~Contains(reg, s) => Owes(c, s)
    BY <1>9 DEF c
  <2>2. FirstReadHolds(c, new)
    BY <1>3, <1>5, <1>9, <2>1 DEF FirstReadHolds
  <2>3. FirstReadKept(h)
    BY <1>2, <1>4, <2>1, <2>2 DEF FirstReadKept
  <2>4. \A s : ~Owes(thread[h], s)
    BY DEF Owes
  <2>5. OwedKept(h)
    BY <1>2, <1>4, <2>1, <2>4 DEF OwedKept
  <2>6. QED
    BY <2>3, <2>5
<1>10. QED
  BY <1>2, <1>7, <1>8, <1>9 DEF Accounts, Shape

(* Observing owes the first event of a sensor that becomes known. *)
LEMMA ObserveAccounts ==
  ASSUME Sane, NEW h \in Threads, Observe(h)
  PROVE  Accounts(h)
<1> DEFINE s == thread[h].src
           d == thread[h].arg.device
           pc == IF KindOf(h) = "packet" THEN "registration" ELSE "ingress"
<1>1. ThreadsOK /\ reg \in Registry /\ thread[h] \in Handler
      /\ LocalsOK(thread[h])
  BY SaneThreads DEF ThreadsOK
<1>2. PICK t \in Types : Mutated(h, Observed(reg, s, t, d), pc)
  BY DEF Observe
<1> DEFINE new == Observed(reg, s, t, d)
<1>3. thread[h].pc = "observe"
  BY DEF Observe, At
<1>4. /\ s \in Sources /\ thread[h].kind \in {"heartbeat", "frame", "packet"}
      /\ thread[h].arg \in Arguments(thread[h].kind)
  BY <1>1, <1>3 DEF LocalsOK
<1>5. d \in Devices \cup {None}
  BY <1>4 DEF Arguments
<1>6. Grows(reg, new)
  BY <1>1, <1>4, <1>5, MutatorsGrow
<1>7. Keeps(s, reg, new)
  BY <1>1, <1>4, <1>5, MutatorsKeep
<1> HIDE DEF new, d
<1>8. Legal(thread[h], pc) /\ pc # "idle"
  BY <1>3, <1>4 DEF Legal, Steps
<1>9. RefreshDue(thread[h]) => pc = "registration"
  BY <1>3 DEF RefreshDue, KindOf
<1>10. ASSUME "forget" \notin Kinds, FirstReadHolds(thread[h], reg), NEW r \in Sources
       PROVE  /\ Contains(reg, r) => Contains(new, r)
              /\ Contains(new, r) /\ ~Contains(reg, r) =>
                   Owes(Changed(thread[h], reg, new, pc), r)
  <2>1. Contains(reg, r) => Contains(new, r)
    BY <1>7 DEF Keeps
  <2>2. ASSUME Contains(new, r), ~Contains(reg, r)
        PROVE  Owes(Changed(thread[h], reg, new, pc), r)
    <3> DEFINE c == Changed(thread[h], reg, new, pc)
    <3>1. r = s
      BY <1>7, <2>2 DEF Keeps
    <3>2. ~thread[h].was
      BY <1>3, <1>10, <2>2, <3>1 DEF FirstReadHolds
    <3>3. c.pc = pc /\ c.src = s /\ c.was = thread[h].was /\ c.kind = thread[h].kind
      BY <1>1, <1>6, <1>8, ChangedIs DEF Grows
    <3> HIDE DEF c
    <3>4. c.pc = "registration" \/ (c.pc = "ingress" /\ c.kind # "packet")
      BY <3>3 DEF KindOf
    <3>5. Owes(c, r)
      BY <3>1, <3>2, <3>3, <3>4 DEF Owes
    <3>6. QED
      BY <3>5 DEF c
  <2>3. QED
    BY <2>1, <2>2
<1> HIDE DEF pc
<1>11. QED
  BY <1>2, <1>3, <1>6, <1>8, <1>9, <1>10, MutationAccounts DEF new

(* What is known of a handler that is about to mutate. *)
LEMMA Mutating ==
  ASSUME Sane, NEW h \in Threads, At(h, "mutate")
  PROVE  /\ ThreadsOK /\ reg \in Registry /\ Grows(reg, reg)
         /\ thread[h] \in Handler /\ LocalsOK(thread[h])
         /\ thread[h].pc = "mutate" /\ ~RefreshDue(thread[h])
         /\ thread[h].src \in Sources /\ thread[h].kind \in Kinds
         /\ thread[h].arg \in Arguments(thread[h].kind)
         /\ \A pc \in {"lifecycle", "registered", "forgetSource"} :
              Legal(thread[h], pc)
<1>1. ThreadsOK /\ reg \in Registry /\ thread[h] \in Handler /\ LocalsOK(thread[h])
  BY SaneThreads DEF ThreadsOK
<1>2. thread[h].pc = "mutate"
  BY DEF At
<1>3. ~RefreshDue(thread[h])
  BY <1>2 DEF RefreshDue
<1>4. Grows(reg, reg)
  BY <1>1 DEF Grows, Registry
<1>5. \A pc \in {"lifecycle", "registered", "forgetSource"} : Legal(thread[h], pc)
  BY <1>2 DEF Legal, Steps
<1>6. QED
  BY <1>1, <1>2, <1>3, <1>4, <1>5 DEF LocalsOK

(* Retiring an unknown id owes the event that says so. *)
LEMMA RetireAccounts ==
  ASSUME Sane, NEW h \in Threads, Retire(h)
  PROVE  Accounts(h)
<1> DEFINE s   == thread[h].src
           new == IF Get(reg, s).retired THEN reg ELSE Retired(reg, s)
           c   == Changed(thread[h], reg, new, "lifecycle")
<1>1. /\ At(h, "mutate") /\ thread[h].kind = "retire"
      /\ Mutated(h, new, "lifecycle")
  BY DEF Retire, KindOf
<1>2. s \in Sources /\ reg \in Registry
  BY <1>1, Mutating
<1>3. Grows(reg, new) /\ (new = reg \/ (new = Retired(reg, s) /\ Keeps(s, reg, new)))
  BY <1>1, <1>2, Mutating, MutatorsGrow, MutatorsKeep
<1>4. new = Retired(reg, s) => Get(new, s).retired
  BY <1>2, RetiredIs
<1> HIDE DEF new
<1>5. /\ c.pc = "lifecycle" /\ c.kind = "retire" /\ c.src = s
      /\ c.prev = thread[h].prev /\ c.result = Get(new, s)
  BY <1>1, <1>3, Mutating, ChangedIs DEF Grows
<1> HIDE DEF c
<1>6. ASSUME FirstReadHolds(thread[h], reg), NEW r \in Sources
      PROVE  /\ Contains(reg, r) => Contains(new, r)
             /\ Contains(new, r) /\ ~Contains(reg, r) => Owes(c, r)
  <2>1. Contains(reg, r) => Contains(new, r)
    BY <1>3 DEF Keeps
  <2>2. ASSUME Contains(new, r), ~Contains(reg, r)
        PROVE  Owes(c, r)
    <3>1. new = Retired(reg, s) /\ r = s
      BY <1>3, <2>2 DEF Keeps
    <3>2. thread[h].prev = DefaultMetadata
      BY <1>1, <1>6, <2>2, <3>1, Mutating DEF FirstReadHolds
    <3>3. ~c.prev.retired /\ c.result.retired
      BY <1>4, <1>5, <3>1, <3>2 DEF DefaultMetadata
    <3>4. QED
      BY <1>5, <3>1, <3>3 DEF Owes
  <2>3. QED
    BY <2>1, <2>2
<1>7. QED
  BY <1>1, <1>3, <1>6, Mutating, MutationAccounts DEF c

(* Restoring makes no sensor known. *)
LEMMA RestoreAccounts ==
  ASSUME Sane, NEW h \in Threads, Restore(h)
  PROVE  Accounts(h)
<1> DEFINE s   == thread[h].src
           new == IF Get(reg, s).retired THEN Restored(reg, s) ELSE reg
<1>1. At(h, "mutate") /\ Mutated(h, new, "lifecycle")
  BY DEF Restore
<1>2. s \in Sources /\ reg \in Registry
  BY <1>1, Mutating
<1>3. Grows(reg, new)
  BY <1>1, <1>2, Mutating, MutatorsGrow
<1>4. \A r \in Sources : Contains(new, r) <=> Contains(reg, r)
  BY <1>2, MutatorsKeep
<1> HIDE DEF new
<1>5. QED
  BY <1>1, <1>3, <1>4, Mutating, MutationAccounts

(* Patching an unknown id owes the event of its registration. *)
LEMMA PatchAccounts ==
  ASSUME Sane, NEW h \in Threads, Patch(h)
  PROVE  Accounts(h)
<1> DEFINE s   == thread[h].src
           arg == thread[h].arg
           new == Patched(reg, s, arg.meta, arg.enabled)
           c   == Changed(thread[h], reg, new, "registered")
<1>1. /\ At(h, "mutate") /\ thread[h].kind = "patch"
      /\ Mutated(h, new, "registered")
  BY DEF Patch, KindOf
<1>2. /\ s \in Sources /\ reg \in Registry
      /\ arg.meta \in Metas \cup {None} /\ arg.enabled \in BOOLEAN \cup {None}
  BY <1>1, Mutating DEF Arguments
<1>3. Grows(reg, new) /\ Keeps(s, reg, new)
  BY <1>2, MutatorsGrow, MutatorsKeep
<1> HIDE DEF new, arg
<1>4. c.pc = "registered" /\ c.src = s /\ c.was = thread[h].was
  BY <1>1, <1>3, Mutating, ChangedIs DEF Grows
<1> HIDE DEF c
<1>5. ASSUME FirstReadHolds(thread[h], reg), NEW r \in Sources
      PROVE  /\ Contains(reg, r) => Contains(new, r)
             /\ Contains(new, r) /\ ~Contains(reg, r) => Owes(c, r)
  <2>1. Contains(reg, r) => Contains(new, r)
    BY <1>3 DEF Keeps
  <2>2. ASSUME Contains(new, r), ~Contains(reg, r)
        PROVE  Owes(c, r)
    <3>1. r = s
      BY <1>3, <2>2 DEF Keeps
    <3>2. ~thread[h].was
      BY <1>1, <1>5, <2>2, <3>1, Mutating DEF FirstReadHolds
    <3>3. QED
      BY <1>4, <3>1, <3>2 DEF Owes
  <2>3. QED
    BY <2>1, <2>2
<1>6. QED
  BY <1>1, <1>3, <1>5, Mutating, MutationAccounts DEF c

(* Forgetting leads to the refresh of the summary. *)
LEMMA ForgetAccounts ==
  ASSUME Sane, NEW h \in Threads, Forget(h)
  PROVE  Accounts(h)
<1> DEFINE new == Forgotten(reg, thread[h].src)
<1>1. /\ At(h, "mutate") /\ thread[h].kind = "forget"
      /\ Mutated(h, new, "forgetSource")
  BY DEF Forget, KindOf
<1>2. "forget" \in Kinds
  BY <1>1, Mutating
<1>3. Grows(reg, new)
  BY <1>1, Mutating, MutatorsGrow
<1> HIDE DEF new
<1>4. QED
  BY <1>1, <1>2, <1>3, Mutating, MutationAccounts

-----------------------------------------------------------------------------
(* The steps that change neither registry nor journal *)

(* Going on keeps what was read at first. *)
LEMMA GoneReads ==
  ASSUME Sane, NEW h \in Threads, NEW pc, Legal(thread[h], pc),
         Sets(h, Gone(thread[h], pc)), reg' = reg,
         FirstReadHolds(thread[h], reg)
  PROVE  FirstReadKept(h)
<1>1. ThreadsOK /\ thread[h] \in Handler /\ LocalsOK(thread[h])
  BY SaneThreads DEF ThreadsOK
<1> DEFINE g == Gone(thread[h], pc)
<1>2. g.pc = pc /\ (pc # "idle" => /\ g.src = thread[h].src /\ g.was = thread[h].was
                                  /\ g.prev = thread[h].prev)
  BY <1>1, GoneIs
<1>3. thread'[h] = g
  BY <1>1, SetsOne
<1> HIDE DEF g
<1>4. thread[h].pc # "idle"
  BY DEF Legal
<1>5. FirstReadHolds(g, reg)
  BY <1>2, <1>4 DEF FirstReadHolds
<1>6. QED
  BY <1>3, <1>5 DEF FirstReadKept

(* Going on accounts for the step if no refresh and no event is forgotten. *)
LEMMA GoingAccounts ==
  ASSUME Sane, NEW h \in Threads, NEW pc, Legal(thread[h], pc), Goto(h, pc),
         reg' = reg, jr' = jr, Side(h),
         \/ failed'
         \/ /\ (run' = run /\ ready' = ready) \/ RefreshDue(Gone(thread[h], pc))
            /\ RefreshDue(thread[h]) => RefreshDue(Gone(thread[h], pc))
            /\ \A s \in Sources :
                 Contains(reg, s) /\ Owes(thread[h], s) =>
                   Owes(Gone(thread[h], pc), s)
  PROVE  Accounts(h)
<1>1. ThreadsOK
  BY SaneThreads
<1>2. Sets(h, Gone(thread[h], pc))
  BY <1>1, GotoGoes
<1>3. thread'[h] = Gone(thread[h], pc)
  BY <1>1, <1>2, SetsOne
<1>4. Shape(h)
  BY <1>2 DEF Shape, Goes
<1>5. failed' \/ DueKept(h)
  BY <1>3 DEF DueKept
<1>6. failed' \/ OwedKept(h)
  BY <1>3 DEF OwedKept
<1>7. FirstReadHolds(thread[h], reg) => FirstReadKept(h)
  BY <1>2, GoneReads
<1>8. QED
  BY <1>4, <1>5, <1>6, <1>7 DEF Accounts

(* One row of the runtime table is written; the table stays finite. *)
LEMMA TableSide ==
  ASSUME Sane, NEW h, NEW s \in Sources, NEW row \in Row \cup {None},
         run' = [run EXCEPT ![s] = row], ready' = ready,
         requests' = requests, ui' = ui, check' = check, failed' = failed
  PROVE  Side(h)
<1>1. run \in [Sources -> Row \cup {None}]
  BY SaneThreads
<1>2. run' \in [Sources -> Row \cup {None}]
  BY <1>1
<1>3. Rows' \in SUBSET (Rows \cup {s})
  BY <1>1 DEF Rows
<1>4. IsFiniteSet(Rows')
  <2>1. IsFiniteSet(Rows \cup {s})
    BY SaneThreads, FS_AddElement
  <2>2. QED
    BY <1>3, <2>1, FS_Subset
<1>5. QED
  BY <1>2, <1>4, SaneThreads DEF Side

(* A refused patch or deletion has changed nothing. *)
LEMMA RefusedAccounts ==
  ASSUME Sane, NEW h \in Threads, Refused(h)
  PROVE  Accounts(h)
<1>1. /\ At(h, "mutate") /\ Goto(h, "idle")
      /\ reg' = reg /\ jr' = jr /\ run' = run /\ ready' = ready
      /\ requests' = requests /\ failed' = failed /\ ui' = ui /\ check' = check
  BY DEF Refused, Finish
<1>2. Side(h)
  BY <1>1, QuietSide
<1>3. thread[h].pc = "mutate" /\ ~RefreshDue(thread[h])
  BY <1>1, Mutating
<1>4. Legal(thread[h], "idle")
  BY <1>3 DEF Legal, Steps
<1>5. \A s : ~Owes(thread[h], s)
  BY <1>3 DEF Owes
<1>6. QED
  BY <1>1, <1>2, <1>3, <1>4, <1>5, GoingAccounts

(* The runtime row that a heartbeat or a frame leaves is well-typed. *)
LEMMA SeenType ==
  ASSUME Sane, NEW h \in Threads, At(h, "ingress")
  PROVE  Seen(h) \in Row
<1> DEFINE t == thread[h]
<1>1. /\ t.kind \in {"heartbeat", "frame", "packet"} /\ t.src \in Sources
      /\ t.arg \in Arguments(t.kind)
  BY SaneThreads DEF ThreadsOK, LocalsOK, At
<1>2. run[t.src] \in Row \cup {None}
  BY <1>1, SaneThreads
<1>3. CASE t.kind = "heartbeat"
  <2>1. t.arg.report \in Reports
    BY <1>1, <1>3 DEF Arguments
  <2>2. /\ t.arg.report.active \in BOOLEAN
        /\ t.arg.report.ack \in {r.ack : r \in Reports}
    BY <2>1, ControlPlaneAssumption
  <2>3. QED
    BY <1>3, <2>2 DEF Seen, KindOf, Row
<1>4. CASE t.kind # "heartbeat"
  <2>1. CASE run[t.src] = None
    BY <1>4, <2>1 DEF Seen, KindOf, Row
  <2>2. CASE run[t.src] # None
    <3>1. [run[t.src] EXCEPT !.active = TRUE, !.online = TRUE] \in Row
      BY <1>2, <2>2 DEF Row
    <3>2. QED
      BY <1>4, <2>2, <3>1 DEF Seen, KindOf
  <2>3. QED
    BY <2>1, <2>2
<1>5. QED
  BY <1>3, <1>4

(* A heartbeat or a frame changes the table; its refresh is to come. *)
LEMMA IngressAccounts ==
  ASSUME Sane, NEW h \in Threads, Ingress(h)
  PROVE  Accounts(h)
<1> DEFINE t  == thread[h]
           pc == IF KindOf(h) \in Async THEN "resume" ELSE "registration"
           g  == Gone(t, pc)
<1>1. /\ At(h, "ingress") /\ Goto(h, pc) /\ run' = [run EXCEPT ![t.src] = Seen(h)]
      /\ reg' = reg /\ jr' = jr /\ ready' = ready
      /\ requests' = requests /\ failed' = failed /\ ui' = ui /\ check' = check
  BY DEF Ingress
<1>2. /\ t \in Handler /\ LocalsOK(t) /\ t.pc = "ingress" /\ t.src \in Sources
      /\ t.kind \in {"heartbeat", "frame", "packet"}
  BY <1>1, SaneThreads DEF ThreadsOK, LocalsOK, At
<1>3. Side(h)
  BY <1>1, <1>2, SeenType, TableSide
<1>4. Legal(t, pc) /\ pc \in {"resume", "registration"}
  BY <1>2 DEF Legal, Steps
<1>5. g.pc = pc /\ g.kind = t.kind /\ g.src = t.src /\ g.was = t.was
  BY <1>2, <1>4, GoneIs
<1> HIDE DEF g
<1>6. RefreshDue(g)
  BY <1>4, <1>5 DEF RefreshDue
<1>7. \A s : Owes(t, s) => Owes(g, s)
  BY <1>2, <1>4, <1>5 DEF Owes
<1> HIDE DEF pc
<1>8. QED
  BY <1>1, <1>3, <1>4, <1>6, <1>7, GoingAccounts DEF g

(* Returning from the worker thread forgets nothing. *)
LEMMA ResumeAccounts ==
  ASSUME Sane, NEW h \in Threads, Resume(h)
  PROVE  Accounts(h)
<1> DEFINE t  == thread[h]
           pc == IF KindOf(h) = "packet" THEN "observe" ELSE "registration"
           g  == Gone(t, pc)
<1>1. /\ At(h, "resume") /\ Goto(h, pc)
      /\ reg' = reg /\ jr' = jr /\ run' = run /\ ready' = ready
      /\ requests' = requests /\ failed' = failed /\ ui' = ui /\ check' = check
  BY DEF Resume
<1>2. /\ t \in Handler /\ LocalsOK(t) /\ t.pc = "resume" /\ t.src \in Sources
      /\ t.kind \in {"heartbeat", "frame", "packet"}
  BY <1>1, SaneThreads DEF ThreadsOK, LocalsOK, At
<1>3. Side(h)
  BY <1>1, QuietSide
<1>4. Legal(t, pc)
  BY <1>2 DEF Legal, Steps
<1>5. /\ g.pc = pc /\ g.kind = t.kind /\ g.src = t.src /\ g.was = t.was
      /\ IF t.kind = "packet" THEN pc = "observe" ELSE pc = "registration"
  BY <1>2, <1>4, GoneIs DEF KindOf
<1> HIDE DEF g, pc
<1>6. RefreshDue(g)
  BY <1>5 DEF RefreshDue
<1>7. \A s : Owes(t, s) => Owes(g, s)
  BY <1>2, <1>5 DEF Owes
<1>8. QED
  BY <1>1, <1>3, <1>4, <1>6, <1>7, GoingAccounts DEF g

(* A refused deletion has changed nothing. *)
LEMMA CheckPresenceAccounts ==
  ASSUME Sane, NEW h \in Threads, CheckPresence(h)
  PROVE  Accounts(h)
<1>1. /\ At(h, "presence") /\ \E pc \in {"idle", "mutate"} : Goto(h, pc)
      /\ reg' = reg /\ jr' = jr /\ run' = run /\ ready' = ready
      /\ requests' = requests /\ failed' = failed /\ ui' = ui /\ check' = check
  BY DEF CheckPresence, Finish
<1>2. PICK pc \in {"idle", "mutate"} : Goto(h, pc)
  BY <1>1
<1>3. Side(h)
  BY <1>1, QuietSide
<1>4. thread[h].pc = "presence"
  BY <1>1 DEF At
<1>5. Legal(thread[h], pc) /\ ~RefreshDue(thread[h])
  BY <1>4 DEF Legal, Steps, RefreshDue
<1>6. \A s : ~Owes(thread[h], s)
  BY <1>4 DEF Owes
<1>7. QED
  BY <1>1, <1>2, <1>3, <1>5, <1>6, GoingAccounts

(* Deleting a row is followed by a refresh. *)
LEMMA ForgetSourceAccounts ==
  ASSUME Sane, NEW h \in Threads, ForgetSource(h)
  PROVE  Accounts(h)
<1> DEFINE t == thread[h]
           g == Gone(t, "refresh")
<1>1. /\ At(h, "forgetSource") /\ Goto(h, "refresh")
      /\ run' = [run EXCEPT ![t.src] = None]
      /\ reg' = reg /\ jr' = jr /\ ready' = ready
      /\ requests' = requests /\ failed' = failed /\ ui' = ui /\ check' = check
  BY DEF ForgetSource
<1>2. /\ t \in Handler /\ LocalsOK(t) /\ t.pc = "forgetSource" /\ t.src \in Sources
  BY <1>1, SaneThreads DEF ThreadsOK, LocalsOK, At
<1>3. Side(h)
  BY <1>1, <1>2, TableSide
<1>4. Legal(t, "refresh")
  BY <1>2 DEF Legal, Steps
<1>5. g.pc = "refresh"
  BY <1>2, <1>4, GoneIs
<1> HIDE DEF g
<1>6. RefreshDue(g) /\ \A s : ~Owes(t, s)
  BY <1>2, <1>5 DEF RefreshDue, Owes
<1>7. QED
  BY <1>1, <1>3, <1>4, <1>6, GoingAccounts DEF g

(* A handler that ends with an error owes nothing any more. *)
LEMMA FailsAccounts ==
  ASSUME Sane, NEW h \in Threads, Fails(h)
  PROVE  Accounts(h)
<1>1. /\ Goto(h, "idle") /\ failed'
      /\ reg' = reg /\ jr' = jr /\ run' = run /\ ready' = ready
      /\ requests' = requests /\ ui' = ui /\ check' = check
  BY DEF Fails, Finish
<1>2. Legal(thread[h], "idle")
  BY DEF Fails, At, Legal, Steps
<1>3. Side(h)
  <2>1. Rows' = Rows
    BY <1>1 DEF Rows
  <2>2. failed' = TRUE
    BY DEF Fails
  <2>3. QED
    BY <1>1, <2>1, <2>2, SaneThreads DEF Side
<1>4. QED
  BY <1>1, <1>2, <1>3, GoingAccounts

-----------------------------------------------------------------------------
(* Stamping *)

(* Emitting accounts for the step if what is owed is what is emitted. *)
LEMMA EmissionAccounts ==
  ASSUME Sane, NEW h \in Threads, NEW condition, NEW kind \in EventKinds,
         NEW then \in {"idle", "runtime", "refresh", "metadata", "control"},
         thread[h].pc \notin {"idle", "append"}, EmitIf(h, condition, kind, then),
         RefreshDue(thread[h]) => then \in {"runtime", "refresh"},
         \A s \in Sources :
           Contains(reg, s) /\ Owes(thread[h], s) =>
             condition /\ kind \in {"registered", "retired"}
  PROVE  Accounts(h)
<1> DEFINE t == thread[h]
           n == Stamped(t, kind, then, reg.revision)
           g == Gone(t, then)
<1>1. ThreadsOK /\ reg \in Registry /\ t \in Handler /\ LocalsOK(t)
  BY SaneThreads DEF ThreadsOK
<1>2. /\ Goes(h) \/ Stamps(h)
      /\ (condition /\ Sets(h, n)) \/ (~condition /\ Sets(h, g))
      /\ reg' = reg /\ jr' = jr /\ run' = run /\ ready' = ready
      /\ requests' = requests /\ failed' = failed /\ ui' = ui /\ check' = check
  BY <1>1, EmitIfShape
<1>3. Side(h)
  BY <1>2, QuietSide
<1>4. Legal(t, then)
  BY DEF Legal, Steps
<1>5. reg.revision \in Nat
  BY <1>1 DEF Registry
<1>6. CASE condition
  <2>1. /\ n.pc = "append" /\ n.then = then /\ n.src = t.src /\ n.was = t.was
        /\ n.prev = t.prev /\ n.event.kind = kind /\ n.event.source = t.src
    BY <1>1, <1>5, StampedIs
  <2>2. thread'[h] = n
    BY <1>1, <1>2, <1>6, SetsOne
  <2> HIDE DEF n
  <2>3. DueKept(h)
    BY <1>2, <2>1, <2>2 DEF DueKept, RefreshDue
  <2>4. \A s \in Sources : Contains(reg, s) /\ Owes(t, s) => Owes(n, s)
    BY <2>1 DEF Owes, Announces
  <2>5. OwedKept(h)
    BY <1>2, <2>2, <2>4 DEF OwedKept
  <2>6. FirstReadHolds(t, reg) => FirstReadKept(h)
    BY <1>2, <2>1, <2>2 DEF FirstReadHolds, FirstReadKept
  <2>7. QED
    BY <1>2, <1>3, <2>3, <2>5, <2>6 DEF Accounts, Shape
<1>7. CASE ~condition
  <2>1. g.pc = then
    BY <1>1, <1>4, GoneIs
  <2>2. thread'[h] = g
    BY <1>1, <1>2, <1>7, SetsOne
  <2>3. FirstReadHolds(t, reg) => FirstReadKept(h)
    BY <1>2, <1>4, <1>7, GoneReads
  <2> HIDE DEF g
  <2>4. DueKept(h)
    BY <1>2, <2>1, <2>2 DEF DueKept, RefreshDue
  <2>5. OwedKept(h)
    BY <1>2, <1>7 DEF OwedKept
  <2>6. QED
    BY <1>2, <1>3, <2>3, <2>4, <2>5 DEF Accounts, Shape
<1>8. QED
  BY <1>6, <1>7

(* A first registration is stamped by whoever saw the sensor unknown. *)
LEMMA EmitRegistrationAccounts ==
  ASSUME Sane, NEW h \in Threads, EmitRegistration(h)
  PROVE  Accounts(h)
<1> DEFINE t    == thread[h]
           next == IF KindOf(h) = "heartbeat" THEN "runtime" ELSE "refresh"
           moved == /\ t.disc # None
                    /\ reg.discovery[t.src] # None
                    /\ t.disc # reg.discovery[t.src]
<1>1. t.pc = "registration"
  BY DEF EmitRegistration, At
<1>2. CASE ~t.was /\ Contains(reg, t.src)
  <2>1. EmitIf(h, TRUE, "registered", next)
    BY <1>2 DEF EmitRegistration
  <2>2. QED
    BY <1>1, <2>1, EmissionAccounts DEF EventKinds
<1>3. CASE ~(~t.was /\ Contains(reg, t.src))
  <2>1. EmitIf(h, moved, "discovery_changed", next)
    BY <1>3 DEF EmitRegistration
  <2>2. \A s \in Sources : ~(Contains(reg, s) /\ Owes(t, s))
    BY <1>1, <1>3 DEF Owes
  <2> HIDE DEF moved
  <2>3. QED
    BY <1>1, <2>1, <2>2, EmissionAccounts DEF EventKinds
<1>4. QED
  BY <1>2, <1>3

(* The event about the runtime row is owed to nobody. *)
LEMMA EmitRuntimeAccounts ==
  ASSUME Sane, NEW h \in Threads, EmitRuntime(h)
  PROVE  Accounts(h)
<1> DEFINE row == run[thread[h].src]
           old == thread[h].run
           differs == /\ row # None
                      /\ \/ old = None
                         \/ old.active # row.active
                         \/ old.ack # row.ack
                         \/ old.beat # row.beat
<1>1. thread[h].pc = "runtime"
  BY DEF EmitRuntime, At
<1>2. EmitIf(h, differs, "runtime_changed", "refresh")
  BY DEF EmitRuntime
<1> HIDE DEF differs
<1>3. \A s : ~Owes(thread[h], s)
  BY <1>1 DEF Owes
<1>4. QED
  BY <1>1, <1>2, <1>3, EmissionAccounts DEF EventKinds

(* A retirement is stamped if the handler saw the sensor in use. *)
LEMMA EmitLifecycleAccounts ==
  ASSUME Sane, NEW h \in Threads, EmitLifecycle(h)
  PROVE  Accounts(h)
<1> DEFINE t == thread[h]
           retires  == ~t.prev.retired /\ t.result.retired
           restores == t.prev.retired /\ ~t.result.retired
<1>1. t.pc = "lifecycle"
  BY DEF EmitLifecycle, At
<1>2. ~RefreshDue(t)
  BY <1>1 DEF RefreshDue
<1>3. CASE t.kind = "retire"
  <2>1. EmitIf(h, retires, "retired", "idle")
    BY <1>3 DEF EmitLifecycle, KindOf
  <2>2. \A s : Owes(t, s) => retires
    BY <1>1 DEF Owes
  <2> HIDE DEF retires
  <2>3. QED
    BY <1>1, <1>2, <2>1, <2>2, EmissionAccounts DEF EventKinds
<1>4. CASE t.kind # "retire"
  <2>1. EmitIf(h, restores, "restored", "idle")
    BY <1>4 DEF EmitLifecycle, KindOf
  <2>2. \A s : ~Owes(t, s)
    BY <1>1, <1>4 DEF Owes
  <2> HIDE DEF restores
  <2>3. QED
    BY <1>1, <1>2, <2>1, <2>2, EmissionAccounts DEF EventKinds
<1>5. QED
  BY <1>3, <1>4

(* PATCH stamps a registration if it saw the sensor unknown. *)
LEMMA EmitPatchRegisteredAccounts ==
  ASSUME Sane, NEW h \in Threads, EmitPatchRegistered(h)
  PROVE  Accounts(h)
<1>1. thread[h].pc = "registered"
  BY DEF EmitPatchRegistered, At
<1>2. EmitIf(h, ~thread[h].was, "registered", "metadata")
  BY DEF EmitPatchRegistered
<1>3. ~RefreshDue(thread[h]) /\ \A s : Owes(thread[h], s) => ~thread[h].was
  BY <1>1 DEF RefreshDue, Owes
<1>4. QED
  BY <1>1, <1>2, <1>3, EmissionAccounts DEF EventKinds

(* The event about metadata is owed to nobody. *)
LEMMA EmitPatchMetadataAccounts ==
  ASSUME Sane, NEW h \in Threads, EmitPatchMetadata(h)
  PROVE  Accounts(h)
<1>1. thread[h].pc = "metadata"
  BY DEF EmitPatchMetadata, At
<1>2. EmitIf(h, thread[h].prev.meta # thread[h].result.meta,
             "metadata_changed", "control")
  BY DEF EmitPatchMetadata
<1>3. ~RefreshDue(thread[h]) /\ \A s : ~Owes(thread[h], s)
  BY <1>1 DEF RefreshDue, Owes
<1>4. QED
  BY <1>1, <1>2, <1>3, EmissionAccounts DEF EventKinds

(* The event about the switch is owed to nobody. *)
LEMMA EmitPatchControlAccounts ==
  ASSUME Sane, NEW h \in Threads, EmitPatchControl(h)
  PROVE  Accounts(h)
<1> DEFINE flips == \/ thread[h].prev.enabled # thread[h].result.enabled
                    \/ thread[h].control # reg.control[thread[h].src]
<1>1. thread[h].pc = "control"
  BY DEF EmitPatchControl, At
<1>2. EmitIf(h, flips, "control_changed", "idle")
  BY DEF EmitPatchControl
<1> HIDE DEF flips
<1>3. ~RefreshDue(thread[h]) /\ \A s : ~Owes(thread[h], s)
  BY <1>1 DEF RefreshDue, Owes
<1>4. QED
  BY <1>1, <1>2, <1>3, EmissionAccounts DEF EventKinds

(* The event about the deletion is owed to nobody. *)
LEMMA EmitForgottenAccounts ==
  ASSUME Sane, NEW h \in Threads, EmitForgotten(h)
  PROVE  Accounts(h)
<1>1. thread[h].pc = "forgotten"
  BY DEF EmitForgotten, At
<1>2. EmitIf(h, TRUE, "forgotten", "idle")
  BY DEF EmitForgotten
<1>3. ~RefreshDue(thread[h]) /\ \A s : ~Owes(thread[h], s)
  BY <1>1 DEF RefreshDue, Owes
<1>4. QED
  BY <1>1, <1>2, <1>3, EmissionAccounts DEF EventKinds

-----------------------------------------------------------------------------
(* Appending *)

(* What was owed is appended, and the handler goes on. *)
LEMMA AppendEventAccounts ==
  ASSUME Sane, NEW h \in Threads, AppendEvent(h)
  PROVE  Accounts(h)
<1> DEFINE t == thread[h]
           g == Gone(t, t.then)
<1>1. /\ At(h, "append") /\ Goto(h, t.then)
      /\ jr' = Appended(jr, t.event, Capacity)
      /\ reg' = reg /\ run' = run /\ ready' = ready
      /\ requests' = requests /\ failed' = failed /\ ui' = ui /\ check' = check
  BY DEF AppendEvent
<1>2. ThreadsOK /\ t \in Handler /\ LocalsOK(t) /\ t.pc = "append" /\ t.event \in Event
  BY <1>1, SaneThreads DEF ThreadsOK, LocalsOK, At
<1>3. Side(h)
  BY <1>1, QuietSide
<1>4. Legal(t, t.then)
  BY <1>2 DEF Legal, Steps, Handler
<1>5. Sets(h, g)
  BY <1>1, <1>2, <1>4, GotoGoes
<1>6. thread'[h] = g /\ g.pc = t.then
  BY <1>2, <1>4, <1>5, SetsOne, GoneIs
<1>7. Appends(h)
  BY <1>1, <1>2, <1>4, <1>5 DEF Appends
<1>8. FirstReadHolds(t, reg) => FirstReadKept(h)
  BY <1>1, <1>4, <1>5, GoneReads
<1> HIDE DEF g
<1>9. DueKept(h)
  BY <1>1, <1>2, <1>6 DEF DueKept, RefreshDue
<1>10. OwedKept(h)
  <2>1. \A s : Owes(t, s) => Announces(t.event, s)
    BY <1>2 DEF Owes
  <2>2. QED
    BY <1>1, <2>1 DEF OwedKept
<1>11. QED
  BY <1>3, <1>7, <1>8, <1>9, <1>10 DEF Accounts, Shape

(* The summary is that of the table at this moment. *)
LEMMA RefreshAccounts ==
  ASSUME Sane, NEW h \in Threads, Refresh(h)
  PROVE  Accounts(h)
<1> DEFINE t  == thread[h]
           pc == IF KindOf(h) = "forget" THEN "forgotten" ELSE "idle"
           event == [kind |-> "producer_readiness_changed", source |-> t.src,
                     revision |-> reg.revision, reflects |-> None]
<1>1. /\ At(h, "refresh") /\ Goto(h, pc) /\ ready' = Readiness
      /\ jr' = IF ReadinessChanged THEN Appended(jr, event, Capacity) ELSE jr
      /\ reg' = reg /\ run' = run
      /\ requests' = requests /\ failed' = failed /\ ui' = ui /\ check' = check
  BY DEF Refresh
<1>2. /\ ThreadsOK /\ t \in Handler /\ LocalsOK(t) /\ t.pc = "refresh"
      /\ t.src \in Sources /\ reg \in Registry
  BY <1>1, SaneThreads DEF ThreadsOK, LocalsOK, At
<1>3. event \in Event
  BY <1>2 DEF Event, Registry
<1>4. event.revision = reg.revision /\ event.reflects = None
  OBVIOUS
<1> HIDE DEF event
<1>5. Legal(t, pc)
  BY <1>2 DEF Legal, Steps
<1>6. Sets(h, Gone(t, pc))
  BY <1>1, <1>2, <1>5, GotoGoes
<1>7. Shape(h)
  <2>1. CASE ReadinessChanged
    BY <1>1, <1>3, <1>4, <1>5, <1>6, <2>1 DEF Shape, Appends
  <2>2. CASE ~ReadinessChanged
    BY <1>1, <1>5, <1>6, <2>2 DEF Shape, Goes
  <2>3. QED
    BY <2>1, <2>2
<1>8. FirstReadHolds(t, reg) => FirstReadKept(h)
  BY <1>1, <1>5, <1>6, GoneReads
<1>9. Rows' = Rows /\ Readiness' = Readiness
  BY <1>1 DEF Readiness, Rows
<1>10. Readiness \in [sources : Nat, beats : Nat]
  <2>1. {s \in Rows : run[s].beat} \in SUBSET Rows
    OBVIOUS
  <2>2. IsFiniteSet({s \in Rows : run[s].beat})
    BY <2>1, SaneThreads, FS_Subset
  <2>3. /\ Cardinality(Rows) \in Nat
        /\ Cardinality({s \in Rows : run[s].beat}) \in Nat
    BY <2>2, SaneThreads, FS_CardinalityType
  <2>4. QED
    BY <2>3 DEF Readiness
<1>11. Side(h)
  BY <1>1, <1>9, <1>10, SaneThreads DEF Side
<1>12. SummaryIsCurrent'
  BY <1>1, <1>9 DEF SummaryIsCurrent
<1>13. OwedKept(h)
  <2>1. \A s : ~Owes(t, s)
    BY <1>2 DEF Owes
  <2>2. QED
    BY <1>1, <2>1 DEF OwedKept
<1>14. QED
  BY <1>7, <1>8, <1>11, <1>12, <1>13 DEF Accounts

-----------------------------------------------------------------------------
(* The invariants under a step of a handler *)

(* A later registry is ahead of whatever an earlier one was ahead of. *)
LEMMA StampsStayPast ==
  ASSUME NEW t \in Handler, LocalsOK(t), NEW r \in Nat, NEW q \in Nat, r <= q,
         StampsPast(t, r)
  PROVE  StampsPast(t, q)
<1>1. t.at # None => t.at \in Nat
  BY DEF Handler
<1>2. t.pc = "append" => t.event.revision \in Nat
  BY DEF LocalsOK, Event
<1>3. QED
  BY <1>1, <1>2 DEF StampsPast

(* Registry, journal and locals stay well-typed, and the registry grows. *)
LEMMA ShapeTypes ==
  ASSUME Sane, NEW h \in Threads, Shape(h)
  PROVE  ThreadsOK' /\ Grows(reg, reg') /\ jr' \in Journal
<1> DEFINE t == thread[h]
<1>1. ThreadsOK /\ t \in Handler /\ LocalsOK(t) /\ jr \in Journal
  BY SaneThreads DEF ThreadsOK
<1>2. Grows(reg, reg) /\ reg.revision \in Nat
  BY SaneThreads DEF Grows, Registry
<1>3. ASSUME NEW n \in Handler, LocalsOK(n), Sets(h, n)
      PROVE  ThreadsOK'
  <2>1. thread' \in [Threads -> Handler]
    BY <1>1, <1>3 DEF Sets, ThreadsOK
  <2>2. \A k \in Threads : LocalsOK(thread'[k])
    BY <1>1, <1>3, SetsOne DEF ThreadsOK
  <2>3. QED
    BY <2>1, <2>2 DEF ThreadsOK
<1>4. CASE Goes(h)
  BY <1>1, <1>2, <1>3, <1>4, GoneIs DEF Goes
<1>5. CASE Mutates(h)
  <2>1. PICK new, pc : /\ Legal(t, pc) /\ pc # "idle" /\ Grows(reg, new)
                       /\ Sets(h, Changed(t, reg, new, pc))
                       /\ reg' = new /\ jr' = jr
    BY <1>5 DEF Mutates
  <2>2. new \in Registry
    BY <2>1 DEF Grows
  <2>3. QED
    BY <1>1, <1>3, <2>1, <2>2, ChangedIs
<1>6. CASE Stamps(h)
  BY <1>1, <1>2, <1>3, <1>6, StampedIs DEF Stamps
<1>7. CASE Appends(h)
  <2>1. PICK event \in Event : /\ jr' = Appended(jr, event, Capacity) /\ reg' = reg
                                /\ \E pc : Legal(t, pc) /\ Sets(h, Gone(t, pc))
    BY <1>7 DEF Appends
  <2>2. PICK pc : Legal(t, pc) /\ Sets(h, Gone(t, pc))
    BY <2>1
  <2>3. QED
    BY <1>1, <1>2, <1>3, <2>1, <2>2, GoneIs, AppendedIs
<1>8. QED
  BY <1>4, <1>5, <1>6, <1>7 DEF Shape

(* What the handlers have yet to write stays behind the registry. *)
LEMMA ShapeStampsPast ==
  ASSUME Sane, NEW h \in Threads, Shape(h),
         \A k \in Threads : StampsPast(thread[k], reg.revision)
  PROVE  \A k \in Threads : StampsPast(thread'[k], reg'.revision)
<1> DEFINE t == thread[h]
<1>1. /\ ThreadsOK /\ t \in Handler /\ LocalsOK(t)
      /\ reg.revision \in Nat /\ reg'.revision \in Nat
      /\ reg.revision <= reg'.revision
  BY SaneThreads, ShapeTypes DEF ThreadsOK, Grows, Registry
<1>2. \A k \in Threads : StampsPast(thread[k], reg'.revision)
  BY <1>1, StampsStayPast DEF ThreadsOK
<1>3. ASSUME NEW n, Sets(h, n), StampsPast(n, reg'.revision)
      PROVE  \A k \in Threads : StampsPast(thread'[k], reg'.revision)
  BY <1>1, <1>2, <1>3, SetsOne
<1>4. CASE Goes(h) \/ Appends(h)
  <2>1. PICK pc : Legal(t, pc) /\ Sets(h, Gone(t, pc))
    BY <1>4 DEF Goes, Appends
  <2>2. QED
    BY <1>1, <1>2, <1>3, <2>1, GoneIs
<1>5. CASE Mutates(h)
  <2>1. PICK new, pc : /\ Legal(t, pc) /\ pc # "idle" /\ Grows(reg, new)
                       /\ Sets(h, Changed(t, reg, new, pc)) /\ reg' = new
    BY <1>5 DEF Mutates
  <2>2. new \in Registry
    BY <2>1 DEF Grows
  <2>3. QED
    BY <1>1, <1>3, <2>1, <2>2, ChangedIs
<1>6. CASE Stamps(h)
  BY <1>1, <1>3, <1>6, StampedIs DEF Stamps
<1>7. QED
  BY <1>4, <1>5, <1>6 DEF Shape

(* The journal either stays as it is, or gains one entry of the past. *)
LEMMA ShapeJournal ==
  ASSUME Sane, StampInv, NEW h \in Threads, Shape(h)
  PROVE  \/ jr' = jr
         \/ \E event \in Event :
              /\ jr' = Appended(jr, event, Capacity)
              /\ event.revision <= reg.revision
              /\ event.reflects # None => event.reflects <= event.revision
              /\ reg' = reg
<1>1. CASE Appends(h)
  <2>1. PICK event \in Event :
          /\ \/ At(h, "append") /\ event = thread[h].event
             \/ event.revision = reg.revision /\ event.reflects = None
          /\ jr' = Appended(jr, event, Capacity)
          /\ reg' = reg
    BY <1>1 DEF Appends
  <2>2. StampsPast(thread[h], reg.revision) /\ reg.revision \in Nat
    BY SaneThreads DEF StampInv, Registry
  <2>3. /\ event.revision <= reg.revision
        /\ event.reflects # None => event.reflects <= event.revision
    BY <2>1, <2>2 DEF StampsPast, At
  <2>4. QED
    BY <2>1, <2>3
<1>2. CASE ~Appends(h)
  BY <1>2 DEF Shape, Goes, Mutates, Stamps
<1>3. QED
  BY <1>1, <1>2

(* StampInv, CursorInv and the bootstrap. *)
LEMMA ShapeKeeps ==
  ASSUME Sane, StampInv, CursorInv, BootstrapCursorIsSafe,
         NEW h \in Threads, Shape(h), ui' = ui
  PROVE  StampInv' /\ CursorInv' /\ BootstrapCursorIsSafe'
<1>1. /\ reg.revision \in Nat /\ reg'.revision \in Nat /\ jr \in Journal
      /\ reg.revision <= reg'.revision
  BY SaneThreads, ShapeTypes DEF Grows, Registry
<1>2. /\ jr.high \in Nat /\ jr.next \in Nat /\ Len(jr.items) \in Nat
      /\ jr.high <= reg.revision
  BY <1>1 DEF Journal, StampInv, JournalNeverAhead
<1>3. \A k \in Threads : StampsPast(thread'[k], reg'.revision)
  BY ShapeStampsPast DEF StampInv
<1>4. /\ Retained = EntriesOf(jr) /\ Retained' = EntriesOf(jr')
  BY DEF Retained, EntriesOf
<1>5. CASE jr' = jr
  <2>1. Retained' = Retained
    BY <1>4, <1>5
  <2>2. jr'.high <= reg'.revision
    BY <1>1, <1>2, <1>5
  <2>3. StampInv'
    BY <1>3, <1>5, <2>1, <2>2 DEF StampInv, JournalNeverAhead, EventsAreNotBackdated
  <2>4. QED
    BY <1>5, <2>1, <2>3 DEF CursorInv, BootstrapCursorIsSafe
<1>6. CASE jr' # jr
  <2>1. PICK event \in Event :
          /\ jr' = Appended(jr, event, Capacity)
          /\ event.revision <= reg.revision
          /\ event.reflects # None => event.reflects <= event.revision
          /\ reg' = reg
    BY <1>6, ShapeJournal
  <2> DEFINE entry == [cursor |-> jr.next, event |-> event]
  <2>2. /\ jr'.next = jr.next + 1 /\ jr'.high = Larger(jr.high, event.revision)
        /\ Retained' \subseteq Retained \cup {entry}
        /\ Len(jr'.items) <= Len(jr.items) + 1 /\ jr' \in Journal
    BY <1>1, <1>4, <2>1, AppendedIs
  <2>3. entry.cursor = jr.next /\ entry.event = event
    OBVIOUS
  <2>4. event.revision \in Nat /\ Len(jr'.items) \in Nat
    BY <2>2 DEF Event, Journal
  <2> HIDE DEF entry
  <2>5. \A e \in Retained : e.event.revision \in Nat /\ e.cursor \in Nat
    BY <1>1, EntriesType
  <2>6. \A e \in Retained' : e.event.revision <= jr'.high
    BY <1>2, <2>2, <2>3, <2>4, <2>5 DEF StampInv, Larger
  <2>7. EventsAreNotBackdated'
    BY <2>1, <2>2, <2>3 DEF StampInv, EventsAreNotBackdated
  <2>8. JournalNeverAhead'
    BY <1>2, <2>1, <2>2, <2>4 DEF JournalNeverAhead, Larger
  <2>9. \A e \in Retained' : e.cursor < jr'.next
    BY <1>2, <2>2, <2>3, <2>5 DEF CursorInv
  <2>10. ui.phase # "none" => ui.cursor < jr.next /\ ui.cursor \in Nat
    BY DEF CursorInv, Sane, TypeOK
  <2>11. ui'.phase # "none" => ui'.cursor < jr'.next
    BY <1>2, <2>2, <2>10
  <2>12. Len(jr'.items) < jr'.next
    BY <1>2, <2>2, <2>4 DEF CursorInv
  <2>13. BootstrapCursorIsSafe'
    BY <2>2, <2>3, <2>10 DEF BootstrapCursorIsSafe
  <2>14. QED
    BY <1>3, <2>6, <2>7, <2>8, <2>9, <2>11, <2>12, <2>13 DEF StampInv, CursorInv
<1>7. QED
  BY <1>5, <1>6

(* While the journal has room an append keeps every entry. *)
LEMMA RetainedStay ==
  ASSUME Sane, CursorInv, NEW event \in Event, jr' = Appended(jr, event, Capacity),
         NothingEvicted'
  PROVE  /\ NothingEvicted /\ Retained \subseteq Retained'
         /\ \E e \in Retained' : e.event = event
<1> DEFINE entry == [cursor |-> jr.next, event |-> event]
<1>1. /\ jr \in Journal /\ jr.next \in Nat /\ Len(jr.items) \in Nat
      /\ Capacity \in Nat
  BY SaneThreads, ControlPlaneAssumption DEF Journal
<1>2. jr'.next = jr.next + 1
  BY <1>1, AppendedIs
<1>3. NothingEvicted /\ Len(jr.items) < Capacity
  BY <1>1, <1>2 DEF NothingEvicted, CursorInv
<1>4. Retained' = Retained \cup {entry}
  <2>1. EntriesOf(jr') = EntriesOf(jr) \cup {entry}
    BY <1>1, <1>3, AppendedIs
  <2>2. QED
    BY <2>1 DEF Retained, EntriesOf
<1>5. entry.event = event
  OBVIOUS
<1>6. QED
  BY <1>3, <1>4, <1>5

(* A step owes, keeps owing or pays the event of a registration. *)
LEMMA HandlerKeepsReports ==
  ASSUME Sane, StampInv, CursorInv, ReportInv, NEW h \in Threads, Accounts(h)
  PROVE  ReportInv'
<1>1. ThreadsOK /\ Shape(h) /\ (failed => failed') /\ failed' \in BOOLEAN
      /\ failed \in BOOLEAN
  BY SaneThreads DEF Accounts, Side
<1> SUFFICES ASSUME "forget" \notin Kinds
             PROVE  /\ \A k \in Threads : FirstReadHolds(thread'[k], reg')
                    /\ (~failed /\ NothingEvicted)' =>
                         \A s \in Sources : Contains(reg', s) => Accounted(s)'
  BY DEF ReportInv
<1>2. \A k \in Threads : FirstReadHolds(thread[k], reg)
  BY DEF ReportInv
<1>3. FirstReadKept(h) /\ (failed' \/ OwedKept(h))
  BY <1>2 DEF Accounts
<1>4. \A k \in Threads \ {h} : thread'[k] = thread[k]
  BY <1>1, SetsOne DEF Shape, Goes, Mutates, Stamps, Appends
<1>5. \A k \in Threads : FirstReadHolds(thread'[k], reg')
  <2> SUFFICES ASSUME NEW k \in Threads \ {h}
               PROVE  FirstReadHolds(thread'[k], reg')
    BY <1>3 DEF FirstReadKept
  <2>1. thread[k].pc # "idle" => thread[k].src \in Sources
    BY <1>1 DEF ThreadsOK, LocalsOK
  <2>2. FirstReadHolds(thread[k], reg')
    BY <1>2, <1>3, <2>1 DEF FirstReadHolds, FirstReadKept
  <2>3. QED
    BY <1>4, <2>2
<1>6. ASSUME ~failed', NothingEvicted', NEW s \in Sources, Contains(reg', s)
      PROVE  Accounted(s)'
  <2>1. ~failed /\ OwedKept(h)
    BY <1>1, <1>3, <1>6
  <2>2. NothingEvicted /\ Retained \subseteq Retained'
    <3>1. CASE jr' = jr
      BY <1>6, <3>1 DEF NothingEvicted, Retained
    <3>2. CASE jr' # jr
      BY <1>1, <1>6, <3>2, ShapeJournal, RetainedStay
    <3>3. QED
      BY <3>1, <3>2
  <2>3. CASE ~Contains(reg, s)
    BY <1>6, <2>1, <2>3 DEF OwedKept, Accounted
  <2>4. CASE Contains(reg, s)
    <3>1. \/ \E e \in Retained : Announces(e.event, s)
          \/ \E k \in Threads : Owes(thread[k], s)
      BY <2>1, <2>2, <2>4 DEF ReportInv, Accounted
    <3>2. CASE \E e \in Retained : Announces(e.event, s)
      BY <2>2, <3>2 DEF Accounted
    <3>3. CASE \E k \in Threads \ {h} : Owes(thread[k], s)
      BY <1>4, <3>3 DEF Accounted
    <3>4. CASE Owes(thread[h], s)
      <4>1. CASE Owes(thread'[h], s)
        BY <4>1 DEF Accounted
      <4>2. CASE /\ At(h, "append") /\ Announces(thread[h].event, s)
                 /\ jr' = Appended(jr, thread[h].event, Capacity)
        <5>1. thread[h].event \in Event
          BY <1>1, <4>2 DEF ThreadsOK, LocalsOK, At
        <5>2. QED
          BY <1>6, <4>2, <5>1, RetainedStay DEF Accounted
      <4>3. QED
        BY <2>1, <2>4, <3>4, <4>1, <4>2 DEF OwedKept
    <3>5. QED
      BY <3>1, <3>2, <3>3, <3>4
  <2>5. QED
    BY <2>3, <2>4
<1>7. QED
  BY <1>5, <1>6

(* A step keeps the summary current, or a refresh of it due. *)
LEMMA HandlerKeepsReady ==
  ASSUME Sane, ReadyInv, NEW h \in Threads, Accounts(h)
  PROVE  ReadyInv'
<1>1. ThreadsOK /\ (failed => failed')
  BY SaneThreads DEF Accounts, Side
<1>2. \A k \in Threads \ {h} : thread'[k] = thread[k]
  BY <1>1, SetsOne DEF Accounts, Shape, Goes, Mutates, Stamps, Appends
<1>3. CASE failed' \/ SummaryIsCurrent' \/ RefreshDue(thread'[h])
  BY <1>3 DEF ReadyInv
<1>4. CASE DueKept(h) /\ ~failed' /\ ~RefreshDue(thread'[h])
  <2>1. run' = run /\ ready' = ready /\ ~failed /\ ~RefreshDue(thread[h])
    BY <1>1, <1>4 DEF DueKept
  <2>2. SummaryIsCurrent' <=> SummaryIsCurrent
    BY <2>1 DEF SummaryIsCurrent, Readiness, Rows
  <2>3. SummaryIsCurrent \/ \E k \in Threads \ {h} : RefreshDue(thread[k])
    BY <2>1 DEF ReadyInv
  <2>4. QED
    BY <1>2, <2>2, <2>3 DEF ReadyInv
<1>5. QED
  BY <1>3, <1>4 DEF Accounts

(* A handler's step keeps the whole invariant. *)
LEMMA HandlerKeeps ==
  ASSUME PlaneInv, NEW h \in Threads, Accounts(h)
  PROVE  PlaneInv'
<1>1. Sane /\ Shape(h) /\ Side(h)
  BY DEF PlaneInv, Sane, Accounts
<1>2. ThreadsOK' /\ reg' \in Registry /\ jr' \in Journal
  BY <1>1, ShapeTypes DEF Grows
<1>3. TypeOK' /\ IsFiniteSet(Rows')
  BY <1>1, <1>2 DEF Side, ThreadsOK, TypeOK, Sane
<1>4. StampInv' /\ CursorInv' /\ BootstrapCursorIsSafe'
  BY <1>1, ShapeKeeps DEF PlaneInv, Side
<1>5. ReadyInv' /\ ReportInv'
  BY <1>1, HandlerKeepsReady, HandlerKeepsReports DEF PlaneInv
<1>6. QED
  BY <1>3, <1>4, <1>5 DEF PlaneInv

(* Each step of a handler accounts for what it does. *)
LEMMA HandlerStepAccounts ==
  ASSUME Sane, NEW h \in Threads, HandlerStep(h)
  PROVE  Accounts(h)
BY ObserveAccounts, RetireAccounts, RestoreAccounts, PatchAccounts,
   ForgetAccounts, RefusedAccounts, IngressAccounts, ResumeAccounts,
   CheckPresenceAccounts, ForgetSourceAccounts, EmitRegistrationAccounts,
   EmitRuntimeAccounts, EmitLifecycleAccounts, EmitPatchRegisteredAccounts,
   EmitPatchMetadataAccounts, EmitPatchControlAccounts, EmitForgottenAccounts,
   AppendEventAccounts, RefreshAccounts DEF HandlerStep

-----------------------------------------------------------------------------
(* The invariants under the other steps *)

(* A request arrives with nothing written, due or owed yet. *)
LEMMA RequestKeeps ==
  ASSUME PlaneInv, NEW h \in Threads, NEW kind \in Kinds, NEW s \in Sources,
         NEW arg \in Arguments(kind), Request(h, kind, s, arg)
  PROVE  PlaneInv'
<1> DEFINE t       == thread[h]
           pc      == FirstStep(kind, s)
           was     == Contains(reg, s)
           disc    == reg.discovery[s]
           row     == run[s]
           prev    == Get(reg, s)
           control == reg.control[s]
           new     == [Idle EXCEPT !.pc = pc, !.kind = kind, !.src = s,
                                   !.arg = arg, !.was = was, !.disc = disc,
                                   !.run = row, !.prev = prev,
                                   !.control = control]
<1>1. /\ t.pc = "idle" /\ FirstStep(kind, s) # "idle"
      /\ requests < MaxRequests /\ requests' = requests + 1
      /\ Sets(h, new)
      /\ reg' = reg /\ jr' = jr /\ run' = run /\ ready' = ready
      /\ failed' = failed /\ ui' = ui /\ check' = check
  BY DEF Request, At, Sets
<1>2. /\ Sane /\ ThreadsOK /\ t \in Handler /\ reg \in Registry
      /\ run \in [Sources -> Row \cup {None}]
  BY SaneThreads DEF PlaneInv, Sane, ThreadsOK
<1>3. FirstStep(kind, s) \in {"observe", "ingress", "presence", "mutate"}
  BY <1>1 DEF FirstStep
<1>4. FirstStep(kind, s) \in {"observe", "ingress"} =>
        kind \in {"heartbeat", "frame", "packet"}
  BY DEF FirstStep
<1>5. FirstStep(kind, s) = "observe" => kind # "packet"
  BY DEF FirstStep
<1>6. /\ Get(reg, s) \in Metadata /\ reg.control[s] \in Nat
      /\ reg.discovery[s] \in Discovery \cup {None} /\ run[s] \in Row \cup {None}
  BY <1>2, GetType DEF Registry
<1>7. Contains(reg, s) \in BOOLEAN
  BY DEF Contains
<1>8. arg \in AllArguments
  BY DEF AllArguments
<1>9. ~Contains(reg, s) => Get(reg, s) = DefaultMetadata
  BY DEF Contains, Get
<1>10. /\ new.pc = FirstStep(kind, s) /\ new.kind = kind /\ new.src = s
       /\ new.arg = arg /\ new.was = Contains(reg, s)
       /\ new.prev = Get(reg, s) /\ new.at = None
  BY DEF Idle
<1>11. new \in Handler
  <2>1. pc \in Steps
    BY <1>3 DEF Steps
  <2>2. /\ was \in BOOLEAN /\ disc \in Discovery \cup {None}
        /\ row \in Row \cup {None} /\ prev \in Metadata /\ control \in Nat
    BY <1>6, <1>7
  <2> HIDE DEF pc, was, disc, row, prev, control
  <2>3. Idle \in Handler
    BY DEF Idle, Handler, Steps
  <2>4. QED
    BY <1>8, <2>1, <2>2, <2>3 DEF Handler
<1> HIDE DEF new
<1>12. LocalsOK(new) /\ ~RefreshDue(new)
  BY <1>3, <1>4, <1>5, <1>10 DEF LocalsOK, RefreshDue
<1>13. StampsPast(new, reg.revision) /\ FirstReadHolds(new, reg)
  BY <1>3, <1>9, <1>10 DEF StampsPast, FirstReadHolds
<1>14. thread'[h] = new /\ \A k \in Threads \ {h} : thread'[k] = thread[k]
  BY <1>1, <1>2, SetsOne
<1>15. TypeOK'
  <2>1. thread' \in [Threads -> Handler]
    BY <1>1, <1>2, <1>11 DEF Sets, ThreadsOK
  <2>2. \A k \in Threads : LocalsOK(thread'[k])
    BY <1>2, <1>12, <1>14 DEF ThreadsOK
  <2>3. requests' \in 0 .. MaxRequests
    BY <1>1, ControlPlaneAssumption DEF PlaneInv, TypeOK
  <2>4. QED
    BY <1>1, <2>1, <2>2, <2>3 DEF PlaneInv, TypeOK
<1>16. StampInv'
  BY <1>1, <1>13, <1>14 DEF PlaneInv, StampInv, JournalNeverAhead,
                           EventsAreNotBackdated, Retained
<1>17. CursorInv' /\ BootstrapCursorIsSafe' /\ Rows' = Rows
  BY <1>1 DEF PlaneInv, CursorInv, BootstrapCursorIsSafe, Retained, Rows
<1>18. ReadyInv'
  <2>1. SummaryIsCurrent' <=> SummaryIsCurrent
    BY <1>1 DEF SummaryIsCurrent, Readiness, Rows
  <2>2. ~RefreshDue(t)
    BY <1>1 DEF RefreshDue
  <2>3. QED
    BY <1>1, <1>14, <2>1, <2>2 DEF PlaneInv, ReadyInv
<1>19. ReportInv'
  <2>1. \A x : ~Owes(t, x)
    BY <1>1 DEF Owes
  <2>2. Retained' = Retained /\ NothingEvicted' = NothingEvicted
    BY <1>1 DEF Retained, NothingEvicted
  <2>3. \A x \in Sources : Accounted(x) => Accounted(x)'
    BY <1>14, <2>1, <2>2 DEF Accounted
  <2>4. QED
    BY <1>1, <1>13, <1>14, <2>2, <2>3 DEF PlaneInv, ReportInv
<1>20. QED
  BY <1>15, <1>16, <1>17, <1>18, <1>19 DEF PlaneInv

(* Time passes for one source; nobody in the summary comes or goes. *)
LEMMA GoOfflineKeeps ==
  ASSUME PlaneInv, NEW s \in Sources, GoOffline(s)
  PROVE  PlaneInv'
<1>1. /\ run[s] # None /\ run' = [run EXCEPT ![s].online = FALSE]
      /\ reg' = reg /\ jr' = jr /\ thread' = thread /\ ready' = ready
      /\ requests' = requests /\ failed' = failed /\ ui' = ui /\ check' = check
  BY DEF GoOffline
<1>2. run \in [Sources -> Row \cup {None}]
  BY DEF PlaneInv, TypeOK
<1> DEFINE row == [run[s] EXCEPT !.online = FALSE]
<1>3. row \in Row /\ row.beat = run[s].beat
  BY <1>1, <1>2 DEF Row
<1>4. run' = [run EXCEPT ![s] = row]
  BY <1>1, <1>2
<1> HIDE DEF row
<1>5. row # None
  BY <1>3, ControlPlaneAssumption
<1>6. run' \in [Sources -> Row \cup {None}]
  BY <1>2, <1>3, <1>4
<1>7. Rows' = Rows /\ \A x \in Rows : run'[x].beat = run[x].beat
  BY <1>1, <1>2, <1>3, <1>4, <1>5 DEF Rows
<1>8. Readiness' = Readiness
  BY <1>7 DEF Readiness
<1>9. TypeOK'
  BY <1>1, <1>6 DEF PlaneInv, TypeOK
<1>10. StampInv' /\ CursorInv' /\ BootstrapCursorIsSafe'
  BY <1>1 DEF PlaneInv, StampInv, JournalNeverAhead, EventsAreNotBackdated,
              CursorInv, BootstrapCursorIsSafe, Retained
<1>11. ReadyInv'
  BY <1>1, <1>7, <1>8 DEF PlaneInv, ReadyInv, SummaryIsCurrent
<1>12. ReportInv'
  BY <1>1 DEF PlaneInv, ReportInv, Accounted, Retained, NothingEvicted
<1>13. QED
  BY <1>7, <1>9, <1>10, <1>11, <1>12 DEF PlaneInv

(* Only registry and journal survive a crash. *)
LEMMA CrashKeeps ==
  ASSUME PlaneInv, Crash
  PROVE  PlaneInv'
<1>1. /\ run' = [s \in Sources |-> None] /\ ready' = None
      /\ thread' = [h \in Threads |-> Idle]
      /\ ui' = (IF ui.phase = "cursor" THEN NoBootstrap ELSE ui)
      /\ check' = NoCheck /\ failed' = TRUE
      /\ reg' = reg /\ jr' = jr /\ requests' = requests
  BY DEF Crash
<1>2. Rows' = {}
  BY <1>1 DEF Rows
<1>3. IsFiniteSet(Rows')
  BY <1>2, FS_EmptySet
<1>4. Idle \in Handler /\ Idle.pc = "idle" /\ Idle.at = None
  BY DEF Idle, Handler, Steps
<1>5. \A h \in Threads : thread'[h] = Idle
  BY <1>1
<1>6. TypeOK'
  <2>1. thread' \in [Threads -> Handler] /\ \A h \in Threads : LocalsOK(thread'[h])
    BY <1>1, <1>4, <1>5 DEF LocalsOK
  <2>2. ui' \in [phase : {"none", "cursor", "snapshot"}, cursor : Nat, revision : Nat]
    BY <1>1 DEF NoBootstrap, PlaneInv, TypeOK
  <2>3. check' \in [status : {"none", "reading", "synced", "registry_ahead",
                              "journal_ahead"}, revision : Nat]
    BY <1>1 DEF NoCheck
  <2>4. QED
    BY <1>1, <2>1, <2>2, <2>3 DEF PlaneInv, TypeOK
<1>7. StampInv'
  <2>1. \A h \in Threads : StampsPast(thread'[h], reg.revision)
    BY <1>4, <1>5 DEF StampsPast
  <2>2. QED
    BY <1>1, <2>1 DEF PlaneInv, StampInv, JournalNeverAhead, EventsAreNotBackdated,
                      Retained
<1>8. CursorInv' /\ BootstrapCursorIsSafe'
  BY <1>1 DEF PlaneInv, CursorInv, BootstrapCursorIsSafe, Retained, NoBootstrap
<1>9. ReadyInv'
  BY <1>1 DEF ReadyInv
<1>10. ReportInv'
  <2>1. \A h \in Threads : FirstReadHolds(thread'[h], reg')
    BY <1>4, <1>5 DEF FirstReadHolds
  <2>2. QED
    BY <1>1, <2>1 DEF ReportInv
<1>11. QED
  BY <1>3, <1>6, <1>7, <1>8, <1>9, <1>10 DEF PlaneInv

(* The readers touch nothing of the service. *)
LEMMA ReaderKeeps ==
  ASSUME PlaneInv, UNCHANGED <<reg, jr, run, ready, thread, requests, failed>>,
         ui' \in [phase : {"none", "cursor", "snapshot"}, cursor : Nat, revision : Nat],
         ui'.phase # "none" => ui'.cursor < jr.next,
         BootstrapCursorIsSafe',
         check' \in [status : {"none", "reading", "synced", "registry_ahead",
                               "journal_ahead"}, revision : Nat]
  PROVE  PlaneInv'
<1>1. TypeOK'
  BY DEF PlaneInv, TypeOK
<1>2. Rows' = Rows /\ Readiness' = Readiness
  BY DEF Rows, Readiness
<1>3. StampInv' /\ CursorInv'
  BY DEF PlaneInv, StampInv, JournalNeverAhead, EventsAreNotBackdated, CursorInv,
         Retained
<1>4. ReadyInv'
  BY <1>2 DEF PlaneInv, ReadyInv, SummaryIsCurrent
<1>5. ReportInv'
  BY DEF PlaneInv, ReportInv, Accounted, Retained, NothingEvicted
<1>6. QED
  BY <1>1, <1>2, <1>3, <1>4, <1>5 DEF PlaneInv

(* A sampled cursor is below the next one. *)
LEMMA SampleCursorKeeps ==
  ASSUME PlaneInv, SampleCursor
  PROVE  PlaneInv'
<1>1. /\ ui' = [phase |-> "cursor", cursor |-> NewestCursor(jr), revision |-> 0]
      /\ UNCHANGED <<reg, jr, run, ready, thread, requests, failed>>
      /\ check' = check
  BY DEF SampleCursor
<1>2. jr \in Journal /\ CursorInv
  BY DEF PlaneInv, TypeOK
<1>3. NewestCursor(jr) \in Nat /\ NewestCursor(jr) < jr.next
  <2>1. jr.items \in Seq(Entry) /\ jr.next \in Nat /\ Len(jr.items) < jr.next
    BY <1>2 DEF Journal, Entry, CursorInv
  <2>2. CASE jr.items = <<>>
    BY <2>1, <2>2 DEF NewestCursor
  <2>3. CASE jr.items # <<>>
    <3>1. Len(jr.items) \in DOMAIN jr.items
      BY <2>1, <2>3
    <3>2. jr.items[Len(jr.items)] \in Retained
      BY <3>1 DEF Retained
    <3>3. jr.items[Len(jr.items)] \in Entry
      BY <2>1, <3>1
    <3>4. QED
      BY <1>2, <2>3, <3>2, <3>3 DEF NewestCursor, CursorInv, Entry
  <2>4. QED
    BY <2>2, <2>3
<1>4. BootstrapCursorIsSafe'
  BY <1>1 DEF BootstrapCursorIsSafe
<1>5. check' \in [status : {"none", "reading", "synced", "registry_ahead",
                            "journal_ahead"}, revision : Nat]
  BY <1>1 DEF PlaneInv, TypeOK
<1>6. QED
  BY <1>1, <1>3, <1>4, <1>5, ReaderKeeps

(* The snapshot contains every mutation that has an event so far. *)
LEMMA TakeSnapshotKeeps ==
  ASSUME PlaneInv, TakeSnapshot
  PROVE  PlaneInv'
<1>1. /\ ui.phase = "cursor"
      /\ ui' = [ui EXCEPT !.phase = "snapshot", !.revision = reg.revision]
      /\ UNCHANGED <<reg, jr, run, ready, thread, requests, failed>>
      /\ check' = check
  BY DEF TakeSnapshot
<1>2. /\ ui \in [phase : {"none", "cursor", "snapshot"}, cursor : Nat, revision : Nat]
      /\ reg.revision \in Nat /\ jr \in Journal
      /\ check' \in [status : {"none", "reading", "synced", "registry_ahead",
                               "journal_ahead"}, revision : Nat]
  BY <1>1 DEF PlaneInv, TypeOK, Registry
<1>3. /\ ui' \in [phase : {"none", "cursor", "snapshot"}, cursor : Nat, revision : Nat]
      /\ ui'.cursor = ui.cursor /\ ui'.revision = reg.revision
  BY <1>1, <1>2
<1>4. ui'.cursor < jr.next
  BY <1>1, <1>3 DEF PlaneInv, CursorInv
<1>5. ASSUME NEW e \in Retained, e.event.reflects # None
      PROVE  e.event.reflects <= reg.revision
  <2>1. e \in Entry
    BY <1>2, EntriesType
  <2>2. /\ e.event.reflects \in Nat /\ e.event.revision \in Nat /\ jr.high \in Nat
    BY <1>2, <1>5, <2>1 DEF Entry, Event, Journal
  <2>3. /\ e.event.reflects <= e.event.revision /\ e.event.revision <= jr.high
        /\ jr.high <= reg.revision
    BY <1>5 DEF PlaneInv, StampInv, EventsAreNotBackdated, JournalNeverAhead
  <2>4. QED
    BY <1>2, <2>2, <2>3
<1>6. \A e \in Retained : e.event.reflects # None => e.event.reflects \in Nat
  BY <1>2, EntriesType
<1>7. BootstrapCursorIsSafe'
  <2>1. Retained' = Retained
    BY <1>1 DEF Retained
  <2>2. QED
    BY <1>2, <1>3, <1>5, <1>6, <2>1 DEF BootstrapCursorIsSafe
<1>8. QED
  BY <1>1, <1>2, <1>3, <1>4, <1>7, ReaderKeeps

(* The consistency status only reads. *)
LEMMA CompareKeeps ==
  ASSUME PlaneInv, CompareRegistry \/ CompareJournal
  PROVE  PlaneInv'
<1>1. /\ UNCHANGED <<reg, jr, run, ready, thread, requests, failed>>
      /\ ui' = ui
  BY DEF CompareRegistry, CompareJournal
<1>2. /\ check \in [status : {"none", "reading", "synced", "registry_ahead",
                              "journal_ahead"}, revision : Nat]
      /\ reg.revision \in Nat
  BY DEF PlaneInv, TypeOK, Registry
<1>3. check' \in [status : {"none", "reading", "synced", "registry_ahead",
                            "journal_ahead"}, revision : Nat]
  BY <1>2 DEF CompareRegistry, CompareJournal, Status
<1>4. BootstrapCursorIsSafe'
  BY <1>1 DEF PlaneInv, BootstrapCursorIsSafe, Retained
<1>5. /\ ui' \in [phase : {"none", "cursor", "snapshot"}, cursor : Nat, revision : Nat]
      /\ ui'.phase # "none" => ui'.cursor < jr.next
  BY <1>1 DEF PlaneInv, TypeOK, CursorInv
<1>6. QED
  BY <1>1, <1>3, <1>4, <1>5, ReaderKeeps

-----------------------------------------------------------------------------
(* The theorems *)

(* Nothing is known, retained or under way at first. *)
LEMMA PlaneStarts ==
  ASSUME Init
  PROVE  PlaneInv
<1>1. /\ reg = EmptyRegistry /\ jr = EmptyJournal(1)
      /\ run = [s \in Sources |-> None] /\ ready = None
      /\ thread = [h \in Threads |-> Idle] /\ requests = 0 /\ failed = FALSE
      /\ ui = NoBootstrap /\ check = NoCheck
  BY DEF Init
<1>2. Rows = {}
  BY <1>1 DEF Rows
<1>3. IsFiniteSet(Rows)
  BY <1>2, FS_EmptySet
<1>4. /\ jr.items = <<>> /\ jr.next = 1 /\ jr.high = 0 /\ jr \in Journal
      /\ Retained = {}
  <2>1. jr = [stream |-> 1, items |-> <<>>, next |-> 1, high |-> 0]
    BY <1>1 DEF EmptyJournal
  <2>2. jr.items = <<>>
    BY <2>1
  <2>3. Retained = {}
    BY <2>2 DEF Retained
  <2>4. QED
    BY <2>1, <2>3 DEF Journal
<1>5. /\ reg \in Registry /\ reg.revision = 0
      /\ \A s \in Sources : ~Contains(reg, s)
  BY <1>1 DEF EmptyRegistry, Registry, Contains
<1>6. Idle \in Handler /\ Idle.pc = "idle" /\ Idle.at = None
  BY DEF Idle, Handler, Steps
<1>7. \A h \in Threads : thread[h] = Idle
  BY <1>1
<1>8. TypeOK
  <2>1. thread \in [Threads -> Handler] /\ \A h \in Threads : LocalsOK(thread[h])
    BY <1>1, <1>6, <1>7 DEF LocalsOK
  <2>2. /\ ui \in [phase : {"none", "cursor", "snapshot"}, cursor : Nat, revision : Nat]
        /\ check \in [status : {"none", "reading", "synced", "registry_ahead",
                                "journal_ahead"}, revision : Nat]
    BY <1>1 DEF NoBootstrap, NoCheck
  <2>3. requests \in 0 .. MaxRequests
    BY <1>1, ControlPlaneAssumption
  <2>4. QED
    BY <1>1, <1>4, <1>5, <2>1, <2>2, <2>3 DEF TypeOK
<1>9. StampInv
  BY <1>4, <1>5, <1>6, <1>7 DEF StampInv, StampsPast, JournalNeverAhead,
                               EventsAreNotBackdated
<1>10. CursorInv /\ BootstrapCursorIsSafe
  BY <1>1, <1>4 DEF CursorInv, BootstrapCursorIsSafe, NoBootstrap
<1>11. ReadyInv
  BY <1>1, <1>2 DEF ReadyInv, SummaryIsCurrent
<1>12. ReportInv
  BY <1>5, <1>6, <1>7 DEF ReportInv, FirstReadHolds
<1>13. QED
  BY <1>3, <1>8, <1>9, <1>10, <1>11, <1>12 DEF PlaneInv

(* A step of none of the variables. *)
LEMMA PlaneStutters ==
  ASSUME PlaneInv, UNCHANGED vars
  PROVE  PlaneInv'
<1>1. /\ UNCHANGED <<reg, jr, run, ready, thread, requests, failed>>
      /\ ui' = ui /\ check' = check
  BY DEF vars
<1>2. /\ ui' \in [phase : {"none", "cursor", "snapshot"}, cursor : Nat, revision : Nat]
      /\ check' \in [status : {"none", "reading", "synced", "registry_ahead",
                               "journal_ahead"}, revision : Nat]
      /\ ui'.phase # "none" => ui'.cursor < jr.next
  BY <1>1 DEF PlaneInv, TypeOK, CursorInv
<1>3. BootstrapCursorIsSafe'
  BY <1>1 DEF PlaneInv, BootstrapCursorIsSafe, Retained
<1>4. QED
  BY <1>1, <1>2, <1>3, ReaderKeeps

(* What the handlers have yet to do makes up for what they have not done:  *)
(* the invariant on which the theorems below rest.                         *)
THEOREM PlaneInvariant == Spec => []PlaneInv
<1>1. Init => PlaneInv
  BY PlaneStarts
<1>2. PlaneInv /\ [Next]_vars => PlaneInv'
  <2> SUFFICES ASSUME PlaneInv, [Next]_vars PROVE PlaneInv'
    OBVIOUS
  <2>1. Sane
    BY DEF PlaneInv, Sane
  <2>2. CASE \E h \in Threads, kind \in Kinds, s \in Sources :
               \E arg \in Arguments(kind) : Request(h, kind, s, arg)
    BY <2>2, RequestKeeps
  <2>3. CASE \E h \in Threads : HandlerStep(h) \/ Fails(h)
    BY <2>1, <2>3, HandlerStepAccounts, FailsAccounts, HandlerKeeps
  <2>4. CASE \E s \in Sources : GoOffline(s)
    BY <2>4, GoOfflineKeeps
  <2>5. CASE Crash
    BY <2>5, CrashKeeps
  <2>6. CASE SampleCursor
    BY <2>6, SampleCursorKeeps
  <2>7. CASE TakeSnapshot
    BY <2>7, TakeSnapshotKeeps
  <2>8. CASE CompareRegistry \/ CompareJournal
    BY <2>8, CompareKeeps
  <2>9. CASE UNCHANGED vars
    BY <2>9, PlaneStutters
  <2>10. QED
    BY <2>2, <2>3, <2>4, <2>5, <2>6, <2>7, <2>8, <2>9 DEF Next
<1>3. QED
  BY <1>1, <1>2, PTL DEF Spec

(* Registry, journal, runtime table, summary and the locals of every       *)
(* handler keep their types through failures and crashes.                  *)
THEOREM PlaneTypes == Spec => []TypeOK
<1>1. PlaneInv => TypeOK
  BY DEF PlaneInv
<1>2. QED
  BY <1>1, PlaneInvariant, PTL

(* No crash or failure between the two files leaves the journal with a     *)
(* revision the registry has not reached (api.py, append_sensor_change).   *)
THEOREM JournalStaysBehind == Spec => []JournalNeverAhead
<1>1. PlaneInv => JournalNeverAhead
  BY DEF PlaneInv, StampInv
<1>2. QED
  BY <1>1, PlaneInvariant, PTL

(* An event carries a revision no older than that of the mutation it       *)
(* reports, however many handlers mutate in between.                       *)
THEOREM EventsFollowTheirCause == Spec => []EventsAreNotBackdated
<1>1. PlaneInv => EventsAreNotBackdated
  BY DEF PlaneInv, StampInv
<1>2. QED
  BY <1>1, PlaneInvariant, PTL

(* A client that bootstraps and then polls is sent the event of every      *)
(* mutation its snapshot lacks (GET /sensors/bootstrap).                   *)
THEOREM SnapshotsMissNothing == Spec => []BootstrapCursorIsSafe
<1>1. PlaneInv => BootstrapCursorIsSafe
  BY DEF PlaneInv
<1>2. QED
  BY <1>1, PlaneInvariant, PTL

(* When no request is under way the readiness summary is that of the       *)
(* runtime table (producer_readiness_transition_state).                    *)
THEOREM SummaryCatchesUp == Spec => []ReadinessIsCurrentWhenQuiet
<1>1. PlaneInv => ReadinessIsCurrentWhenQuiet
  BY DEF PlaneInv, ReadyInv, ReadinessIsCurrentWhenQuiet, Quiet, At, RefreshDue,
         SummaryIsCurrent
<1>2. QED
  BY <1>1, PlaneInvariant, PTL

(* When no request is under way, nothing failed and nothing was forgotten, *)
(* every sensor the registry knows has its event in the journal, or the    *)
(* journal has evicted one (emit_registration_changes, PATCH, retire).     *)
THEOREM RegistrationsAreReported == Spec => []RegisteredIsReported
<1>1. PlaneInv => RegisteredIsReported
  BY DEF PlaneInv, ReportInv, RegisteredIsReported, Quiet, At, Owes, Accounted,
         Announces
<1>2. QED
  BY <1>1, PlaneInvariant, PTL
=============================================================================
