---------------------- MODULE SensorChangeJournalProofs ----------------------
(***************************************************************************)
(* The safety properties of SensorChangeJournal for every set of events,   *)
(* clients, capacities and page sizes, and without the bounds on events    *)
(* and streams.                                                            *)
(*                                                                         *)
(* The argument.  What memory and file must say of the committed events    *)
(* is one predicate, Holds, proved to survive an append and a load; the    *)
(* journal that is committed while an append is under way is the one its   *)
(* rollback would restore.  A response is described once, as a stretch of  *)
(* the committed events (BatchIsStretch), and the claims about clients     *)
(* follow from it.                                                         *)
(***************************************************************************)
EXTENDS SensorChangeJournal, SequenceTheorems, TLAPS

\* The entries are the newest of the events l, numbered from 1 without a hole.
IsWindow(items, l) ==
  /\ Len(items) <= Len(l)
  /\ l # <<>> => items # <<>>
  /\ \A i \in 1 .. Len(items) :
       items[i] = [cursor |-> Len(l) - Len(items) + i,
                   event  |-> l[Len(l) - Len(items) + i]]

\* The watermark is the largest revision of all events.
IsWatermark(high, l) ==
  /\ high = 0 \/ \E i \in 1 .. Len(l) : high = l[i].revision
  /\ \A i \in 1 .. Len(l) : l[i].revision <= high

Holds(j, l) ==
  j.next = Len(l) + 1 /\ IsWindow(j.items, l) /\ IsWatermark(j.high, l)

\* The journal as of the last committed event.
Committed == IF undo = None THEN mem ELSE RolledBack(mem, undo)

JournalInv ==
  /\ Holds(Committed, log)
  /\ Len(Committed.items) <= capacity
  /\ undo # None => mem = Appended(Committed, undo.event, capacity)
  /\ disk # None => Persistent /\ Holds(disk, log)

\* A stream id is never used twice.
StreamInv ==
  /\ mem.stream <= streams
  /\ disk # None => disk.stream = mem.stream
  /\ \A c \in Clients : client[c].stream <= streams

\* A client knows a prefix of the stream; a long poll waits at its end, or
\* has been notified that it has grown.
ClientInv(c) ==
  LET k == client[c]
  IN /\ k.phase = "waiting" => k.stream = mem.stream
     /\ k.notified <=> k.phase = "waiting" /\ k.cursor < Len(log)
     /\ k.stream = mem.stream =>
          /\ k.base <= k.cursor /\ k.cursor <= Len(log)
          /\ k.base # 0 => CaughtUpExactly(c)

JInv == TypeOK /\ JournalInv /\ StreamInv /\ \A c \in Clients : ClientInv(c)

-----------------------------------------------------------------------------
(* Appending and loading                                                   *)

(* Evicting leaves the newest entries, as many as the capacity allows. *)
LEMMA NewestProperties ==
  ASSUME NEW S, NEW items \in Seq(S), NEW cap \in Nat \ {0}
  PROVE  /\ Newest(items, cap) \in Seq(S)
         /\ Len(Newest(items, cap)) = Smaller(Len(items), cap)
         /\ \A i \in 1 .. Len(Newest(items, cap)) :
              Newest(items, cap)[i] =
                items[Len(items) - Len(Newest(items, cap)) + i]
<1> DEFINE first == Larger(1, Len(items) - cap + 1)
<1>1. first \in 1 .. Len(items) + 1
  BY DEF Larger
<1>2. \A i \in first .. Len(items) : items[i] \in S
  BY <1>1
<1>3. /\ SubSeq(items, first, Len(items)) \in Seq(S)
      /\ Len(SubSeq(items, first, Len(items))) = Len(items) - first + 1
      /\ \A i \in 1 .. Len(items) - first + 1 :
           SubSeq(items, first, Len(items))[i] = items[first + i - 1]
  <2> HIDE DEF first
  <2>1. first \in Int /\ Len(items) \in Int
    BY <1>1
  <2>2. QED
    BY <1>1, <1>2, <2>1, SubSeqProperties
<1>4. Len(items) - first + 1 = Smaller(Len(items), cap)
  BY DEF Larger, Smaller
<1>5. QED
  BY <1>1, <1>3, <1>4 DEF Newest

(* The fields of a window's entries. *)
LEMMA WindowEntry ==
  ASSUME NEW items, NEW l, IsWindow(items, l), NEW i \in 1 .. Len(items)
  PROVE  /\ items[i].cursor = Len(l) - Len(items) + i
         /\ items[i].event = l[Len(l) - Len(items) + i]
<1>1. items[i] = [cursor |-> Len(l) - Len(items) + i,
                  event  |-> l[Len(l) - Len(items) + i]]
  BY DEF IsWindow
<1>2. QED
  BY <1>1

(* The newest of a window of events is a window of the same events. *)
LEMMA NewestIsWindow ==
  ASSUME NEW items \in Seq(Entry), NEW l \in Seq(Events),
         NEW cap \in Nat \ {0}, IsWindow(items, l)
  PROVE  IsWindow(Newest(items, cap), l)
<1> DEFINE new == Newest(items, cap)
<1>1. /\ new \in Seq(Entry)
      /\ Len(new) = Smaller(Len(items), cap)
      /\ \A i \in 1 .. Len(new) : new[i] = items[Len(items) - Len(new) + i]
  BY NewestProperties
<1> HIDE DEF new
<1>2. Len(new) <= Len(items) /\ Len(items) <= Len(l)
  BY <1>1 DEF Smaller, IsWindow
<1>3. l # <<>> => new # <<>>
  BY <1>1 DEF Smaller, IsWindow
<1>4. ASSUME NEW i \in 1 .. Len(new)
      PROVE  new[i] = [cursor |-> Len(l) - Len(new) + i,
                       event  |-> l[Len(l) - Len(new) + i]]
  <2> DEFINE a == Len(items) - Len(new) + i
  <2>1. a \in 1 .. Len(items) /\ Len(l) - Len(items) + a = Len(l) - Len(new) + i
    BY <1>1, <1>2
  <2>2. new[i] = items[a]
    BY <1>1
  <2>3. QED
    BY <2>1, <2>2 DEF IsWindow
<1>5. QED
  BY <1>1, <1>2, <1>3, <1>4 DEF IsWindow, new

(* Numbering a new event with the next cursor extends the window by it. *)
LEMMA AppendIsWindow ==
  ASSUME NEW items \in Seq(Entry), NEW l \in Seq(Events), NEW e \in Events,
         IsWindow(items, l)
  PROVE  IsWindow(Append(items, [cursor |-> Len(l) + 1, event |-> e]),
                  Append(l, e))
<1> DEFINE new == [cursor |-> Len(l) + 1, event |-> e]
           all == Append(items, new)
           l1  == Append(l, e)
<1>1. new \in Entry
  BY DEF Entry
<1>2. /\ all \in Seq(Entry) /\ Len(all) = Len(items) + 1
      /\ all[Len(items) + 1] = new
      /\ \A i \in 1 .. Len(items) : all[i] = items[i]
  BY <1>1
<1>3. /\ l1 \in Seq(Events) /\ Len(l1) = Len(l) + 1 /\ l1[Len(l) + 1] = e
      /\ \A i \in 1 .. Len(l) : l1[i] = l[i]
  OBVIOUS
<1> HIDE DEF all, l1
<1>4. Len(items) <= Len(l)
  BY DEF IsWindow
<1>5. ASSUME NEW i \in 1 .. Len(all)
      PROVE  all[i] = [cursor |-> Len(l1) - Len(all) + i,
                       event  |-> l1[Len(l1) - Len(all) + i]]
  <2>1. Len(l1) - Len(all) + i = Len(l) - Len(items) + i
    BY <1>2, <1>3
  <2>2. CASE i = Len(items) + 1
    BY <1>2, <1>3, <1>4, <2>1, <2>2
  <2>3. CASE i # Len(items) + 1
    <3>1. i \in 1 .. Len(items) /\ Len(l) - Len(items) + i \in 1 .. Len(l)
      BY <1>2, <1>4, <2>3
    <3>2. QED
      BY <1>2, <1>3, <2>1, <3>1 DEF IsWindow
  <2>4. QED
    BY <2>2, <2>3
<1>6. all # <<>> /\ Len(all) <= Len(l1)
  BY <1>2, <1>3, <1>4
<1>7. QED
  BY <1>5, <1>6 DEF IsWindow, all, l1

(* The watermark of one more event. *)
LEMMA AppendIsWatermark ==
  ASSUME NEW high \in Nat, NEW l \in Seq(Events), NEW e \in Events,
         IsWatermark(high, l)
  PROVE  IsWatermark(Larger(high, e.revision), Append(l, e))
<1> DEFINE l1 == Append(l, e)
           r  == e.revision
<1>1. /\ Len(l1) = Len(l) + 1 /\ l1[Len(l) + 1] = e /\ Len(l) \in Nat
      /\ \A i \in 1 .. Len(l) : l1[i] = l[i]
  OBVIOUS
<1>2. r \in Nat /\ \A i \in 1 .. Len(l) : l[i].revision \in Nat
  BY JournalAssumption
<1>3. l1[Len(l) + 1].revision = r
  BY <1>1
<1> HIDE DEF l1, r
<1>4. \A i \in 1 .. Len(l1) : l1[i].revision <= Larger(high, r)
  BY <1>1, <1>2, <1>3 DEF IsWatermark, Larger
<1>5. \/ Larger(high, r) = 0
      \/ \E i \in 1 .. Len(l1) : Larger(high, r) = l1[i].revision
  BY <1>1, <1>2, <1>3 DEF IsWatermark, Larger
<1>6. QED
  BY <1>4, <1>5 DEF IsWatermark, l1, r

(* An append keeps what the journal says of the events, now of one more. *)
LEMMA AppendedHolds ==
  ASSUME NEW j \in Stored, NEW l \in Seq(Events), NEW e \in Events,
         NEW cap \in Capacities, Holds(j, l)
  PROVE  /\ Appended(j, e, cap) \in Stored
         /\ Holds(Appended(j, e, cap), Append(l, e))
         /\ Len(Appended(j, e, cap).items) <= cap
<1> DEFINE all == Append(j.items, [cursor |-> j.next, event |-> e])
<1>1. cap \in Nat \ {0} /\ e.revision \in Nat
  BY JournalAssumption
<1>2. /\ j.items \in Seq(Entry) /\ j.next \in Nat /\ j.high \in Nat
      /\ j.stream \in Nat
  BY DEF Stored
<1>3. [cursor |-> j.next, event |-> e] \in Entry
  BY <1>2 DEF Entry
<1>4. all \in Seq(Entry)
  BY <1>2, <1>3
<1>5. IsWindow(all, Append(l, e))
  BY <1>2, AppendIsWindow DEF Holds
<1> HIDE DEF all
<1>6. /\ Newest(all, cap) \in Seq(Entry)
      /\ Len(Newest(all, cap)) <= cap
      /\ IsWindow(Newest(all, cap), Append(l, e))
  <2>1. Len(all) \in Nat /\ Append(l, e) \in Seq(Events)
    BY <1>4
  <2>2. Newest(all, cap) \in Seq(Entry) /\ Len(Newest(all, cap)) <= cap
    BY <1>1, <1>4, <2>1, NewestProperties DEF Smaller
  <2>3. QED
    BY <1>1, <1>4, <1>5, <2>1, <2>2, NewestIsWindow
<1>7. IsWatermark(Larger(j.high, e.revision), Append(l, e))
  BY <1>2, AppendIsWatermark DEF Holds
<1>8. j.next + 1 = Len(Append(l, e)) + 1
  BY <1>2 DEF Holds
<1>9. Appended(j, e, cap) = [stream |-> j.stream, items |-> Newest(all, cap),
                             next |-> j.next + 1,
                             high |-> Larger(j.high, e.revision)]
  BY DEF Appended, all
<1>10. Larger(j.high, e.revision) \in Nat
  BY <1>1, <1>2 DEF Larger
<1>11. QED
  BY <1>2, <1>6, <1>7, <1>8, <1>9, <1>10 DEF Holds, Stored

(* The maximum of a set, by what makes it one. *)
LEMMA MaxIs ==
  ASSUME NEW S \in SUBSET Nat, NEW m \in S, \A x \in S : m >= x
  PROVE  Max(S) = m
<1> DEFINE Tops(x) == \A y \in S : x >= y
<1>1. Tops(m)
  OBVIOUS
<1>2. \A x \in S : Tops(x) => x = m
  <2>1. SUFFICES ASSUME NEW x \in S, Tops(x) PROVE x = m
    OBVIOUS
  <2>2. x >= m /\ m >= x /\ x \in Nat /\ m \in Nat
    BY <2>1
  <2>3. QED
    BY <2>2
<1> HIDE DEF Tops
<1>3. (CHOOSE x \in S : Tops(x)) = m
  BY <1>1, <1>2
<1>4. QED
  BY <1>3 DEF Max, Tops

(* A load keeps what the file says of the events. *)
LEMMA LoadedHolds ==
  ASSUME NEW j \in Stored, NEW l \in Seq(Events), NEW cap \in Capacities,
         Holds(j, l)
  PROVE  /\ Loaded(j, cap) \in Stored
         /\ Loaded(j, cap).stream = j.stream
         /\ Holds(Loaded(j, cap), l)
         /\ Len(Loaded(j, cap).items) <= cap
<1> DEFINE items == j.items
           revisions == {items[i].event.revision : i \in DOMAIN items}
<1>1. cap \in Nat \ {0}
  BY JournalAssumption
<1>2. /\ items \in Seq(Entry) /\ j.next \in Nat /\ j.high \in Nat
      /\ j.stream \in Nat
  BY DEF Stored
<1>3. IsWindow(items, l) /\ IsWatermark(j.high, l)
  BY DEF Holds
<1> HIDE DEF items
<1>4. ASSUME NEW i \in DOMAIN items
      PROVE  items[i].event.revision \in Nat /\ items[i].event.revision <= j.high
  <2>1. i \in 1 .. Len(items)
    BY <1>2
  <2>2. Len(l) - Len(items) + i \in 1 .. Len(l)
    BY <1>2, <1>3, <2>1 DEF IsWindow
  <2>3. items[i].event = l[Len(l) - Len(items) + i]
    BY <1>3, <2>1, WindowEntry
  <2>4. QED
    BY <1>3, <2>2, <2>3, JournalAssumption DEF IsWatermark
<1>5. Max({j.high} \cup revisions) = j.high
  <2>1. /\ {j.high} \cup revisions \in SUBSET Nat
        /\ \A x \in {j.high} \cup revisions : j.high >= x
    BY <1>2, <1>4
  <2>2. QED
    BY <2>1, MaxIs
<1>6. Loaded(j, cap) = [stream |-> j.stream, items |-> Newest(items, cap),
                        next |-> j.next, high |-> j.high]
  <2>1. j = [stream |-> j.stream, items |-> items, next |-> j.next,
             high |-> j.high]
    BY DEF Stored, items
  <2>2. Loaded(j, cap) = [j EXCEPT !.items = Newest(items, cap),
                                   !.high = j.high]
    BY <1>5 DEF Loaded, items
  <2>3. QED
    BY <2>1, <2>2
<1>7. /\ Newest(items, cap) \in Seq(Entry)
      /\ Len(Newest(items, cap)) <= cap
      /\ IsWindow(Newest(items, cap), l)
  <2>1. Len(items) \in Nat
    BY <1>2
  <2>2. Newest(items, cap) \in Seq(Entry) /\ Len(Newest(items, cap)) <= cap
    BY <1>1, <1>2, <2>1, NewestProperties DEF Smaller
  <2>3. QED
    BY <1>1, <1>2, <1>3, <2>2, NewestIsWindow
<1>8. QED
  BY <1>2, <1>3, <1>6, <1>7 DEF Holds, Stored

-----------------------------------------------------------------------------
(* Reading                                                                 *)

(* In a window the entries up to a cursor are counted by arithmetic. *)
LEMMA UpToIs ==
  ASSUME NEW items \in Seq(Entry), NEW l \in Seq(Events), IsWindow(items, l),
         NEW cursor \in Nat, NEW n \in 0 .. Len(items),
         \/ n = cursor - (Len(l) - Len(items))
         \/ n = 0 /\ cursor <= Len(l) - Len(items)
  PROVE  UpTo(items, cursor) = n
<1> DEFINE P(k) == \A i \in DOMAIN items : items[i].cursor <= cursor <=> i <= k
<1>1. /\ Len(items) \in Nat /\ Len(l) \in Nat
      /\ DOMAIN items = 1 .. Len(items)
  OBVIOUS
<1>2. \A i \in 1 .. Len(items) : items[i].cursor = Len(l) - Len(items) + i
  BY WindowEntry
<1>3. P(n)
  BY <1>1, <1>2
<1>4. \A k \in 0 .. Len(items) : P(k) => k = n
  <2>1. SUFFICES ASSUME NEW k \in 0 .. Len(items), P(k), k # n
                 PROVE  FALSE
    OBVIOUS
  <2>2. CASE k < n
    <3>1. n \in DOMAIN items /\ n <= n
      BY <1>1, <2>2
    <3>2. QED
      BY <1>1, <1>3, <2>1, <2>2, <3>1
  <2>3. CASE n < k
    <3>1. k \in DOMAIN items /\ k <= k
      BY <1>1, <2>3
    <3>2. QED
      BY <1>1, <1>3, <2>1, <2>3, <3>1
  <2>4. QED
    BY <1>1, <2>1, <2>2, <2>3
<1> HIDE DEF P
<1>5. (CHOOSE k \in 0 .. Len(items) : P(k)) = n
  BY <1>3, <1>4
<1>6. QED
  BY <1>5 DEF UpTo, P

\* The entries carry the events of l after number from, up to number to.
Carries(entries, l, from, to) ==
  /\ entries \in Seq(Entry)
  /\ Len(entries) = to - from
  /\ EventsOf(entries) = SubSeq(l, from + 1, to)
  /\ entries # <<>> => /\ entries[1].cursor = from + 1
                       /\ entries[Len(entries)].cursor = to

(* A stretch of a window's entries carries a stretch of the events. *)
LEMMA StretchOfWindow ==
  ASSUME NEW items \in Seq(Entry), NEW l \in Seq(Events), IsWindow(items, l),
         NEW read \in 0 .. Len(items), NEW last \in read .. Len(items)
  PROVE  Carries(SubSeq(items, read + 1, last), l,
                 Len(l) - Len(items) + read, Len(l) - Len(items) + last)
<1> DEFINE first == Len(l) - Len(items)
           from  == first + read
           to    == first + last
           part  == SubSeq(items, read + 1, last)
           told  == SubSeq(l, from + 1, to)
<1>1. /\ Len(items) \in Nat /\ Len(l) \in Nat
      /\ read \in Nat /\ last \in Nat /\ read <= last /\ last <= Len(items)
  OBVIOUS
<1>2. first \in Nat /\ Len(l) = first + Len(items)
  BY <1>1 DEF IsWindow
<1>3. /\ from \in Nat /\ to \in Nat /\ from <= to /\ to <= Len(l)
      /\ to - from = last - read
  BY <1>1, <1>2
<1>4. /\ part \in Seq(Entry) /\ Len(part) = last - read
      /\ \A i \in 1 .. last - read : part[i] = items[read + i]
  <2>1. read + 1 \in Int /\ last \in Int
    BY <1>1
  <2>2. \A i \in read + 1 .. last : items[i] \in Entry
    BY <1>1
  <2>3. /\ part \in Seq(Entry)
        /\ Len(part) = IF read + 1 <= last THEN last - (read + 1) + 1 ELSE 0
        /\ \A i \in 1 .. last - (read + 1) + 1 : part[i] = items[(read + 1) + i - 1]
    BY <2>1, <2>2, SubSeqProperties
  <2>4. QED
    BY <1>1, <2>3
<1> HIDE DEF from, to
<1>5. /\ told \in Seq(Events) /\ Len(told) = to - from
      /\ \A i \in 1 .. to - from : told[i] = l[from + i]
  <2>1. from + 1 \in Int /\ to \in Int
    BY <1>3
  <2>2. \A i \in from + 1 .. to : l[i] \in Events
    BY <1>1, <1>3
  <2>3. /\ told \in Seq(Events)
        /\ Len(told) = IF from + 1 <= to THEN to - (from + 1) + 1 ELSE 0
        /\ \A i \in 1 .. to - (from + 1) + 1 : told[i] = l[(from + 1) + i - 1]
    BY <2>1, <2>2, SubSeqProperties
  <2>4. QED
    BY <1>3, <2>3
<1> HIDE DEF part, told
<1>6. ASSUME NEW i \in 1 .. to - from
      PROVE  part[i].cursor = from + i /\ part[i].event = told[i]
  <2>1. i \in 1 .. last - read /\ read + i \in 1 .. Len(items)
    BY <1>1, <1>3
  <2>2. /\ items[read + i].cursor = Len(l) - Len(items) + (read + i)
        /\ items[read + i].event = l[Len(l) - Len(items) + (read + i)]
    BY <2>1, WindowEntry
  <2>3. Len(l) - Len(items) + (read + i) = from + i
    BY <1>1, <1>2 DEF from
  <2>4. QED
    BY <1>4, <1>5, <2>1, <2>2, <2>3
<1>7. EventsOf(part) = told
  <2>1. DOMAIN part = 1 .. to - from
    BY <1>3, <1>4
  <2>2. EventsOf(part) = [i \in 1 .. to - from |-> told[i]]
    BY <1>6, <2>1 DEF EventsOf
  <2>3. told = [i \in 1 .. to - from |-> told[i]]
    BY <1>5
  <2>4. QED
    BY <2>2, <2>3
<1>8. part # <<>> => part[1].cursor = from + 1 /\ part[Len(part)].cursor = to
  <2>1. SUFFICES ASSUME part # <<>>
                 PROVE  /\ part[1].cursor = from + 1
                        /\ part[to - from].cursor = to
    BY <1>3, <1>4
  <2>2. to - from # 0
    BY <1>3, <1>4, <2>1
  <2>3. /\ 1 \in 1 .. to - from /\ to - from \in 1 .. to - from
        /\ from + (to - from) = to
    BY <1>3, <2>2
  <2>4. part[to - from].cursor = from + (to - from)
    BY <1>6, <2>3
  <2>5. QED
    BY <1>6, <2>3, <2>4
<1>9. Carries(part, l, from, to)
  BY <1>3, <1>4, <1>5, <1>7, <1>8 DEF Carries, told
<1>10. QED
  BY <1>9 DEF part, from, to

(* What a response to a client of this stream says: a stretch of the       *)
(* committed events, empty only for a client that has them all, starting   *)
(* where the client is unless it reports a gap or the client asks from 0.  *)
IsStretch(batch, l, after, from, to) ==
  /\ ~batch.reset
  /\ Carries(batch.entries, l, from, to)
  /\ batch.next = to
  /\ batch.entries # <<>> <=> after < Len(l)
  /\ batch.gap => batch.entries # <<>> /\ after < from
  /\ ~batch.gap /\ after # 0 => from = after

(* What a poll hands out is the next stretch of the stream after the       *)
(* client's cursor, or after what has been evicted if that is later.       *)
LEMMA BatchIsStretch ==
  ASSUME NEW j \in Stored, NEW l \in Seq(Events), Holds(j, l),
         NEW after \in 0 .. Len(l), NEW limit \in Nat \ {0}
  PROVE  \E from \in after .. Len(l) : \E to \in from .. Len(l) :
           IsStretch(Batch(j, after, limit, j.stream), l, after, from, to)
<1> DEFINE items == j.items
           m     == Len(items)
           n     == Len(l)
           first == n - m
           from  == IF after < first THEN first ELSE after
           read  == from - first
           last  == Smaller(read + limit, m)
           part  == SubSeq(items, read + 1, last)
<1>1. items \in Seq(Entry) /\ IsWindow(items, l)
  BY DEF Stored, Holds
<1>2. m \in Nat /\ n \in Nat /\ m <= n /\ (n # 0 => m # 0)
  BY <1>1 DEF IsWindow
<1>3. items # <<>> <=> m # 0
  BY <1>1
<1>4. Oldest(j) = IF m = 0 THEN 0 ELSE first + 1
  <2>1. CASE m = 0
    BY <1>3, <2>1 DEF Oldest
  <2>2. CASE m # 0
    <3>1. 1 \in 1 .. Len(items)
      BY <1>2, <2>2
    <3>2. items[1].cursor = Len(l) - Len(items) + 1
      BY <1>1, <3>1, WindowEntry
    <3>3. QED
      BY <1>3, <2>2, <3>2 DEF Oldest
  <2>3. QED
    BY <2>1, <2>2
<1>5. Gap(j, after) <=> after # 0 /\ after < first
  <2>1. Gap(j, after) <=> m # 0 /\ after # 0 /\ after < Oldest(j) - 1
    BY <1>3 DEF Gap
  <2> HIDE DEF m, n
  <2>2. after \in Nat /\ after <= n
    BY <1>2 DEF n
  <2>3. QED
    BY <1>2, <1>4, <2>1, <2>2
<1>6. /\ first \in Nat /\ from \in after .. n /\ read \in 0 .. m
      /\ last \in read .. m /\ after \in Nat
      /\ last # read <=> after < n
      /\ first + read = from
      /\ first + last \in from .. n
      /\ after < first => read = 0
      /\ ~(after < first) => from = after
  <2>1. after \in Nat /\ after <= n
    BY <1>2
  <2> HIDE DEF m, n
  <2>2. QED
    BY <1>2, <2>1 DEF Smaller
<1>7. After(j, after, limit) = part
  <2> DEFINE start == IF Gap(j, after) THEN Oldest(j) - 1 ELSE after
  <2>1. start = IF after # 0 /\ after < first THEN first ELSE after
    <3> HIDE DEF m, n
    <3>1. QED
      BY <1>2, <1>4, <1>5, <1>6
  <2>2. start \in Nat
    BY <1>6, <2>1
  <2>3. \/ read = start - (Len(l) - Len(items))
        \/ read = 0 /\ start <= Len(l) - Len(items)
    <3>1. Len(l) - Len(items) = first
      OBVIOUS
    <3>2. read = start - first \/ (read = 0 /\ start <= first)
      <4>1. read = from - first
        OBVIOUS
      <4>2. first \in Nat /\ after \in Nat
        BY <1>6
      <4>3. /\ after < first => read = 0
            /\ ~(after < first) => from = after
        BY <1>6
      <4> HIDE DEF start, first, items, m, n, read, from
      <4>4. CASE after < first
        BY <2>1, <4>2, <4>3, <4>4
      <4>5. CASE ~(after < first)
        BY <2>1, <4>1, <4>2, <4>3, <4>5
      <4>6. QED
        BY <4>4, <4>5
    <3>3. QED
      BY <3>1, <3>2
  <2> HIDE DEF start, read
  <2>4. UpTo(items, start) = read
    BY <1>1, <1>6, <2>2, <2>3, UpToIs
  <2>5. QED
    BY <2>4 DEF After, start
<1> HIDE DEF read, last, part
<1>8. Carries(part, l, from, first + last)
  <2>1. read \in 0 .. Len(items) /\ last \in read .. Len(items)
    BY <1>6
  <2>2. Carries(SubSeq(items, read + 1, last), l,
                Len(l) - Len(items) + read, Len(l) - Len(items) + last)
    BY <1>1, <2>1, StretchOfWindow
  <2>3. QED
    BY <1>6, <2>2 DEF part
<1>9. part # <<>> <=> last # read
  <2>1. part \in Seq(Entry) /\ Len(part) = (first + last) - from
    BY <1>8 DEF Carries
  <2>2. (first + last) - from = 0 <=> last = read
    <3> HIDE DEF from, first, m, n
    <3>1. QED
      BY <1>2, <1>6
  <2>3. QED
    BY <2>1, <2>2
<1> DEFINE batch == Batch(j, after, limit, j.stream)
<1>10. batch = [entries |-> part,
                next    |-> IF part # <<>> THEN part[Len(part)].cursor ELSE after,
                gap     |-> Gap(j, after),
                reset   |-> FALSE]
  BY <1>7 DEF Batch
<1>11. batch.next = first + last
  <2>1. CASE last # read
    BY <1>8, <1>9, <1>10, <2>1 DEF Carries
  <2>2. CASE last = read
    <3>1. first + last = from /\ after = n
      <4> HIDE DEF first, from, m, n
      <4>1. QED
        BY <1>2, <1>6, <2>2
    <3>2. from = after
      BY <1>2, <1>6, <3>1
    <3>3. QED
      BY <1>9, <1>10, <2>2, <3>1, <3>2
  <2>3. QED
    BY <2>1, <2>2
<1>12. Gap(j, after) => last # read /\ after < from
  BY <1>2, <1>5, <1>6
<1>13. ~Gap(j, after) /\ after # 0 => from = after
  BY <1>5, <1>6
<1> HIDE DEF batch
<1>14. IsStretch(batch, l, after, from, first + last)
  BY <1>6, <1>8, <1>9, <1>10, <1>11, <1>12, <1>13 DEF IsStretch
<1>15. QED
  BY <1>6, <1>14 DEF batch

(* There is something to return exactly when the client is of another      *)
(* stream or not at the end of this one.                                   *)
LEMMA WorthReturningIs ==
  ASSUME NEW j \in Stored, NEW l \in Seq(Events), Holds(j, l),
         NEW after \in Nat, NEW limit \in Nat \ {0}, NEW stream,
         stream = j.stream => after <= Len(l)
  PROVE  WorthReturning(Batch(j, after, limit, stream)) <=>
           stream # j.stream \/ after < Len(l)
<1> DEFINE batch == Batch(j, after, limit, stream)
<1>1. CASE stream # j.stream
  BY <1>1 DEF Batch, WorthReturning
<1>2. CASE stream = j.stream
  <2>1. after \in 0 .. Len(l)
    BY <1>2
  <2>2. PICK from, to : IsStretch(batch, l, after, from, to)
    BY <1>2, <2>1, BatchIsStretch
  <2> HIDE DEF batch
  <2>3. QED
    BY <1>2, <2>2 DEF IsStretch, WorthReturning, batch
<1>3. QED
  BY <1>1, <1>2

(* Appending to the events changes no stretch of the earlier ones. *)
LEMMA SubSeqOfAppend ==
  ASSUME NEW l \in Seq(Events), NEW e \in Events,
         NEW from \in Nat, NEW to \in Nat, to <= Len(l)
  PROVE  SubSeq(Append(l, e), from + 1, to) = SubSeq(l, from + 1, to)
<1> DEFINE l1 == Append(l, e)
<1>1. from + 1 \in Int /\ to \in Int /\ Len(l) \in Nat
  OBVIOUS
<1>2. \A i \in from + 1 .. to : l1[i] = l[i] /\ l[i] \in Events /\ l1[i] \in Events
  BY <1>1
<1> HIDE DEF l1
<1>3. /\ SubSeq(l, from + 1, to) \in Seq(Events)
      /\ Len(SubSeq(l, from + 1, to)) =
           IF from + 1 <= to THEN to - (from + 1) + 1 ELSE 0
      /\ \A i \in 1 .. to - (from + 1) + 1 :
           SubSeq(l, from + 1, to)[i] = l[(from + 1) + i - 1]
  BY <1>1, <1>2, SubSeqProperties
<1>4. /\ SubSeq(l1, from + 1, to) \in Seq(Events)
      /\ Len(SubSeq(l1, from + 1, to)) =
           IF from + 1 <= to THEN to - (from + 1) + 1 ELSE 0
      /\ \A i \in 1 .. to - (from + 1) + 1 :
           SubSeq(l1, from + 1, to)[i] = l1[(from + 1) + i - 1]
  BY <1>1, <1>2, SubSeqProperties
<1> DEFINE a == SubSeq(l1, from + 1, to)
           b == SubSeq(l, from + 1, to)
<1>5. ASSUME NEW i \in 1 .. Len(a)
      PROVE  a[i] = b[i]
  <2>1. i \in 1 .. to - (from + 1) + 1 /\ (from + 1) + i - 1 \in from + 1 .. to
    <3> HIDE DEF a
    <3>1. Len(a) = IF from + 1 <= to THEN to - (from + 1) + 1 ELSE 0
      BY <1>4 DEF a
    <3>2. QED
      BY <1>1, <3>1
  <2>2. QED
    BY <1>2, <1>3, <1>4, <2>1
<1>6. a = b
  <2>1. a \in Seq(Events) /\ b \in Seq(Events) /\ Len(a) = Len(b)
    BY <1>3, <1>4
  <2> HIDE DEF a, b
  <2>2. QED
    BY <1>5, <2>1, SeqEqual
<1>7. QED
  BY <1>6 DEF l1

-----------------------------------------------------------------------------
(* The invariant is inductive                                              *)

Follower == [phase : {"reset", "following", "waiting"}, notified : BOOLEAN,
             stream : Nat, base : Nat, cursor : Nat]

(* The journal that is committed is well-formed, and is memory between     *)
(* appends.                                                                *)
LEMMA CommittedIs ==
  ASSUME JInv
  PROVE  /\ Committed \in Stored /\ Committed.stream = mem.stream
         /\ Unlocked => Committed = mem /\ Holds(mem, log) /\ Len(mem.items) <= capacity
<1>1. CASE undo = None
  BY <1>1 DEF JInv, TypeOK, JournalInv, Committed, Unlocked
<1>2. CASE undo # None
  <2>1. undo \in Pending /\ mem \in Stored
    BY <1>2 DEF JInv, TypeOK
  <2>2. QED
    BY <1>2, <2>1 DEF Pending, Stored, Committed, RolledBack, Unlocked
<1>3. QED
  BY <1>1, <1>2

(* Taking a response in keeps what is claimed of a client. *)
LEMMA ReceiveKeeps ==
  ASSUME JInv, Unlocked, NEW c \in Clients, NEW limit \in Limits,
         Receive(c, Batch(mem, client[c].cursor, limit, client[c].stream)),
         UNCHANGED <<mem, disk, undo, capacity, streams, log>>
  PROVE  /\ client' \in [Clients -> Follower] /\ got' \in [Clients -> Seq(Events)]
         /\ \A d \in Clients : client'[d].stream = client[d].stream
         /\ \A d \in Clients : ClientInv(d)'
<1> DEFINE k     == client[c]
           batch == Batch(mem, k.cursor, limit, k.stream)
<1>1. /\ mem \in Stored /\ log \in Seq(Events) /\ limit \in Nat \ {0}
      /\ Holds(mem, log) /\ k \in Follower /\ client \in [Clients -> Follower]
      /\ got \in [Clients -> Seq(Events)] /\ ClientInv(c)
  BY CommittedIs, JournalAssumption DEF JInv, TypeOK, Follower
<1>2. /\ k.stream \in Nat /\ k.base \in Nat /\ k.cursor \in Nat
      /\ Len(log) \in Nat /\ got[c] \in Seq(Events)
  BY <1>1 DEF Follower
<1> DEFINE k1 == [phase    |-> IF batch.reset THEN "reset" ELSE "following",
                  notified |-> FALSE,
                  stream   |-> k.stream,
                  base     |-> IF batch.gap THEN batch.entries[1].cursor - 1
                               ELSE k.base,
                  cursor   |-> batch.next]
           g1 == IF batch.reset \/ batch.gap THEN EventsOf(batch.entries)
                 ELSE got[c] \o EventsOf(batch.entries)
<1>3. client' = [client EXCEPT ![c] = k1] /\ got' = [got EXCEPT ![c] = g1]
  BY DEF Receive
<1>4. /\ k1 \in Follower /\ g1 \in Seq(Events)
      /\ k.stream = mem.stream =>
           /\ k1.base <= k1.cursor /\ k1.cursor <= Len(log)
           /\ k1.base # 0 => g1 = SubSeq(log, k1.base + 1, k1.cursor)
  <2>1. CASE k.stream # mem.stream
    <3>1. batch = [entries |-> <<>>, next |-> 0, gap |-> FALSE, reset |-> TRUE]
      BY <2>1 DEF Batch
    <3>2. EventsOf(<<>>) = <<>>
      BY DEF EventsOf
    <3>3. /\ k1 = [phase |-> "reset", notified |-> FALSE, stream |-> k.stream,
                   base |-> k.base, cursor |-> 0]
          /\ g1 = <<>>
      BY <3>1, <3>2
    <3> HIDE DEF k1, g1
    <3>4. k1 \in Follower /\ g1 \in Seq(Events)
      BY <1>2, <3>3 DEF Follower
    <3>5. QED
      BY <2>1, <3>4
  <2>2. CASE k.stream = mem.stream
    <3>1. /\ k.base <= k.cursor /\ k.cursor <= Len(log)
          /\ k.base # 0 => got[c] = SubSeq(log, k.base + 1, k.cursor)
      BY <1>1, <2>2 DEF ClientInv, CaughtUpExactly
    <3>2. k.cursor \in 0 .. Len(log)
      BY <1>2, <3>1
    <3>3. PICK from \in k.cursor .. Len(log) : \E to \in from .. Len(log) :
            IsStretch(batch, log, k.cursor, from, to)
      BY <1>1, <2>2, <3>2, BatchIsStretch
    <3>4. PICK to \in from .. Len(log) : IsStretch(batch, log, k.cursor, from, to)
      BY <3>3
    <3> HIDE DEF batch
    <3>5. /\ from \in Nat /\ to \in Nat /\ k.cursor <= from /\ from <= to
          /\ to <= Len(log)
      BY <1>2, <3>2
    <3>6. /\ ~batch.reset /\ batch.next = to
          /\ EventsOf(batch.entries) = SubSeq(log, from + 1, to)
          /\ batch.gap => batch.entries[1].cursor - 1 = from
      <4>1. /\ ~batch.reset /\ batch.next = to
            /\ EventsOf(batch.entries) = SubSeq(log, from + 1, to)
            /\ batch.gap => batch.entries[1].cursor = from + 1
        BY <3>4 DEF IsStretch, Carries
      <4>2. batch.gap => batch.entries[1].cursor - 1 = from
        <5> DEFINE first == batch.entries[1].cursor
        <5>1. batch.gap => first = from + 1
          BY <4>1
        <5> HIDE DEF first
        <5>2. batch.gap => first - 1 = from
          BY <3>5, <5>1
        <5>3. QED
          BY <5>2 DEF first
      <4>3. QED
        BY <4>1, <4>2
    <3>7. SubSeq(log, from + 1, to) \in Seq(Events)
      <4>1. \A i \in from + 1 .. to : log[i] \in Events
        BY <1>1, <3>5
      <4>2. from + 1 \in Int /\ to \in Int
        BY <3>5
      <4>3. QED
        BY <4>1, <4>2, SubSeqProperties
    <3>8. CASE batch.gap
      <4>1. k1.base = from /\ k1.cursor = to /\ g1 = SubSeq(log, from + 1, to)
        BY <3>6, <3>8
      <4>2. k1 \in Follower
        BY <1>2, <3>5, <3>6, <3>8 DEF Follower
      <4>3. QED
        BY <3>5, <3>7, <4>1, <4>2
    <3>9. CASE ~batch.gap
      <4>1. /\ k1.base = k.base /\ k1.cursor = to
            /\ g1 = got[c] \o SubSeq(log, from + 1, to)
        BY <3>6, <3>9
      <4>2. k1 \in Follower
        BY <1>2, <3>5, <3>6, <3>9 DEF Follower
      <4>3. g1 \in Seq(Events)
        <5> DEFINE told == SubSeq(log, from + 1, to)
                   had  == got[c]
        <5>1. told \in Seq(Events) /\ had \in Seq(Events)
          BY <1>2, <3>7
        <5>2. g1 = had \o told
          BY <4>1
        <5> HIDE DEF told, had, g1
        <5>3. had \o told \in Seq(Events)
          BY <5>1, ConcatProperties
        <5>4. QED
          BY <5>2, <5>3
      <4>4. k.base # 0 => g1 = SubSeq(log, k.base + 1, to)
        <5>1. SUFFICES ASSUME k.base # 0
                       PROVE  g1 = SubSeq(log, k.base + 1, to)
          OBVIOUS
        <5>2. k.cursor # 0
          BY <1>2, <3>1, <5>1
        <5>3. from = k.cursor
          BY <3>4, <3>9, <5>2 DEF IsStretch
        <5> DEFINE b == k.base
                   a == k.cursor
        <5>4. /\ b + 1 \in 1 .. Len(log) + 1 /\ a \in (b + 1) - 1 .. Len(log)
              /\ to \in a .. Len(log)
          <6>1. b \in Nat /\ a \in Nat /\ b <= a /\ a <= Len(log)
            BY <1>2, <3>1
          <6> HIDE DEF a, b
          <6>2. QED
            BY <1>2, <3>5, <5>3, <6>1 DEF a
        <5>5. SubSeq(log, b + 1, a) \o SubSeq(log, a + 1, to) = SubSeq(log, b + 1, to)
          <6> HIDE DEF a, b
          <6>1. QED
            BY <1>1, <5>4, ConcatAdjacentSubSeq
        <5>6. QED
          BY <3>1, <4>1, <5>1, <5>3, <5>5
      <4>5. k1.base <= k1.cursor /\ k1.cursor <= Len(log)
        BY <1>2, <3>1, <3>5, <4>1
      <4>6. QED
        BY <4>1, <4>2, <4>3, <4>4, <4>5
    <3>10. QED
      BY <3>8, <3>9
  <2>3. QED
    BY <2>1, <2>2
<1>5. k1.stream = k.stream /\ ~k1.notified /\ k1.phase # "waiting"
  OBVIOUS
<1> HIDE DEF k1, g1
<1>6. client' \in [Clients -> Follower] /\ got' \in [Clients -> Seq(Events)]
  BY <1>1, <1>3, <1>4
<1>7. client'[c] = k1 /\ got'[c] = g1
  BY <1>1, <1>3
<1>8. ASSUME NEW d \in Clients, d # c
      PROVE  client'[d] = client[d] /\ got'[d] = got[d]
  BY <1>1, <1>3, <1>8
<1>9. ClientInv(c)'
  BY <1>4, <1>5, <1>7 DEF ClientInv, CaughtUpExactly
<1>10. ASSUME NEW d \in Clients, d # c
       PROVE  ClientInv(d)'
  BY <1>8, <1>10 DEF JInv, ClientInv, CaughtUpExactly
<1>11. \A d \in Clients : client'[d].stream = client[d].stream
  BY <1>5, <1>7, <1>8
<1>12. QED
  BY <1>6, <1>9, <1>10, <1>11

(* The initial journal is empty and nobody has been told anything. *)
LEMMA InitJInv == Init => JInv
<1> SUFFICES ASSUME Init PROVE JInv
  OBVIOUS
<1> USE DEF Init
<1>1. undo = None /\ Committed = mem
  BY DEF Committed
<1>2. mem = [stream |-> 1, items |-> <<>>, next |-> 1, high |-> 0]
  BY DEF EmptyJournal
<1>3. TypeOK
  <2>1. mem \in Stored
    <3>1. [stream |-> 1, items |-> <<>>, next |-> 1, high |-> 0] \in Stored
      BY DEF Stored
    <3>2. QED
      BY <1>2, <3>1, Zenon
  <2>2. client \in [Clients -> Follower]
    BY DEF Follower
  <2>3. log \in Seq(Events) /\ got \in [Clients -> Seq(Events)]
    OBVIOUS
  <2>4. QED
    BY <2>1, <2>2, <2>3 DEF TypeOK, Follower
<1>4. JournalInv
  <2>1. Holds(mem, log)
    BY <1>2 DEF Holds, IsWindow, IsWatermark
  <2>2. Len(mem.items) <= capacity
    <3>1. capacity \in Nat /\ mem.items = <<>>
      BY <1>2, JournalAssumption
    <3>2. QED
      BY <3>1
  <2>3. QED
    BY <1>1, <2>1, <2>2 DEF JournalInv
<1>5. StreamInv
  BY <1>2 DEF StreamInv
<1>6. \A c \in Clients : ClientInv(c)
  BY <1>2 DEF ClientInv
<1>7. QED
  BY <1>3, <1>4, <1>5, <1>6 DEF JInv

(* The first half of an append changes memory only, and can be undone. *)
LEMMA AppendEventKeepsJInv ==
  ASSUME JInv, NEW e \in Events, AppendEvent(e)
  PROVE  JInv'
<1>1. /\ Unlocked /\ mem' = Appended(mem, e, capacity)
      /\ undo' = [items |-> mem.items, next |-> mem.next, high |-> mem.high,
                  event |-> e]
      /\ UNCHANGED <<disk, capacity, streams, client, log, got>>
  BY DEF AppendEvent
<1>2. /\ mem \in Stored /\ log \in Seq(Events) /\ capacity \in Capacities
      /\ Holds(mem, log) /\ Len(mem.items) <= capacity /\ Committed = mem
  BY <1>1, CommittedIs DEF JInv, TypeOK
<1>3. mem' \in Stored /\ mem'.stream = mem.stream
  BY <1>1, <1>2, AppendedHolds DEF Appended
<1>4. undo' \in Pending /\ undo' # None
  BY <1>1, <1>2, JournalAssumption DEF Stored, Pending
<1>5. Committed' = mem
  <2>1. Committed' = RolledBack(mem', undo')
    BY <1>4 DEF Committed
  <2>2. RolledBack(mem', undo') = [stream |-> mem.stream, items |-> mem.items,
                                   next |-> mem.next, high |-> mem.high]
    BY <1>1, <1>3 DEF RolledBack
  <2>3. QED
    BY <1>2, <2>1, <2>2 DEF Stored
<1>6. TypeOK'
  BY <1>1, <1>3, <1>4 DEF JInv, TypeOK
<1>7. JournalInv'
  <2>1. mem' = Appended(Committed', undo'.event, capacity')
    BY <1>1, <1>5
  <2>2. disk' # None => Persistent /\ Holds(disk', log')
    BY <1>1 DEF JInv, JournalInv
  <2>3. QED
    BY <1>1, <1>2, <1>5, <2>1, <2>2 DEF JournalInv
<1>8. StreamInv'
  BY <1>1, <1>3 DEF JInv, StreamInv
<1>9. \A c \in Clients : ClientInv(c)'
  BY <1>1, <1>3 DEF JInv, ClientInv, CaughtUpExactly
<1>10. QED
  BY <1>6, <1>7, <1>8, <1>9 DEF JInv

(* The second half commits the event and wakes every long poll. *)
LEMMA SaveSucceedsKeepsJInv ==
  ASSUME JInv, SaveSucceeds
  PROVE  JInv'
<1>1. /\ undo # None /\ disk' = (IF Persistent THEN mem ELSE disk) /\ undo' = None
      /\ client' = [c \in Clients |-> Notified(c)]
      /\ log' = Append(log, undo.event)
      /\ UNCHANGED <<mem, capacity, streams, got>>
  BY DEF SaveSucceeds, Unlocked
<1>2. /\ undo \in Pending /\ mem \in Stored /\ log \in Seq(Events)
      /\ capacity \in Capacities /\ client \in [Clients -> Follower]
      /\ Holds(Committed, log) /\ Committed \in Stored
      /\ mem = Appended(Committed, undo.event, capacity)
  BY <1>1, CommittedIs DEF JInv, TypeOK, JournalInv, Follower
<1>3. undo.event \in Events
  BY <1>2 DEF Pending
<1>4. Holds(mem, log') /\ Len(mem.items) <= capacity
  BY <1>1, <1>2, <1>3, AppendedHolds
<1>5. /\ log' \in Seq(Events) /\ Len(log') = Len(log) + 1 /\ Len(log) \in Nat
  BY <1>1, <1>2, <1>3
<1>6. ASSUME NEW c \in Clients
      PROVE  /\ client'[c] \in Follower
             /\ client'[c].phase = client[c].phase
             /\ client'[c].stream = client[c].stream
             /\ client'[c].base = client[c].base
             /\ client'[c].cursor = client[c].cursor
             /\ client'[c].notified =
                  (client[c].phase = "waiting" \/ client[c].notified)
  <2>1. client'[c] = IF client[c].phase = "waiting"
                     THEN [client[c] EXCEPT !.notified = TRUE] ELSE client[c]
    BY <1>1 DEF Notified
  <2>2. client[c] \in Follower
    BY <1>2
  <2>3. CASE client[c].phase = "waiting"
    BY <2>1, <2>2, <2>3 DEF Follower
  <2>4. CASE client[c].phase # "waiting"
    <3>1. client'[c] = client[c]
      BY <2>1, <2>4
    <3>2. client[c].notified \in BOOLEAN
      BY <2>2 DEF Follower
    <3>3. QED
      BY <2>2, <2>4, <3>1, <3>2
  <2>5. QED
    BY <2>3, <2>4
<1>7. TypeOK'
  <2>1. client' \in [Clients -> Follower]
    BY <1>1, <1>6
  <2>2. QED
    BY <1>1, <1>2, <1>5, <2>1 DEF JInv, TypeOK, Follower
<1>8. JournalInv'
  <2>1. Committed' = mem
    BY <1>1 DEF Committed
  <2>2. disk' # None => Persistent /\ disk' = mem
    BY <1>1 DEF JInv, JournalInv
  <2>3. QED
    BY <1>1, <1>4, <2>1, <2>2 DEF JournalInv
<1>9. StreamInv'
  BY <1>1, <1>6 DEF JInv, StreamInv, JournalInv
<1>10. ASSUME NEW c \in Clients
       PROVE  ClientInv(c)'
  <2> DEFINE k == client[c]
  <2>1. k \in Follower /\ ClientInv(c)
    BY <1>2 DEF JInv
  <2>2. k.cursor \in Nat /\ k.base \in Nat /\ k.notified \in BOOLEAN
    BY <2>1 DEF Follower
  <2>3. client'[c].phase = "waiting" => client'[c].stream = mem'.stream
    BY <1>1, <1>6, <2>1 DEF ClientInv
  <2>4. client'[c].notified <=>
          client'[c].phase = "waiting" /\ client'[c].cursor < Len(log')
    <3> DEFINE n == Len(log)
    <3>1. CASE k.phase = "waiting"
      <4>1. k.cursor <= n
        BY <2>1, <3>1 DEF ClientInv
      <4>2. k.cursor < n + 1
        <5> HIDE DEF n, k
        <5>1. n \in Nat
          BY <1>5 DEF n
        <5>2. QED
          BY <2>2, <4>1, <5>1
      <4>3. QED
        BY <1>5, <1>6, <3>1, <4>2
    <3>2. CASE k.phase # "waiting"
      BY <1>6, <2>1, <3>2 DEF ClientInv
    <3>3. QED
      BY <3>1, <3>2
  <2>5. ASSUME k.stream = mem.stream
        PROVE  /\ k.base <= k.cursor /\ k.cursor <= Len(log')
               /\ k.base # 0 => got[c] = SubSeq(log', k.base + 1, k.cursor)
    <3> DEFINE b == k.base
               a == k.cursor
               n == Len(log)
    <3>1. b <= a /\ a <= n /\ (b # 0 => got[c] = SubSeq(log, b + 1, a))
      BY <2>1, <2>5 DEF ClientInv, CaughtUpExactly
    <3>2. a \in Nat /\ b \in Nat /\ n \in Nat /\ Len(log') = n + 1
      BY <1>5, <2>2
    <3> HIDE DEF a, b, n
    <3>3. a <= Len(log')
      BY <3>1, <3>2
    <3>4. SubSeq(log', b + 1, a) = SubSeq(log, b + 1, a)
      BY <1>1, <1>2, <1>3, <3>1, <3>2, SubSeqOfAppend DEF n
    <3>5. QED
      BY <3>1, <3>3, <3>4 DEF a, b
  <2>6. QED
    BY <1>1, <1>6, <2>3, <2>4, <2>5 DEF ClientInv, CaughtUpExactly
<1>11. QED
  BY <1>7, <1>8, <1>9, <1>10 DEF JInv

(* A failed write leaves what was committed before. *)
LEMMA SaveFailsKeepsJInv ==
  ASSUME JInv, SaveFails
  PROVE  JInv'
<1>1. /\ undo # None /\ undo' = None /\ mem' = RolledBack(mem, undo)
      /\ UNCHANGED <<disk, capacity, streams, client, log, got>>
  BY DEF SaveFails, Unlocked
<1>2. mem' = Committed /\ Committed' = Committed
  BY <1>1 DEF Committed
<1>3. mem' \in Stored /\ mem'.stream = mem.stream
  BY <1>2, CommittedIs
<1>4. TypeOK'
  BY <1>1, <1>3 DEF JInv, TypeOK
<1>5. JournalInv'
  BY <1>1, <1>2 DEF JInv, JournalInv
<1>6. StreamInv'
  BY <1>1, <1>3 DEF JInv, StreamInv
<1>7. \A c \in Clients : ClientInv(c)'
  BY <1>1, <1>3 DEF JInv, ClientInv, CaughtUpExactly
<1>8. QED
  BY <1>4, <1>5, <1>6, <1>7 DEF JInv

(* A restart ends the long polls and leaves what the clients know. *)
LEMMA DisconnectedIs ==
  ASSUME JInv, client' = [c \in Clients |-> Disconnected(c)], NEW c \in Clients
  PROVE  /\ client'[c] \in Follower
         /\ client'[c].phase # "waiting" /\ ~client'[c].notified
         /\ client'[c].stream = client[c].stream
         /\ client'[c].base = client[c].base
         /\ client'[c].cursor = client[c].cursor
<1>1. client'[c] = IF client[c].phase = "waiting"
                   THEN [client[c] EXCEPT !.phase = "following", !.notified = FALSE]
                   ELSE client[c]
  BY DEF Disconnected
<1>2. client[c] \in Follower /\ ClientInv(c)
  BY DEF JInv, TypeOK, Follower
<1>3. CASE client[c].phase = "waiting"
  BY <1>1, <1>2, <1>3 DEF Follower
<1>4. CASE client[c].phase # "waiting"
  <2>1. client'[c] = client[c] /\ client[c].notified \in BOOLEAN
    BY <1>1, <1>2, <1>4 DEF Follower
  <2>2. QED
    BY <1>2, <1>4, <2>1 DEF ClientInv
<1>5. QED
  BY <1>3, <1>4

(* The file says of the stream what memory said when it was written. *)
LEMMA RestartFromFileKeepsJInv ==
  ASSUME JInv, NEW cap \in Capacities, RestartFromFile(cap)
  PROVE  JInv'
<1>1. /\ disk # None /\ mem' = Loaded(disk, cap) /\ capacity' = cap /\ undo' = None
      /\ client' = [c \in Clients |-> Disconnected(c)]
      /\ UNCHANGED <<disk, streams, log, got>>
  BY DEF RestartFromFile
<1>2. /\ disk \in Stored /\ log \in Seq(Events) /\ Holds(disk, log)
      /\ disk.stream = mem.stream /\ Persistent
  BY <1>1 DEF JInv, TypeOK, JournalInv, StreamInv
<1>3. /\ mem' \in Stored /\ mem'.stream = mem.stream /\ Holds(mem', log)
      /\ Len(mem'.items) <= cap
  BY <1>1, <1>2, LoadedHolds
<1>4. TypeOK'
  <2>1. client' \in [Clients -> Follower]
    BY <1>1, DisconnectedIs
  <2>2. QED
    BY <1>1, <1>3, <2>1 DEF JInv, TypeOK, Follower
<1>5. JournalInv'
  <2>1. Committed' = mem'
    BY <1>1 DEF Committed
  <2>2. QED
    BY <1>1, <1>2, <1>3, <2>1 DEF JournalInv
<1>6. StreamInv'
  BY <1>1, <1>2, <1>3, DisconnectedIs DEF JInv, StreamInv
<1>7. ASSUME NEW c \in Clients
      PROVE  ClientInv(c)'
  <2>1. ClientInv(c)
    BY DEF JInv
  <2>2. QED
    BY <1>1, <1>3, <2>1, DisconnectedIs DEF ClientInv, CaughtUpExactly
<1>8. QED
  BY <1>4, <1>5, <1>6, <1>7 DEF JInv

(* A restart without the file opens a stream no client has seen. *)
LEMMA RestartWithoutFileKeepsJInv ==
  ASSUME JInv, NEW cap \in Capacities, RestartWithoutFile(cap)
  PROVE  JInv'
<1>1. /\ disk' = None /\ mem' = EmptyJournal(streams + 1) /\ streams' = streams + 1
      /\ capacity' = cap /\ undo' = None /\ log' = <<>> /\ UNCHANGED got
      /\ client' = [c \in Clients |-> Disconnected(c)]
  BY DEF RestartWithoutFile, FreshStream
<1>2. mem' = [stream |-> streams + 1, items |-> <<>>, next |-> 1, high |-> 0]
  BY <1>1 DEF EmptyJournal
<1>3. streams \in Nat /\ cap \in Nat
  BY JournalAssumption DEF JInv, TypeOK
<1>4. TypeOK'
  <2>1. client' \in [Clients -> Follower]
    BY <1>1, DisconnectedIs
  <2>2. mem' \in Stored
    BY <1>2, <1>3 DEF Stored
  <2>3. QED
    BY <1>1, <1>3, <2>1, <2>2 DEF JInv, TypeOK, Follower
<1>5. JournalInv'
  <2>1. Committed' = mem'
    BY <1>1 DEF Committed
  <2>2. Holds(mem', log')
    BY <1>1, <1>2 DEF Holds, IsWindow, IsWatermark
  <2>3. Len(mem'.items) <= cap
    <3>1. mem'.items = <<>>
      BY <1>2
    <3>2. QED
      BY <1>3, <3>1
  <2>4. QED
    BY <1>1, <2>1, <2>2, <2>3 DEF JournalInv
<1>6. ASSUME NEW c \in Clients
      PROVE  client'[c].stream \in Nat /\ client'[c].stream <= streams
  <2>1. client'[c] \in Follower /\ client'[c].stream = client[c].stream
    BY <1>1, DisconnectedIs
  <2>2. QED
    BY <2>1 DEF JInv, StreamInv, Follower
<1>7. StreamInv'
  <2>1. mem'.stream = streams'
    BY <1>1, <1>2
  <2>2. \A c \in Clients : client'[c].stream <= streams'
    <3>1. SUFFICES ASSUME NEW c \in Clients
                   PROVE  client'[c].stream <= streams + 1
      BY <1>1
    <3> DEFINE s == client'[c].stream
    <3>2. s \in Nat /\ s <= streams
      BY <1>6
    <3> HIDE DEF s
    <3>3. s <= streams + 1
      BY <1>3, <3>2
    <3>4. QED
      BY <3>3 DEF s
  <2>3. QED
    BY <1>1, <1>3, <2>1, <2>2 DEF StreamInv
<1>8. ASSUME NEW c \in Clients
      PROVE  ClientInv(c)'
  <2>1. client'[c].stream # mem'.stream
    <3> DEFINE s == client'[c].stream
    <3>1. s \in Nat /\ s <= streams /\ mem'.stream = streams + 1
      BY <1>2, <1>6
    <3> HIDE DEF s
    <3>2. s # mem'.stream
      BY <1>3, <3>1
    <3>3. QED
      BY <3>2 DEF s
  <2>2. QED
    BY <1>1, <2>1, DisconnectedIs DEF ClientInv
<1>9. QED
  BY <1>4, <1>5, <1>7, <1>8 DEF JInv

(* The newest cursor is the number of events, retained or not. *)
LEMMA NewestIsEnd ==
  ASSUME NEW j \in Stored, NEW l \in Seq(Events), Holds(j, l)
  PROVE  NewestCursor(j) = Len(l)
<1> DEFINE items == j.items
<1>1. items \in Seq(Entry) /\ IsWindow(items, l)
  BY DEF Stored, Holds
<1>2. CASE items = <<>>
  <2>1. l = <<>>
    BY <1>1, <1>2 DEF IsWindow
  <2>2. QED
    BY <1>2, <2>1 DEF NewestCursor
<1>3. CASE items # <<>>
  <2> HIDE DEF items
  <2>1. Len(items) \in 1 .. Len(items) /\ Len(l) \in Nat /\ Len(items) \in Nat
    BY <1>1, <1>3
  <2>2. items[Len(items)].cursor = Len(l) - Len(items) + Len(items)
    BY <1>1, <2>1, WindowEntry
  <2>3. Len(l) - Len(items) + Len(items) = Len(l)
    BY <2>1
  <2>4. QED
    BY <1>3, <2>2, <2>3 DEF NewestCursor, items
<1>4. QED
  BY <1>2, <1>3

(* A bootstrap hands out the end of the stream. *)
LEMMA BootstrapKeepsJInv ==
  ASSUME JInv, NEW c \in Clients, Bootstrap(c)
  PROVE  JInv'
<1> DEFINE k1 == [phase  |-> "following", notified |-> FALSE, stream |-> mem.stream,
                  base   |-> NewestCursor(mem), cursor |-> NewestCursor(mem)]
<1>1. /\ Unlocked /\ client' = [client EXCEPT ![c] = k1]
      /\ got' = [got EXCEPT ![c] = <<>>]
      /\ UNCHANGED <<mem, disk, undo, capacity, streams, log>>
  BY DEF Bootstrap
<1>2. /\ mem \in Stored /\ log \in Seq(Events) /\ Holds(mem, log)
      /\ client \in [Clients -> Follower] /\ got \in [Clients -> Seq(Events)]
  BY <1>1, CommittedIs DEF JInv, TypeOK, Follower
<1>3. NewestCursor(mem) = Len(log)
  BY <1>2, NewestIsEnd
<1>4. /\ k1 = [phase  |-> "following", notified |-> FALSE, stream |-> mem.stream,
               base   |-> Len(log), cursor |-> Len(log)]
      /\ Len(log) \in Nat
  BY <1>2, <1>3
<1> HIDE DEF k1
<1>5. k1 \in Follower
  BY <1>2, <1>4 DEF Follower, Stored
<1>6. client'[c] = k1 /\ got'[c] = <<>>
  BY <1>1, <1>2
<1>7. ASSUME NEW d \in Clients, d # c
      PROVE  client'[d] = client[d] /\ got'[d] = got[d]
  BY <1>1, <1>2, <1>7
<1>8. TypeOK'
  <2>1. client' \in [Clients -> Follower] /\ got' \in [Clients -> Seq(Events)]
    BY <1>1, <1>2, <1>5
  <2>2. QED
    BY <1>1, <2>1 DEF JInv, TypeOK, Follower
<1>9. JournalInv'
  BY <1>1 DEF JInv, JournalInv, Committed
<1>10. StreamInv'
  BY <1>1, <1>4, <1>6, <1>7 DEF JInv, StreamInv
<1>11. ClientInv(c)'
  <2>1. SubSeq(log, Len(log) + 1, Len(log)) = <<>>
    <3>1. Len(log) + 1 \in Int /\ Len(log) \in Int /\ Len(log) < Len(log) + 1
      BY <1>4
    <3>2. QED
      BY <3>1, SubSeqEmpty
  <2>2. /\ client'[c].phase = "following" /\ ~client'[c].notified
        /\ client'[c].base = Len(log) /\ client'[c].cursor = Len(log)
    BY <1>4, <1>6
  <2>3. got'[c] = SubSeq(log, client'[c].base + 1, client'[c].cursor)
    BY <1>6, <2>1, <2>2
  <2>4. QED
    BY <1>1, <1>4, <2>2, <2>3 DEF ClientInv, CaughtUpExactly
<1>12. ASSUME NEW d \in Clients, d # c
       PROVE  ClientInv(d)'
  BY <1>1, <1>7, <1>12 DEF JInv, ClientInv, CaughtUpExactly
<1>13. QED
  BY <1>8, <1>9, <1>10, <1>11, <1>12 DEF JInv

(* A response, at once or after a wait, keeps the invariant. *)
LEMMA ResponseKeepsJInv ==
  ASSUME JInv, NEW c \in Clients, NEW limit \in Limits,
         Poll(c, limit) \/ StopWaiting(c, limit)
  PROVE  JInv'
<1>1. /\ Unlocked
      /\ Receive(c, Batch(mem, client[c].cursor, limit, client[c].stream))
      /\ UNCHANGED <<mem, disk, undo, capacity, streams, log>>
  BY DEF Poll, StopWaiting
<1>2. /\ client' \in [Clients -> Follower] /\ got' \in [Clients -> Seq(Events)]
      /\ \A d \in Clients : client'[d].stream = client[d].stream
      /\ \A d \in Clients : ClientInv(d)'
  BY <1>1, ReceiveKeeps
<1>3. TypeOK'
  BY <1>1, <1>2 DEF JInv, TypeOK, Follower
<1>4. JournalInv'
  BY <1>1 DEF JInv, JournalInv, Committed
<1>5. StreamInv'
  BY <1>1, <1>2 DEF JInv, StreamInv
<1>6. QED
  BY <1>2, <1>3, <1>4, <1>5 DEF JInv

(* A long poll is held open only at the end of the stream. *)
LEMMA StartWaitingKeepsJInv ==
  ASSUME JInv, NEW c \in Clients, StartWaiting(c)
  PROVE  JInv'
<1>1. /\ Unlocked /\ client[c].phase = "following"
      /\ ~WorthReturning(Batch(mem, client[c].cursor, 1, client[c].stream))
      /\ client' = [client EXCEPT ![c].phase = "waiting"]
      /\ UNCHANGED <<mem, disk, undo, capacity, streams, log, got>>
  BY DEF StartWaiting
<1>2. /\ mem \in Stored /\ log \in Seq(Events) /\ Holds(mem, log)
      /\ client \in [Clients -> Follower] /\ ClientInv(c)
  BY <1>1, CommittedIs DEF JInv, TypeOK, Follower
<1>3. /\ client[c] \in Follower /\ client[c].cursor \in Nat
      /\ client[c].stream = mem.stream => client[c].cursor <= Len(log)
  BY <1>2 DEF Follower, ClientInv
<1>4. client[c].stream = mem.stream /\ ~(client[c].cursor < Len(log))
  <2>1. 1 \in Nat \ {0}
    OBVIOUS
  <2>2. QED
    BY <1>1, <1>2, <1>3, <2>1, WorthReturningIs
<1>5. /\ client'[c] = [client[c] EXCEPT !.phase = "waiting"]
      /\ \A d \in Clients : d # c => client'[d] = client[d]
  BY <1>1, <1>2
<1>6. /\ client'[c] \in Follower /\ client'[c].phase = "waiting"
      /\ client'[c].notified = client[c].notified
      /\ client'[c].stream = client[c].stream
      /\ client'[c].base = client[c].base
      /\ client'[c].cursor = client[c].cursor
  BY <1>3, <1>5 DEF Follower
<1>7. TypeOK'
  <2>1. client' \in [Clients -> Follower]
    BY <1>1, <1>2, <1>3, <1>5, <1>6
  <2>2. QED
    BY <1>1, <2>1 DEF JInv, TypeOK, Follower
<1>8. JournalInv'
  BY <1>1 DEF JInv, JournalInv, Committed
<1>9. StreamInv'
  BY <1>1, <1>5, <1>6 DEF JInv, StreamInv
<1>10. ClientInv(c)'
  <2>1. ~client[c].notified
    BY <1>1, <1>2 DEF ClientInv
  <2>2. QED
    BY <1>1, <1>2, <1>4, <1>6, <2>1 DEF ClientInv, CaughtUpExactly
<1>11. ASSUME NEW d \in Clients, d # c
       PROVE  ClientInv(d)'
  BY <1>1, <1>5, <1>11 DEF JInv, ClientInv, CaughtUpExactly
<1>12. QED
  BY <1>7, <1>8, <1>9, <1>10, <1>11 DEF JInv

(* Every step of the service or of a client keeps the invariant. *)
LEMMA NextJInv == JInv /\ [Next]_vars => JInv'
<1> SUFFICES ASSUME JInv, [Next]_vars PROVE JInv'
  OBVIOUS
<1>1. CASE \E e \in Events : AppendEvent(e)
  BY <1>1, AppendEventKeepsJInv
<1>2. CASE SaveSucceeds
  BY <1>2, SaveSucceedsKeepsJInv
<1>3. CASE SaveFails
  BY <1>3, SaveFailsKeepsJInv
<1>4. CASE \E cap \in Capacities : RestartFromFile(cap)
  BY <1>4, RestartFromFileKeepsJInv
<1>5. CASE \E cap \in Capacities : RestartWithoutFile(cap)
  BY <1>5, RestartWithoutFileKeepsJInv
<1>6. CASE \E c \in Clients : Bootstrap(c)
  BY <1>6, BootstrapKeepsJInv
<1>7. CASE \E c \in Clients : \E limit \in Limits :
             Poll(c, limit) \/ StopWaiting(c, limit)
  BY <1>7, ResponseKeepsJInv
<1>8. CASE \E c \in Clients : StartWaiting(c)
  BY <1>8, StartWaitingKeepsJInv
<1>9. CASE UNCHANGED vars
  BY <1>9 DEF vars, JInv, TypeOK, JournalInv, StreamInv, ClientInv, Committed,
              CaughtUpExactly
<1>10. QED
  BY <1>1, <1>2, <1>3, <1>4, <1>5, <1>6, <1>7, <1>8, <1>9 DEF Next

(* The inductive invariant holds of every reachable state. *)
LEMMA JournalInvariant == Spec => []JInv
<1>1. QED
  BY InitJInv, NextJInv, PTL DEF Spec

-----------------------------------------------------------------------------
(* What the service promises                                               *)

(* The journal, its file, the locals of an append under way and what every *)
(* client remembers keep their types.                                      *)
THEOREM JournalTypes == Spec => []TypeOK
<1>1. JInv => TypeOK
  BY DEF JInv
<1>2. QED
  BY <1>1, JournalInvariant, PTL

(* SensorChangeJournal._items: whatever was evicted, rolled back, lost in  *)
(* a crash or cut by a smaller capacity, what is retained is the newest    *)
(* committed events under consecutive cursors.                             *)
THEOREM RetainedAreNewest == Spec => []WindowIsNewestEvents
<1>1. JInv => WindowIsNewestEvents
  <2> SUFFICES ASSUME JInv, Unlocked PROVE WindowIsNewestEvents
    BY DEF WindowIsNewestEvents
  <2> DEFINE items == mem.items
  <2>1. /\ mem \in Stored /\ log \in Seq(Events) /\ Holds(mem, log)
        /\ Len(items) <= capacity
    BY CommittedIs DEF JInv, TypeOK
  <2>2. /\ mem.next = Len(log) + 1 /\ items \in Seq(Entry)
        /\ IsWindow(items, log)
    BY <2>1 DEF Holds, Stored
  <2> HIDE DEF items
  <2>3. Len(items) \in Nat /\ Len(log) \in Nat /\ Len(items) <= Len(log)
    BY <2>1, <2>2 DEF IsWindow
  <2>4. EventsOf(items) = SubSeq(log, Len(log) - Len(items) + 1, Len(log))
    <3> DEFINE part == SubSeq(items, 0 + 1, Len(items))
    <3>1. 0 \in 0 .. Len(items) /\ Len(items) \in 0 .. Len(items)
      BY <2>3
    <3>2. Carries(part, log, Len(log) - Len(items) + 0,
                  Len(log) - Len(items) + Len(items))
      BY <2>1, <2>2, <3>1, StretchOfWindow
    <3>3. part = items
      BY <2>2, SubSeqFull
    <3>4. /\ Len(log) - Len(items) + 0 = Len(log) - Len(items)
          /\ Len(log) - Len(items) + Len(items) = Len(log)
      BY <2>3
    <3>5. QED
      BY <3>2, <3>3, <3>4 DEF Carries
  <2>5. \A i \in DOMAIN items : items[i].cursor = Len(log) - Len(items) + i
    <3>1. DOMAIN items = 1 .. Len(items)
      BY <2>2
    <3>2. QED
      BY <2>2, <3>1, WindowEntry
  <2>6. QED
    BY <2>1, <2>2, <2>4, <2>5 DEF WindowIsNewestEvents, items
<1>2. QED
  BY <1>1, JournalInvariant, PTL

(* state_revision_high_water is the largest revision ever committed to the *)
(* stream: neither eviction nor a restart with a smaller capacity lowers   *)
(* it, and a rolled back event does not raise it.                          *)
THEOREM HighWaterIsKept == Spec => []HighWaterOutlivesEviction
<1>1. JInv => HighWaterOutlivesEviction
  <2> SUFFICES ASSUME JInv, Unlocked
               PROVE  mem.high = Max({0} \cup {log[i].revision : i \in DOMAIN log})
    BY DEF HighWaterOutlivesEviction
  <2> DEFINE high == mem.high
             revisions == {0} \cup {log[i].revision : i \in DOMAIN log}
  <2>1. log \in Seq(Events) /\ IsWatermark(high, log) /\ high \in Nat
    BY CommittedIs DEF JInv, TypeOK, Stored, Holds
  <2> HIDE DEF high
  <2>2. DOMAIN log = 1 .. Len(log)
    BY <2>1
  <2>3. \A i \in DOMAIN log : log[i].revision \in Nat /\ log[i].revision <= high
    BY <2>1, <2>2, JournalAssumption DEF IsWatermark
  <2>4. high \in revisions
    BY <2>1, <2>2 DEF IsWatermark
  <2>5. revisions \in SUBSET Nat /\ \A x \in revisions : high >= x
    BY <2>1, <2>3
  <2> HIDE DEF revisions
  <2>6. Max(revisions) = high
    BY <2>4, <2>5, MaxIs
  <2>7. QED
    BY <2>6 DEF high, revisions
<1>2. QED
  BY <1>1, JournalInvariant, PTL

(* read(): following the cursors of one stream, a client has every event   *)
(* since its base exactly once and in order, or it was told of a gap.      *)
THEOREM FollowersLoseNothing == Spec => []NoSilentLoss
<1>1. JInv => NoSilentLoss
  BY DEF JInv, ClientInv, NoSilentLoss
<1>2. QED
  BY <1>1, JournalInvariant, PTL

(* A client that waits, or was woken, is answered by what there is to say. *)
LEMMA WaitingIs ==
  ASSUME JInv, Unlocked, NEW c \in Clients, client[c].phase = "waiting"
  PROVE  WorthReturning(Batch(mem, client[c].cursor, 1, client[c].stream)) <=>
           client[c].notified
<1>1. /\ mem \in Stored /\ log \in Seq(Events) /\ Holds(mem, log)
      /\ client[c] \in Follower /\ ClientInv(c)
  BY CommittedIs DEF JInv, TypeOK, Follower
<1>2. /\ client[c].cursor \in Nat /\ client[c].stream = mem.stream
      /\ client[c].cursor <= Len(log)
      /\ client[c].notified <=> client[c].cursor < Len(log)
  BY <1>1 DEF Follower, ClientInv
<1>3. 1 \in Nat \ {0}
  OBVIOUS
<1>4. QED
  BY <1>1, <1>2, <1>3, WorthReturningIs

(* wait_for_changes(): the check and the wait are one critical section, so *)
(* a long poll nobody notified has nothing to be told; append(): one that  *)
(* was notified is woken for an event that was committed.                  *)
THEOREM SleepersMissNothing == Spec => []WakeupsAreExact
<1>1. JInv => WakeupsAreExact
  <2> SUFFICES ASSUME JInv, Unlocked, NEW c \in Clients
               PROVE  client[c].notified <=>
                        /\ client[c].phase = "waiting"
                        /\ WorthReturning(Batch(mem, client[c].cursor, 1,
                                                client[c].stream))
    BY DEF WakeupsAreExact
  <2>1. client[c].notified => client[c].phase = "waiting"
    BY DEF JInv, ClientInv
  <2>2. QED
    BY <2>1, WaitingIs
<1>2. QED
  BY <1>1, JournalInvariant, PTL

-----------------------------------------------------------------------------
(* The refinement: every step is one of EventFeed, or changes nothing there *)

\* Nothing happens to the feed.
FeedStays ==
  mem'.stream = mem.stream /\ log' = log /\ Readers' = Readers /\ got' = got

(* What the clients know is the same if it is so for each. *)
LEMMA ReadersStay ==
  ASSUME \A c \in Clients : Known(client'[c]) = Known(client[c])
  PROVE  Readers' = Readers
BY DEF Readers

(* A change of one client is a change of one reader. *)
LEMMA OneReader ==
  ASSUME NEW c \in Clients, NEW k, client \in [Clients -> Follower],
         client' = [client EXCEPT ![c] = k]
  PROVE  Readers' = [Readers EXCEPT ![c] = Known(k)]
<1>1. client'[c] = k /\ \A d \in Clients \ {c} : client'[d] = client[d]
  OBVIOUS
<1>2. QED
  BY <1>1 DEF Readers

(* Waking the long polls, or ending them, changes nothing they know. *)
LEMMA WakingTellsNothing ==
  ASSUME client \in [Clients -> Follower],
         \/ client' = [c \in Clients |-> Notified(c)]
         \/ client' = [c \in Clients |-> Disconnected(c)]
  PROVE  Readers' = Readers
<1> SUFFICES ASSUME NEW c \in Clients PROVE Known(client'[c]) = Known(client[c])
  BY ReadersStay
<1>1. client'[c] \in {Notified(c), Disconnected(c), client[c]}
  OBVIOUS
<1>2. client[c] \in Follower
  OBVIOUS
<1>3. Known([client[c] EXCEPT !.notified = TRUE]) = Known(client[c])
  BY <1>2 DEF Known, Follower
<1>4. CASE client[c].phase = "waiting"
  <2>1. Known([client[c] EXCEPT !.phase = "following", !.notified = FALSE])
          = Known(client[c])
    BY <1>2, <1>4 DEF Known, Follower
  <2>2. QED
    BY <1>1, <1>3, <1>4, <2>1 DEF Notified, Disconnected
<1>5. CASE client[c].phase # "waiting"
  BY <1>1, <1>5 DEF Notified, Disconnected
<1>6. QED
  BY <1>4, <1>5

(* An append that begins, a write that fails and a restart that finds the  *)
(* file are not noticed by who follows the feed.                           *)
LEMMA ServiceIsHidden ==
  ASSUME JInv,
         \/ \E e \in Events : AppendEvent(e)
         \/ SaveFails
         \/ \E cap \in Capacities : RestartFromFile(cap)
         \/ UNCHANGED vars
  PROVE  FeedStays
<1>1. client \in [Clients -> Follower]
  BY DEF JInv, TypeOK, Follower
<1>2. CASE UNCHANGED vars
  BY <1>2 DEF vars, FeedStays, Readers
<1>3. CASE \E e \in Events : AppendEvent(e)
  BY <1>3 DEF AppendEvent, Appended, FeedStays, Readers
<1>4. CASE SaveFails
  BY <1>4 DEF SaveFails, RolledBack, FeedStays, Readers
<1>5. ASSUME NEW cap \in Capacities, RestartFromFile(cap) PROVE FeedStays
  <2>1. mem'.stream = mem.stream
    <3>1. disk \in Stored /\ disk.stream = mem.stream /\ mem' = Loaded(disk, cap)
      BY <1>5 DEF RestartFromFile, JInv, TypeOK, StreamInv
    <3>2. QED
      BY <3>1 DEF Loaded, Stored
  <2>2. Readers' = Readers
    BY <1>1, <1>5, WakingTellsNothing DEF RestartFromFile
  <2>3. QED
    BY <1>5, <2>1, <2>2 DEF RestartFromFile, FeedStays
<1>6. QED
  BY <1>2, <1>3, <1>4, <1>5

(* An append publishes its event when its write has succeeded. *)
LEMMA SavePublishes ==
  ASSUME JInv, SaveSucceeds
  PROVE  Feed!Publish
<1>1. /\ undo # None /\ mem' = mem /\ log' = Append(log, undo.event) /\ got' = got
      /\ client' = [c \in Clients |-> Notified(c)]
  BY DEF SaveSucceeds, Unlocked
<1>2. undo.event \in Events /\ client \in [Clients -> Follower]
  BY <1>1 DEF JInv, TypeOK, Pending, Follower
<1>3. Readers' = Readers
  BY <1>1, <1>2, WakingTellsNothing
<1>4. QED
  BY <1>1, <1>2, <1>3 DEF Feed!Publish

(* A restart without a file replaces the stream. *)
LEMMA RestartReplaces ==
  ASSUME JInv, NEW cap \in Capacities, RestartWithoutFile(cap)
  PROVE  Feed!Replace
<1>1. /\ mem' = EmptyJournal(streams + 1) /\ log' = <<>> /\ got' = got
      /\ client' = [c \in Clients |-> Disconnected(c)]
  BY DEF RestartWithoutFile, FreshStream
<1>2. mem'.stream \in Nat /\ mem.stream < mem'.stream
  <2>1. mem.stream \in Nat /\ streams \in Nat /\ mem.stream <= streams
    BY DEF JInv, TypeOK, Stored, StreamInv
  <2>2. mem'.stream = streams + 1
    BY <1>1 DEF EmptyJournal
  <2> DEFINE was == mem.stream
             is  == mem'.stream
  <2> HIDE DEF was, is
  <2>3. is \in Nat /\ was < is
    BY <2>1, <2>2 DEF was, is
  <2>4. QED
    BY <2>3 DEF was, is
<1>3. Readers' = Readers
  BY <1>1, WakingTellsNothing DEF JInv, TypeOK, Follower
<1>4. QED
  BY <1>1, <1>2, <1>3 DEF Feed!Replace

(* The cursor of a bootstrap is the end of the stream. *)
LEMMA BootstrapIsBootstrap ==
  ASSUME JInv, NEW c \in Clients, Bootstrap(c)
  PROVE  Feed!Bootstrap(c)
<1> DEFINE k == [phase  |-> "following", notified |-> FALSE, stream |-> mem.stream,
                 base   |-> NewestCursor(mem), cursor |-> NewestCursor(mem)]
<1>1. /\ Unlocked /\ mem' = mem /\ log' = log
      /\ client' = [client EXCEPT ![c] = k]
      /\ got' = [got EXCEPT ![c] = <<>>]
  BY DEF Bootstrap
<1>2. NewestCursor(mem) = Len(log)
  BY <1>1, NewestIsEnd, CommittedIs DEF JInv, TypeOK
<1>3. Known(k) = [stream |-> mem.stream, base |-> Len(log), cursor |-> Len(log),
                  lost |-> FALSE]
  BY <1>2 DEF Known
<1> HIDE DEF k
<1>4. Readers' = [Readers EXCEPT ![c] = Known(k)]
  BY <1>1, OneReader DEF JInv, TypeOK, Follower
<1>5. QED
  BY <1>1, <1>3, <1>4 DEF Feed!Bootstrap, Feed!Has

(* A client that is answered is given the next stretch, or told why not.   *)
LEMMA ResponseIsFeed ==
  ASSUME JInv, NEW c \in Clients, NEW limit \in Limits,
         Poll(c, limit) \/ StopWaiting(c, limit)
  PROVE  Feed!Continue(c) \/ Feed!SkipAhead(c) \/ Feed!StartOver(c) \/ FeedStays
<1> DEFINE k     == client[c]
           batch == Batch(mem, k.cursor, limit, k.stream)
           k1 == [phase    |-> IF batch.reset THEN "reset" ELSE "following",
                  notified |-> FALSE,
                  stream   |-> k.stream,
                  base     |-> IF batch.gap THEN batch.entries[1].cursor - 1
                               ELSE k.base,
                  cursor   |-> batch.next]
           g1 == IF batch.reset \/ batch.gap THEN EventsOf(batch.entries)
                 ELSE got[c] \o EventsOf(batch.entries)
<1>1. /\ Unlocked /\ mem' = mem /\ log' = log
      /\ client' = [client EXCEPT ![c] = k1] /\ got' = [got EXCEPT ![c] = g1]
      /\ k.phase \in {"following", "waiting"}
  BY DEF Poll, StopWaiting, Receive
<1>2. /\ mem \in Stored /\ log \in Seq(Events) /\ limit \in Nat \ {0}
      /\ Holds(mem, log) /\ k \in Follower /\ client \in [Clients -> Follower]
      /\ got \in [Clients -> Seq(Events)] /\ ClientInv(c)
  BY <1>1, CommittedIs, JournalAssumption DEF JInv, TypeOK, Follower
<1>3. /\ k.cursor \in Nat /\ k.base \in Nat /\ Len(log) \in Nat
      /\ got[c] \in Seq(Events)
  BY <1>2 DEF Follower
<1>4. /\ Readers[c] = [stream |-> k.stream, base |-> k.base, cursor |-> k.cursor,
                       lost |-> FALSE]
      /\ Readers' = [Readers EXCEPT ![c] = Known(k1)]
  <2>1. Readers[c] = Known(k) /\ Readers' = [Readers EXCEPT ![c] = Known(k1)]
    BY <1>1, <1>2, OneReader DEF Readers
  <2>2. k.phase # "reset"
    BY <1>1
  <2>3. QED
    BY <2>1, <2>2 DEF Known
<1>5. CASE k.stream # mem.stream
  <2>1. batch = [entries |-> <<>>, next |-> 0, gap |-> FALSE, reset |-> TRUE]
    BY <1>5 DEF Batch
  <2>2. Known(k1) = [stream |-> k.stream, base |-> k.base, cursor |-> 0,
                     lost |-> TRUE]
        /\ g1 = <<>>
    <3>1. EventsOf(<<>>) = <<>>
      BY DEF EventsOf
    <3>2. /\ k1 = [phase |-> "reset", notified |-> FALSE, stream |-> k.stream,
                   base |-> k.base, cursor |-> 0]
          /\ g1 = <<>>
      BY <2>1, <3>1
    <3> HIDE DEF k1, g1, batch
    <3>3. QED
      BY <3>2 DEF Known
  <2>3. ~Readers[c].lost /\ Readers[c].stream = k.stream /\ Readers[c].base = k.base
    BY <1>4
  <2> HIDE DEF k1, g1, k
  <2>4. Feed!StartOver(c)
    BY <1>1, <1>4, <1>5, <2>2, <2>3 DEF Feed!StartOver, Feed!Has
  <2>5. QED
    BY <2>4
<1>6. CASE k.stream = mem.stream
  <2>1. k.cursor \in 0 .. Len(log)
    BY <1>2, <1>3, <1>6 DEF ClientInv
  <2>2. PICK from \in k.cursor .. Len(log) : \E to \in from .. Len(log) :
          IsStretch(batch, log, k.cursor, from, to)
    BY <1>2, <1>6, <2>1, BatchIsStretch
  <2>3. PICK to \in from .. Len(log) : IsStretch(batch, log, k.cursor, from, to)
    BY <2>2
  <2> HIDE DEF batch
  <2>4. /\ from \in Nat /\ to \in Nat /\ k.cursor <= from /\ from <= to
        /\ to <= Len(log)
    BY <1>3, <2>1
  <2>5. /\ ~batch.reset /\ batch.next = to
        /\ EventsOf(batch.entries) = SubSeq(log, from + 1, to)
        /\ batch.gap => batch.entries[1].cursor = from + 1 /\ k.cursor < from
        /\ ~batch.gap => from = k.cursor \/ k.cursor = 0
        /\ batch.entries # <<>> <=> k.cursor < Len(log)
        /\ batch.gap => batch.entries # <<>>
        /\ Len(batch.entries) = to - from /\ batch.entries \in Seq(Entry)
    BY <2>3 DEF IsStretch, Carries
  <2>6. ~Readers[c].lost /\ Readers[c].stream = mem.stream
        /\ Readers[c].base = k.base /\ Readers[c].cursor = k.cursor
    BY <1>4, <1>6
  <2>7. CASE batch.entries = <<>>
    <3>1. ~batch.gap /\ k.cursor = Len(log) /\ to = k.cursor
      BY <1>3, <2>4, <2>5, <2>7
    <3>2. Known(k1) = Readers[c]
      BY <1>4, <2>5, <3>1 DEF Known
    <3>3. g1 = got[c]
      <4>1. EventsOf(batch.entries) = <<>>
        BY <2>7 DEF EventsOf
      <4>2. got[c] \o <<>> = got[c]
        BY <1>3, ConcatEmptySeq
      <4>3. QED
        BY <2>5, <3>1, <4>1, <4>2
    <3> HIDE DEF k1, g1
    <3>4. Readers' = Readers
      BY <1>4, <3>2 DEF Readers
    <3>5. got' = got
      BY <1>1, <1>2, <3>3
    <3>6. QED
      BY <1>1, <3>4, <3>5 DEF FeedStays
  <2>8. CASE batch.entries # <<>>
    <3>1. from + 1 <= to
      <4> DEFINE n == Len(batch.entries)
      <4>1. n \in Nat /\ n # 0 /\ n = to - from
        BY <2>5, <2>8
      <4> HIDE DEF n
      <4>2. QED
        BY <2>4, <4>1
    <3>2. to \in from + 1 .. Len(log)
      BY <1>3, <2>4, <3>1
    <3>3. CASE batch.gap
      <4>1. k1.base = from
        <5> DEFINE first == batch.entries[1].cursor
        <5>1. k1.base = first - 1 /\ first = from + 1
          BY <2>5, <3>3
        <5> HIDE DEF first, k1
        <5>2. QED
          BY <2>4, <5>1
      <4>2. Known(k1) = [stream |-> mem.stream, base |-> from, cursor |-> to,
                         lost |-> FALSE]
        BY <1>6, <2>5, <4>1 DEF Known
      <4>3. g1 = SubSeq(log, from + 1, to)
        BY <2>5, <3>3
      <4> HIDE DEF k1, g1, k
      <4>4. from \in Readers[c].cursor + 1 .. Len(log)
        BY <1>3, <2>1, <2>4, <2>5, <2>6, <3>3
      <4>5. Feed!SkipAhead(c)
        BY <1>1, <1>4, <2>6, <3>2, <4>2, <4>3, <4>4
           DEF Feed!SkipAhead, Feed!Follows, Feed!HandedOver, Feed!Has
      <4>6. QED
        BY <4>5
    <3>4. CASE ~batch.gap
      <4>1. Known(k1) = [stream |-> mem.stream, base |-> k.base, cursor |-> to,
                         lost |-> FALSE]
        BY <1>6, <2>5, <3>4 DEF Known
      <4>2. g1 = got[c] \o SubSeq(log, from + 1, to)
        BY <2>5, <3>4
      <4> HIDE DEF k1, g1, k
      <4>3. from \in Readers[c].cursor .. Len(log)
        BY <1>3, <2>1, <2>4, <2>6
      <4>4. Feed!Continue(c)
        BY <1>1, <1>4, <2>5, <2>6, <3>2, <3>4, <4>1, <4>2, <4>3
           DEF Feed!Continue, Feed!Follows, Feed!HandedOver, Feed!Has
      <4>5. QED
        BY <4>4
    <3>5. QED
      BY <3>3, <3>4
  <2>9. QED
    BY <2>7, <2>8
<1>7. QED
  BY <1>5, <1>6

(* A client that begins to wait is told nothing. *)
LEMMA WaitingIsHidden ==
  ASSUME JInv, NEW c \in Clients, StartWaiting(c)
  PROVE  FeedStays
<1> DEFINE k == [client[c] EXCEPT !.phase = "waiting"]
<1>1. /\ client[c].phase = "following" /\ client' = [client EXCEPT ![c] = k]
      /\ mem' = mem /\ log' = log /\ got' = got
  BY DEF StartWaiting
<1>2. client \in [Clients -> Follower]
  BY DEF JInv, TypeOK, Follower
<1>3. Known(k) = Known(client[c])
  BY <1>1, <1>2 DEF Known, Follower
<1> HIDE DEF k
<1>4. Readers' = Readers
  BY <1>1, <1>2, <1>3, OneReader DEF Readers
<1>5. QED
  BY <1>1, <1>4 DEF FeedStays

(* Every step of service and clients is a step of the feed or hidden. *)
LEMMA StepIsFeed ==
  ASSUME JInv, [Next]_vars
  PROVE  [Feed!Next]_<<mem.stream, log, Readers, got>>
<1>1. FeedStays => UNCHANGED <<mem.stream, log, Readers, got>>
  BY DEF FeedStays
<1>2. CASE \/ \E e \in Events : AppendEvent(e)
           \/ SaveFails
           \/ \E cap \in Capacities : RestartFromFile(cap)
           \/ UNCHANGED vars
  BY <1>1, <1>2, ServiceIsHidden
<1>3. CASE SaveSucceeds
  BY <1>3, SavePublishes DEF Feed!Next
<1>4. CASE \E cap \in Capacities : RestartWithoutFile(cap)
  BY <1>4, RestartReplaces DEF Feed!Next
<1>5. ASSUME NEW c \in Clients, Bootstrap(c)
      PROVE  Feed!Next
  BY <1>5, BootstrapIsBootstrap DEF Feed!Next
<1>6. ASSUME NEW c \in Clients, NEW limit \in Limits,
             Poll(c, limit) \/ StopWaiting(c, limit)
      PROVE  Feed!Next \/ FeedStays
  BY <1>6, ResponseIsFeed DEF Feed!Next
<1>7. CASE \E c \in Clients : StartWaiting(c)
  BY <1>1, <1>7, WaitingIsHidden
<1>8. QED
  BY <1>1, <1>2, <1>3, <1>4, <1>5, <1>6, <1>7 DEF Next

(* SensorChangeJournal with its file, failures and restarts, and clients   *)
(* that follow the documented flow, implement the feed: no answer skips an *)
(* event unsaid, repeats one, or speaks of a gap or reset that is none.    *)
THEOREM JournalIsFeed == Spec => FeedSpec
<1>1. Init => Feed!Init
  <2> SUFFICES ASSUME Init PROVE Feed!Init
    OBVIOUS
  <2>1. mem.stream = 1 /\ log = <<>> /\ got = [c \in Clients |-> <<>>]
    BY DEF Init, EmptyJournal
  <2>2. Readers = [c \in Clients |-> [stream |-> 0, base |-> 0, cursor |-> 0,
                                      lost |-> TRUE]]
    BY DEF Init, Readers, Known
  <2>3. QED
    BY <2>1, <2>2 DEF Feed!Init
<1>2. JInv /\ [Next]_vars => [Feed!Next]_<<mem.stream, log, Readers, got>>
  BY StepIsFeed
<1>3. QED
  BY <1>1, <1>2, JournalInvariant, PTL DEF Spec, FeedSpec, Feed!Spec, Feed!vars
=============================================================================
