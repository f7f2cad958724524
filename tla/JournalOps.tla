----------------------------- MODULE JournalOps -----------------------------
(***************************************************************************)
(* The bounded change journal as a value, with append, load and read as    *)
(* functions of it.  SensorChangeJournal adds the lock, the file and the   *)
(* readers; ControlPlane appends to it from the HTTP handlers.             *)
(*                                                                         *)
(* An entry is a cursor and an event; of an event only its state_revision  *)
(* is looked at here, its kind, source and payload are the event's         *)
(* identity.  Entries sit in the deque oldest first.                       *)
(***************************************************************************)
EXTENDS Integers, Sequences, FiniteSetsExt

EmptyJournal(stream) ==
  [stream |-> stream, items |-> <<>>, next |-> 1, high |-> 0]

Larger(a, b) == IF a >= b THEN a ELSE b
Smaller(a, b) == IF a <= b THEN a ELSE b

\* popleft() until at most capacity entries are left; entries[-capacity:].
Newest(items, capacity) ==
  SubSeq(items, Larger(1, Len(items) - capacity + 1), Len(items))

\* Mutant: the high water follows the cursors instead of the revisions.
AppendedByCursor(j, event, capacity) ==
  [stream |-> j.stream,
   items  |-> Newest(Append(j.items, [cursor |-> j.next, event |-> event]),
                     capacity),
   next   |-> j.next + 1,
   high   |-> Larger(j.high, j.next)]

Appended(j, event, capacity) ==
  [stream |-> j.stream,
   items  |-> Newest(Append(j.items, [cursor |-> j.next, event |-> event]),
                     capacity),
   next   |-> j.next + 1,
   high   |-> Larger(j.high, event.revision)]

\* Mutant: the high water is recomputed from the entries that are left.
LoadedFromEntries(file, capacity) ==
  [file EXCEPT
     !.items = Newest(file.items, capacity),
     !.high  = Max({0} \cup {file.items[i].event.revision :
                                i \in DOMAIN file.items})]

\* _load(): the capacity in force may be smaller than the one that wrote.
Loaded(file, capacity) ==
  [file EXCEPT
     !.items = Newest(file.items, capacity),
     !.high  = Max({file.high} \cup
                   {file.items[i].event.revision : i \in DOMAIN file.items})]

\* Index arithmetic of an empty deque: no oldest, no newest entry.
Oldest(j) == IF j.items = <<>> THEN 0 ELSE j.items[1].cursor
NewestCursor(j) == IF j.items = <<>> THEN 0 ELSE j.items[Len(j.items)].cursor

\* Mutant: off by one at the oldest entry.
GapOffByOne(j, after) == j.items # <<>> /\ after # 0 /\ after < Oldest(j) - 2

\* Mutant: the client whose next entry is the oldest is told of a gap.
GapTooSoon(j, after) == j.items # <<>> /\ after # 0 /\ after < Oldest(j)

\* Cursor 0 asks for whatever is retained and is never told of a gap.
Gap(j, after) == j.items # <<>> /\ after # 0 /\ after < Oldest(j) - 1

\* How many entries lie up to a cursor: cursors ascend in the deque, so that
\* the entries after it are the rest of it.
UpTo(items, cursor) ==
  CHOOSE n \in 0 .. Len(items) :
    \A i \in DOMAIN items : items[i].cursor <= cursor <=> i <= n

\* Mutant: the cursor is taken for the next entry wanted.
AfterNext(j, after, limit) ==
  LET from == IF Gap(j, after) THEN Oldest(j) - 1 ELSE after + 1
      read == UpTo(j.items, from)
  IN SubSeq(j.items, read + 1, Smaller(read + limit, Len(j.items)))

\* The entries of one response: after the cursor, at most limit of them.
After(j, after, limit) ==
  LET from == IF Gap(j, after) THEN Oldest(j) - 1 ELSE after
      read == UpTo(j.items, from)
  IN SubSeq(j.items, read + 1, Smaller(read + limit, Len(j.items)))

\* read(): the stream is checked first, and a reset carries no entries.
Batch(j, after, limit, expected) ==
  IF expected # j.stream
  THEN [entries |-> <<>>, next |-> 0, gap |-> FALSE, reset |-> TRUE]
  ELSE LET entries == After(j, after, limit)
       IN [entries |-> entries,
           next    |-> IF entries # <<>> THEN entries[Len(entries)].cursor
                       ELSE after,
           gap     |-> Gap(j, after),
           reset   |-> FALSE]

\* What wait_for_changes returns at once instead of waiting.
WorthReturning(batch) == batch.entries # <<>> \/ batch.gap \/ batch.reset
=============================================================================
