------------------------ MODULE SensorChangeJournal ------------------------
(***************************************************************************)
(* SensorChangeJournal with its file, and the clients that follow it.      *)
(*                                                                         *)
(* append() changes memory, writes the file, and either notifies the long  *)
(* polls or puts memory back; the condition's lock is held throughout, so  *)
(* readers see neither the half-way state nor a rolled back entry, but a   *)
(* crash may fall in between.  A restart may use another capacity.         *)
(*                                                                         *)
(* Clients follow the documented flow: bootstrap, then poll with the       *)
(* cursor and stream they were given, holding the poll open when there is  *)
(* nothing new.  "log" and "got" are history: every event committed to the *)
(* current stream, and what a client was handed since its base cursor.     *)
(***************************************************************************)
EXTENDS JournalOps

CONSTANTS
  Clients,      \* followers of the feed
  Events,       \* the events the service may append, with their revision
  Capacities,   \* the capacities the service may be started with
  Limits,       \* page sizes clients ask for
  Persistent,   \* TRUE when the journal has a file
  None,
  MaxEvents,    \* bound on events per stream, for model checking
  MaxStreams    \* bound on fresh streams, for model checking

Entry == [cursor : Nat, event : Events]

\* The journal, in memory and in its file, and the locals of append().
Stored == [stream : Nat, items : Seq(Entry), next : Nat, high : Nat]

Pending == [items : Seq(Entry), next : Nat, high : Nat, event : Events]

ASSUME JournalAssumption ==
  /\ \A e \in Events : e.revision \in Nat
  /\ Capacities \subseteq Nat \ {0}
  /\ Limits \subseteq Nat \ {0}
  /\ Persistent \in BOOLEAN
  /\ None \notin Stored \cup Pending

VARIABLES
  mem,        \* _stream_id, _items, _next_cursor, _state_revision_high_water
  disk,       \* the journal file, or None when it does not exist
  undo,       \* the previous_... locals of append(), or None
  capacity,   \* _capacity
  streams,    \* number of stream ids generated so far
  client,     \* per client: phase, notified, stream, base, cursor
  log,        \* history: the events committed to mem.stream
  got         \* history: per client, the events handed over since base

vars == <<mem, disk, undo, capacity, streams, client, log, got>>

Unlocked == undo = None

\* SensorChangeJournal draws a new stream id whenever it finds no file.
FreshStream == streams + 1

-----------------------------------------------------------------------------
(* Appending *)

AppendEvent(e) ==
  /\ Unlocked
  /\ Len(log) < MaxEvents
  /\ mem' = Appended(mem, e, capacity)
  /\ undo' = [items |-> mem.items, next |-> mem.next, high |-> mem.high,
              event |-> e]
  /\ UNCHANGED <<disk, capacity, streams, client, log, got>>

\* Mutant: append() does not notify.
NotNotified(c) == client[c]

\* notify_all() wakes every long poll that is waiting.
Notified(c) ==
  IF client[c].phase = "waiting" THEN [client[c] EXCEPT !.notified = TRUE]
                                 ELSE client[c]

SaveSucceeds ==
  /\ ~Unlocked
  /\ disk' = IF Persistent THEN mem ELSE disk
  /\ undo' = None
  /\ client' = [c \in Clients |-> Notified(c)]
  /\ log' = Append(log, undo.event)
  /\ UNCHANGED <<mem, capacity, streams, got>>

\* Mutant: the cursor of a failed append stays taken.
RolledBackButCursor(j, u) ==
  [stream |-> j.stream, items |-> u.items, next |-> j.next, high |-> u.high]

RolledBack(j, u) ==
  [stream |-> j.stream, items |-> u.items, next |-> u.next, high |-> u.high]

\* Mutant: notify_all() sits in a finally block.
SaveFailsAndNotifies ==
  /\ ~Unlocked
  /\ Persistent
  /\ mem' = RolledBack(mem, undo)
  /\ undo' = None
  /\ client' = [c \in Clients |-> Notified(c)]
  /\ UNCHANGED <<disk, capacity, streams, log, got>>

SaveFails ==
  /\ ~Unlocked
  /\ Persistent
  /\ mem' = RolledBack(mem, undo)
  /\ undo' = None
  /\ UNCHANGED <<disk, capacity, streams, client, log, got>>

-----------------------------------------------------------------------------
(* Restart.  Requests in progress die with the process; their clients      *)
(* keep cursor and stream and will poll again.                             *)

Disconnected(c) ==
  IF client[c].phase = "waiting"
  THEN [client[c] EXCEPT !.phase = "following", !.notified = FALSE]
  ELSE client[c]

RestartFromFile(cap) ==
  /\ disk # None
  /\ mem' = Loaded(disk, cap)
  /\ capacity' = cap
  /\ undo' = None
  /\ client' = [c \in Clients |-> Disconnected(c)]
  /\ UNCHANGED <<disk, streams, log, got>>

\* Ephemeral service, first start, or the file was deleted meanwhile.
RestartWithoutFile(cap) ==
  /\ streams < MaxStreams
  /\ disk' = None
  /\ mem' = EmptyJournal(FreshStream)
  /\ streams' = FreshStream
  /\ capacity' = cap
  /\ undo' = None
  /\ client' = [c \in Clients |-> Disconnected(c)]
  /\ log' = <<>>
  /\ UNCHANGED got

-----------------------------------------------------------------------------
(* Clients *)

\* Mutant: an empty journal hands out no cursor at all.
BootstrapWithoutDefault(c) ==
  LET newest == IF mem.items = <<>> THEN None ELSE NewestCursor(mem)
  IN /\ Unlocked
     /\ client[c].phase # "waiting"
     /\ client' = [client EXCEPT ![c] =
          [phase  |-> "following", notified |-> FALSE, stream |-> mem.stream,
           base   |-> newest,
           cursor |-> newest]]
     /\ got' = [got EXCEPT ![c] = <<>>]
     /\ UNCHANGED <<mem, disk, undo, capacity, streams, log>>

\* GET /sensors/bootstrap: the newest cursor, 0 when there is none.
Bootstrap(c) ==
  /\ Unlocked
  /\ client[c].phase # "waiting"
  /\ client' = [client EXCEPT ![c] =
       [phase  |-> "following", notified |-> FALSE, stream |-> mem.stream,
        base   |-> NewestCursor(mem),
        cursor |-> NewestCursor(mem)]]
  /\ got' = [got EXCEPT ![c] = <<>>]
  /\ UNCHANGED <<mem, disk, undo, capacity, streams, log>>

EventsOf(entries) == [i \in DOMAIN entries |-> entries[i].event]

\* The client takes a response in: a reset sends it back to bootstrap, a
\* gap makes it refresh and continue from the entries that came with it.
Receive(c, batch) ==
  /\ client' = [client EXCEPT ![c] =
       [phase    |-> IF batch.reset THEN "reset" ELSE "following",
        notified |-> FALSE,
        stream   |-> client[c].stream,
        base     |-> IF batch.gap THEN batch.entries[1].cursor - 1
                     ELSE client[c].base,
        cursor   |-> batch.next]]
  /\ got' = [got EXCEPT ![c] =
       IF batch.reset \/ batch.gap THEN EventsOf(batch.entries)
       ELSE @ \o EventsOf(batch.entries)]

Poll(c, limit) ==
  LET batch == Batch(mem, client[c].cursor, limit, client[c].stream)
  IN /\ Unlocked
     /\ client[c].phase = "following"
     /\ WorthReturning(batch)
     /\ Receive(c, batch)
     /\ UNCHANGED <<mem, disk, undo, capacity, streams, log>>

\* Nothing to return: the check and the wait are one critical section.
StartWaiting(c) ==
  /\ Unlocked
  /\ client[c].phase = "following"
  /\ ~WorthReturning(Batch(mem, client[c].cursor, 1, client[c].stream))
  /\ client' = [client EXCEPT ![c].phase = "waiting"]
  /\ UNCHANGED <<mem, disk, undo, capacity, streams, log, got>>

\* condition.wait() returns, notified or timed out, and the read is redone.
StopWaiting(c, limit) ==
  /\ Unlocked
  /\ client[c].phase = "waiting"
  /\ Receive(c, Batch(mem, client[c].cursor, limit, client[c].stream))
  /\ UNCHANGED <<mem, disk, undo, capacity, streams, log>>

-----------------------------------------------------------------------------
Init ==
  /\ mem = EmptyJournal(1)
  /\ disk = None
  /\ undo = None
  /\ capacity \in Capacities
  /\ streams = 1
  /\ client = [c \in Clients |-> [phase |-> "reset", notified |-> FALSE,
                                  stream |-> 0, base |-> 0, cursor |-> 0]]
  /\ log = <<>>
  /\ got = [c \in Clients |-> <<>>]

Next ==
  \/ \E e \in Events : AppendEvent(e)
  \/ SaveSucceeds
  \/ SaveFails
  \/ \E cap \in Capacities : RestartFromFile(cap) \/ RestartWithoutFile(cap)
  \/ \E c \in Clients :
        \/ Bootstrap(c)
        \/ \E limit \in Limits : Poll(c, limit) \/ StopWaiting(c, limit)
        \/ StartWaiting(c)

\* A started append finishes.  A client keeps polling, and its request gets
\* the lock in the end although appends and restarts compete with it.
Fairness ==
  /\ WF_vars(SaveSucceeds)
  /\ \A c \in Clients :
        /\ SF_vars(\E limit \in Limits : Poll(c, limit))
        /\ SF_vars(\E limit \in Limits : StopWaiting(c, limit))

Spec == Init /\ [][Next]_vars

FairSpec == Spec /\ Fairness

-----------------------------------------------------------------------------
(* Properties *)

(* Every variable keeps its type. *)
TypeOK ==
  /\ mem \in Stored
  /\ disk \in Stored \cup {None}
  /\ undo \in Pending \cup {None}
  /\ capacity \in Capacities
  /\ streams \in Nat
  /\ client \in [Clients -> [phase    : {"reset", "following", "waiting"},
                             notified : BOOLEAN,
                             stream   : Nat, base : Nat, cursor : Nat]]
  /\ log \in Seq(Events)
  /\ got \in [Clients -> Seq(Events)]

(* The retained window is exactly the newest committed events, numbered    *)
(* from 1 without a hole, after any eviction, failed write, crash, restart *)
(* and change of capacity.                                                 *)
WindowIsNewestEvents ==
  Unlocked =>
    /\ mem.next = Len(log) + 1
    /\ EventsOf(mem.items) =
         SubSeq(log, Len(log) - Len(mem.items) + 1, Len(log))
    /\ \A i \in DOMAIN mem.items :
         mem.items[i].cursor = Len(log) - Len(mem.items) + i
    /\ Len(mem.items) <= capacity

(* "event eviction does not erase the watermark": the high water is the    *)
(* largest revision ever committed to the stream, retained or not.         *)
HighWaterOutlivesEviction ==
  Unlocked =>
    mem.high = Max({0} \cup {log[i].revision : i \in DOMAIN log})

\* A client was handed exactly the committed events between its base and
\* its cursor, in order, once.
CaughtUpExactly(c) ==
  got[c] = SubSeq(log, client[c].base + 1, client[c].cursor)

(* A client that follows its cursor in a stream is never handed an event   *)
(* twice, out of order, or with another content, and never skips one       *)
(* without being told of a gap or a reset.                                 *)
NoSilentLoss ==
  \A c \in Clients :
    client[c].stream = mem.stream /\ client[c].base # 0 =>
      CaughtUpExactly(c)

(* "the change cannot be skipped by sampling a cursor after it happened":  *)
(* the same for every bootstrap, the one of an empty journal included.     *)
BootstrapMissesNothing ==
  \A c \in Clients :
    client[c].stream = mem.stream /\ client[c].phase # "reset" =>
      CaughtUpExactly(c)

\* What a client knows of its stream.
Known(k) ==
  [stream |-> k.stream, base |-> k.base, cursor |-> k.cursor,
   lost |-> k.phase = "reset"]

Readers == [c \in Clients |-> Known(client[c])]

(* Every answer is the next stretch of the stream, or says what it is not: *)
(* a stretch after a gap that really is one, or a stream that really is    *)
(* another; and the events of a stream are only ever added to.             *)
Feed == INSTANCE EventFeed WITH stream <- mem.stream, reader <- Readers

FeedSpec == Feed!Spec

(* A long poll that sleeps has been notified exactly if there is something *)
(* to return: an append can not slip between its check and its wait, and   *)
(* nobody is woken for an event that was rolled back.                      *)
WakeupsAreExact ==
  Unlocked =>
    \A c \in Clients :
      client[c].notified <=>
        /\ client[c].phase = "waiting"
        /\ WorthReturning(Batch(mem, client[c].cursor, 1, client[c].stream))

(* A client that keeps polling is brought up to every event committed to   *)
(* its stream, or is told to start over: a reset, or another stream.       *)
FollowerCatchesUp ==
  \A c \in Clients, k \in 1 .. MaxEvents :
    (client[c].stream = mem.stream /\ Len(log) >= k)
      ~> \/ client[c].cursor >= k
         \/ client[c].phase = "reset"
         \/ client[c].stream # mem.stream
=============================================================================
