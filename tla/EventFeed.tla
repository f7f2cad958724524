----------------------------- MODULE EventFeed -----------------------------
(***************************************************************************)
(* What the change journal promises a client that follows it: each answer  *)
(* is the next stretch of the events of its stream, or says that some were *)
(* missed and is a later stretch, or says that the stream has been         *)
(* replaced.  A client that has seen nothing (cursor 0) is the exception:  *)
(* it is given whatever is left, and is not told of a gap.                 *)
(***************************************************************************)
EXTENDS Naturals, Sequences

CONSTANTS Clients, Events

VARIABLES
  stream,   \* the id of the stream
  log,      \* the events committed to it
  reader,   \* per client: its stream and cursor, where it began, and whether
            \* it has been sent back to bootstrap ("lost")
  got       \* per client: the events handed over since it began

vars == <<stream, log, reader, got>>

Init ==
  /\ stream \in Nat
  /\ log = <<>>
  /\ reader = [c \in Clients |->
                 [stream |-> 0, base |-> 0, cursor |-> 0, lost |-> TRUE]]
  /\ got = [c \in Clients |-> <<>>]

Publish ==
  /\ \E e \in Events : log' = Append(log, e)
  /\ UNCHANGED <<stream, reader, got>>

Replace ==
  /\ stream' \in Nat /\ stream < stream'
  /\ log' = <<>>
  /\ UNCHANGED <<reader, got>>

\* The client stands as me, and has been handed events.
Has(c, me, events) ==
  /\ reader' = [reader EXCEPT ![c] = me]
  /\ got' = [got EXCEPT ![c] = events]
  /\ UNCHANGED <<stream, log>>

Bootstrap(c) ==
  Has(c, [stream |-> stream, base |-> Len(log), cursor |-> Len(log),
          lost |-> FALSE], <<>>)

Follows(c) == ~reader[c].lost /\ reader[c].stream = stream

\* The events from + 1 .. to, for a client that counts from base.
HandedOver(c, base, to, events) ==
  Has(c, [stream |-> stream, base |-> base, cursor |-> to, lost |-> FALSE],
      events)

Continue(c) ==
  /\ Follows(c)
  /\ \E from \in reader[c].cursor .. Len(log) : \E to \in from + 1 .. Len(log) :
       /\ from = reader[c].cursor \/ reader[c].cursor = 0
       /\ HandedOver(c, reader[c].base, to, got[c] \o SubSeq(log, from + 1, to))

SkipAhead(c) ==
  /\ Follows(c)
  /\ \E from \in reader[c].cursor + 1 .. Len(log) : \E to \in from + 1 .. Len(log) :
       HandedOver(c, from, to, SubSeq(log, from + 1, to))

StartOver(c) ==
  /\ ~reader[c].lost /\ reader[c].stream # stream
  /\ Has(c, [stream |-> reader[c].stream, base |-> reader[c].base,
             cursor |-> 0, lost |-> TRUE], <<>>)

Next ==
  \/ Publish \/ Replace
  \/ \E c \in Clients : Bootstrap(c) \/ Continue(c) \/ SkipAhead(c) \/ StartOver(c)

Spec == Init /\ [][Next]_vars
=============================================================================
