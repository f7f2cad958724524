---------------------------- MODULE FrameLedger ----------------------------
(***************************************************************************)
(* What the delivery of frames promises whoever reads the core's account   *)
(* of one source: a frame is taken in, or the loss of it has been counted  *)
(* by the time a later frame is taken in.  Frames may be counted as lost   *)
(* that were not; the account never flatters.                              *)
(***************************************************************************)
EXTENDS Naturals, FiniteSets

VARIABLES
  accepted,   \* the frames taken in
  counted     \* the losses the core was told of

vars == <<accepted, counted>>

Losses(set, s) == {q \in 0 .. s - 1 : q \notin set}

Init == accepted = {} /\ counted = 0

Accept(s, dropped) ==
  /\ accepted' = accepted \cup {s}
  /\ counted' = counted + dropped
  /\ Cardinality(Losses(accepted', s)) <= counted'

\* A frame is named by its sequence; drops is what it reports.
Next == \E s \in accepted', drops \in 0 .. counted' : Accept(s, drops)

Spec == Init /\ [][Next]_vars
=============================================================================
