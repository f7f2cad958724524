--------------------------- MODULE MCControlPlane ---------------------------
(* ControlPlane with two request handlers for TLC. *)
EXTENDS ControlPlane, TLC

CONSTANTS h1, h2

MCThreads == {h1, h2}

\* A heartbeat acknowledges command 0 and captures, or command 1 and stopped.
MCReports == {[active |-> TRUE, ack |-> 0], [active |-> FALSE, ack |-> 1]}

MCOneReport == {[active |-> TRUE, ack |-> 0]}

\* The handlers are interchangeable.
Symmetry == Permutations(MCThreads)
=============================================================================
