----------------------- MODULE MCSensorChangeJournal -----------------------
(* SensorChangeJournal with two distinct events for TLC. *)
EXTENDS SensorChangeJournal, TLC

CONSTANTS c1, c2

MCClients == {c1, c2}

MCOneClient == {c1}

\* Two different events; the newer one may carry the older revision.
MCEvents == {[id |-> "registered", revision |-> 2],
             [id |-> "control_changed", revision |-> 1]}

Symmetry == Permutations(MCClients)
=============================================================================
