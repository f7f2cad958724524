-------------------------- MODULE MCSensorRegistry --------------------------
(* SensorRegistry on two sensors for TLC. *)
EXTENDS SensorRegistry, TLC

CONSTANTS s1, s2

MCSources == {s1, s2}

MCOneSource == {s1}

\* The sensor ids are interchangeable.
Symmetry == Permutations(MCSources)
=============================================================================
