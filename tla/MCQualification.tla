-------------------------- MODULE MCQualification ---------------------------
(* The runtime, its bridge and the qualifier with one camera for TLC. *)
EXTENDS Qualification, TLC

CONSTANTS cam, blank, near, d1

MCSources == {cam}
MCScenes == {blank, near}
=============================================================================
