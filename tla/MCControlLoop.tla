--------------------------- MODULE MCControlLoop ---------------------------
(* ControlLoop with one sensor and every kind of producer for TLC. *)
EXTENDS ControlLoop

MCProducers == {"desktop", "android"}
=============================================================================
