-------------------------- MODULE MCFrameDelivery --------------------------
(* FrameDelivery for TLC; its constants are given in the configuration. *)
EXTENDS FrameDelivery, TLC
=============================================================================
