-------------------------- MODULE MCAdaptiveQueue --------------------------
(* Instances of AdaptiveQueue for TLC. *)
EXTENDS AdaptiveQueue
=============================================================================
