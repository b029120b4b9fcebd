-------------------------- MODULE MCControlQueue --------------------------
(* Instances of ControlQueue for TLC; the bounds are in the configuration. *)
EXTENDS ControlQueue
=============================================================================
