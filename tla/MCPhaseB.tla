----------------------------- MODULE MCPhaseB -----------------------------
(* Instances of PhaseB for TLC; the bounds are in the configuration.       *)
EXTENDS PhaseB
=============================================================================
