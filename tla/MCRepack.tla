----------------------------- MODULE MCRepack -----------------------------
(* Instances of Repack for TLC; the bounds are in the configurations.       *)
EXTENDS Repack
=============================================================================
