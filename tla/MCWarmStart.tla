---------------------------- MODULE MCWarmStart ----------------------------
(* Instances of WarmStart for TLC; the bounds are in the configurations.    *)
EXTENDS WarmStart
=============================================================================
