--------------------------- MODULE MCStoreDrain ---------------------------
(* Instances of StoreDrain for TLC; the bounds are in the configuration.   *)
EXTENDS StoreDrain
=============================================================================
