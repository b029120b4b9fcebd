-------------------------- MODULE MCVirtualReads --------------------------
(* Instances of VirtualReads for TLC; the bounds are in the configurations. *)
EXTENDS VirtualReads
=============================================================================
