---------------------------- MODULE MCCachePair ----------------------------
(* Instances of CachePair for TLC: the bounds are given in the .cfg files. *)
EXTENDS CachePair
=============================================================================
