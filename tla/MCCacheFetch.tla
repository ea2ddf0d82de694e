---------------------------- MODULE MCCacheFetch ----------------------------
(* Instances of CacheFetch for TLC; callers and packs are interchangeable. *)
EXTENDS CacheFetch, TLC

Symmetry == Permutations(Callers) \union Permutations(Packs)
=============================================================================
