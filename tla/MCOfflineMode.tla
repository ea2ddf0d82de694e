---------------------------- MODULE MCOfflineMode ----------------------------
(***************************************************************************)
(* Instances of OfflineMode for TLC.  The clients and the fetches are      *)
(* interchangeable: no action compares two of them.                        *)
(***************************************************************************)
EXTENDS OfflineMode, TLC

Symmetry == Permutations(Clients) \union Permutations(Fetches)
=============================================================================
