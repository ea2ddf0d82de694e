----------------------------- MODULE MCPackPins -----------------------------
(* Instances of PackPins for TLC; packs and keys are interchangeable. *)
EXTENDS PackPins, TLC

Symmetry == Permutations(Packs) \union Permutations(Keys)
=============================================================================
