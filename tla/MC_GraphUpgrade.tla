-------------------------- MODULE MC_GraphUpgrade --------------------------
(* Upgrades and changes are interchangeable. *)
EXTENDS GraphUpgrade, TLC

MCSymmetry == Permutations(Runs) \cup Permutations(Changes)
=============================================================================
