--------------------------- MODULE MC_SharedConfig ---------------------------
(* Three runs with two revisions and two payloads: a repeated revision, a     *)
(* changed payload and a new revision, in any overlap.                        *)
EXTENDS SharedConfig, TLC

MCSymmetry == Permutations(Runs)
=============================================================================
