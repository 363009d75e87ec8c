------------------------------- MODULE MCRuns -------------------------------
(* Instances of InventoryRuns for TLC. *)
EXTENDS InventoryRuns, TLC

Symmetry == Permutations(Vins) \cup Permutations(Series)
=============================================================================
