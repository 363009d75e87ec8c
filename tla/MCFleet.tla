------------------------------- MODULE MCFleet -------------------------------
(* Instances of RqFleet for TLC. *)
EXTENDS RqFleet, TLC

Symmetry == Permutations(Jobs) \cup Permutations(Workers) \cup Permutations(Repairs)
=============================================================================
