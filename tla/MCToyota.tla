------------------------------- MODULE MCToyota -------------------------------
(* Instances of ToyotaIngest for TLC. *)
EXTENDS ToyotaIngest, TLC

Symmetry == Permutations(Vins) \cup Permutations(Models)
=============================================================================
