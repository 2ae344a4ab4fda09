------------------------------ MODULE MCEngine ------------------------------
(* Instances of the engine for TLC. *)
EXTENDS EngineSafety, TLC

Symmetry == Permutations(Producers) \cup Permutations(Clients) \cup Permutations(Contents)
=============================================================================
