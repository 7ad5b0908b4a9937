-------------------------- MODULE MCMatchingEngine --------------------------
(* Instances of MatchingEngine for TLC; the constants are in the .cfg file. *)
EXTENDS MatchingEngine, TLC

Symmetry == Permutations(Users) \cup Permutations(OrderIds)
=============================================================================
