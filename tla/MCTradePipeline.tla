-------------------------- MODULE MCTradePipeline --------------------------
(* Instances of TradePipeline for TLC; the constants are in the .cfg files. *)
EXTENDS TradePipeline, TLC

Symmetry == Permutations(Orders)
=============================================================================
