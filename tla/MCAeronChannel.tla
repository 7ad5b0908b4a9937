-------------------------- MODULE MCAeronChannel --------------------------
(* Instances of AeronChannel for TLC; the constants are in the .cfg files. *)
EXTENDS AeronChannel, TLC

\* the channels are interchangeable
Symmetry == Permutations(Channels)
=============================================================================
