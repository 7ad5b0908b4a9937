------------------------ MODULE MCTransferServices ------------------------
(* Instances of TransferServices for TLC; the constants are in the .cfg files. *)
EXTENDS TransferServices
=============================================================================
