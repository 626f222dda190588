--------------------------- MODULE MCMerkleBatch ---------------------------
(* Instances of MerkleBatch for TLC. *)
EXTENDS MerkleBatch, TLC
=============================================================================
