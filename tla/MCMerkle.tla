------------------------------ MODULE MCMerkle ------------------------------
(* Merkle trees of up to MaxLeaves leaves over a few values, for TLC. *)
EXTENDS Merkle, TLC

CONSTANTS v1, v2, v3
=============================================================================
