---------------------------- MODULE MCTxGenerator ----------------------------
(* The generator instantiated for TLC; the constants are given in the cfg. *)
EXTENDS TxGenerator, TLC
=============================================================================
