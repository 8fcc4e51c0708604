---------------------------- MODULE MCMemoryPool ----------------------------
(* The memory pool and its callers on a small instance for TLC. *)
EXTENDS MemoryPool, TLC

CONSTANTS t1, t2, t3

MCTxs == {t1, t2, t3}

(* Transactions are interchangeable model values. *)
MCSymmetry == Permutations(MCTxs)
=============================================================================
