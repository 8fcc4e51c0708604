-------------------------- MODULE MCLedgerManager --------------------------
(* The ledger pipeline on a small ledger for TLC: six confirmed blocks,  *)
(* one of them lazy, one with an empty transaction list.                  *)
EXTENDS LedgerManager, TLC

CONSTANTS b1, b2, b3, b4, b5, b6, t1, t2, t3, t4, t5, t6

MCBlocks == {b1, b2, b3, b4, b5, b6}
MCTxs == {t1, t2, t3, t4, t5, t6}
MCLedgerOrder == <<b1, b2, b3, b4, b5, b6>>
MCBlockTxs == [b \in MCBlocks |->
                 CASE b = b1 -> <<t1, t2>>
                   [] b = b2 -> <<t3>>
                   [] b = b3 -> <<>>
                   [] b = b4 -> <<t4>>
                   [] b = b5 -> <<t5, t3>>
                   [] b = b6 -> <<t6>>]
MCLazy == {b2}
=============================================================================
