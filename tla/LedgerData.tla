----------------------------- MODULE LedgerData -----------------------------
(***************************************************************************)
(* What the ledger pipeline of src/src/ledger_manager/mod.rs reads from    *)
(* its collaborators. The Chain's update_ledger hands out the confirmed    *)
(* block hashes of a monotone ledger, a few at a time; the BlockDatabase   *)
(* gives each block's header.extra_content and its transaction list.       *)
(***************************************************************************)
EXTENDS Naturals, Sequences

CONSTANTS
  Blocks,       \* block hashes
  Txs,          \* transactions
  LedgerOrder,  \* the confirmed blocks, in the order the Chain confirms them
  BlockTxs,     \* the transaction list of each block's Content::Transaction
  Lazy          \* blocks whose extra_content is LAZY_ANNOTATION

ASSUME LedgerDataAssumption ==
  /\ LedgerOrder \in Seq(Blocks)
  /\ \A i, j \in 1..Len(LedgerOrder) : LedgerOrder[i] = LedgerOrder[j] => i = j
  /\ BlockTxs \in [Blocks -> Seq(Txs)]
  /\ Lazy \subseteq Blocks

(* What the sequencer forwards for block b: nothing if b is lazy, else its *)
(* whole transaction list as one unit.                                     *)
Contribution(b) == IF b \in Lazy THEN <<>> ELSE BlockTxs[b]

(* The transactions of the first n confirmed blocks, in ledger order and   *)
(* list order: the order in which they must be applied.                    *)
StreamUpTo[n \in 0..Len(LedgerOrder)] ==
  IF n = 0 THEN <<>> ELSE StreamUpTo[n - 1] \o Contribution(LedgerOrder[n])
=============================================================================
