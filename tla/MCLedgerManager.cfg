\* Fault-free pipeline: ordering, commit at block boundaries, refinement of
\* LedgerSpec and liveness, with a two-slot channel that the sequencer fills
\* and then blocks on.
CONSTANTS
  b1 = b1
  b2 = b2
  b3 = b3
  b4 = b4
  b5 = b5
  b6 = b6
  t1 = t1
  t2 = t2
  t3 = t3
  t4 = t4
  t5 = t5
  t6 = t6
  Blocks <- MCBlocks
  Txs <- MCTxs
  LedgerOrder <- MCLedgerOrder
  BlockTxs <- MCBlockTxs
  Lazy <- MCLazy
  BufferSize = 2
  Faults = FALSE
SPECIFICATION Spec
INVARIANTS
  TypeOK
  ApplyInLedgerOrder
  CommitAtBlockBoundary
PROPERTIES
  ImplementsLedgerSpec
  ConfirmedEventuallyCommitted
