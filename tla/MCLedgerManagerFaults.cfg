\* Every collaborator call may fail and panic the thread that made it; the
\* other thread then panics on the dropped channel end. Both threads may end
\* up dead, where the node really stops applying blocks, so deadlock is not
\* an error here. Ordering, block-boundary commits and the refinement must
\* survive every such crash.
CONSTANTS
  b1 = b1
  b2 = b2
  b3 = b3
  b4 = b4
  b5 = b5
  b6 = b6
  t1 = t1
  t2 = t2
  t3 = t3
  t4 = t4
  t5 = t5
  t6 = t6
  Blocks <- MCBlocks
  Txs <- MCTxs
  LedgerOrder <- MCLedgerOrder
  BlockTxs <- MCBlockTxs
  Lazy <- MCLazy
  BufferSize = 1
  Faults = TRUE
SPECIFICATION Spec
CHECK_DEADLOCK FALSE
INVARIANTS
  TypeOK
  ApplyInLedgerOrder
  CommitAtBlockBoundary
PROPERTIES
  ImplementsLedgerSpec
