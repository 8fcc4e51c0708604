\* Three transactions, a cap of max_transactions = 1 (two entries), a
\* generator throttle of 2, blocks of up to 2 transactions, 6 submissions.
CONSTANTS
  t1 = t1
  t2 = t2
  t3 = t3
  Txs <- MCTxs
  MaxTransactions = 1
  Throttle = 2
  BatchSize = 2
  CallBound = 6
SYMMETRY MCSymmetry
SPECIFICATION Spec
INVARIANTS
  TypeOK
  IndexesAgree
  PoolWithinCap
