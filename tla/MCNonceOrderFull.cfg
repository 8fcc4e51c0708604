\* The generator alone, against a pool of max_transactions = 0.
CONSTANTS
  api = api
  gen = gen
  a1 = a1
  a2 = a2
  Submitters <- GenOnly
  Addrs <- MCAddrs
  Uses <- UsesGen
  NonceBound = 3
  MaxTransactions = 0
  BatchSize = 1
SPECIFICATION Spec
CHECK_DEADLOCK FALSE
INVARIANTS
  ApplierNeverFails
