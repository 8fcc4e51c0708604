\* The API thread and the generator both send from the first address.
CONSTANTS
  api = api
  gen = gen
  a1 = a1
  a2 = a2
  Submitters <- MCSubmitters
  Addrs <- MCAddrs
  Uses <- UsesShared
  NonceBound = 2
  MaxTransactions = 5
  BatchSize = 2
SPECIFICATION Spec
CHECK_DEADLOCK FALSE
INVARIANTS
  ApplierNeverFails
