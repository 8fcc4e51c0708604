\* One address per submitter thread; the pool fills only when the last nonce is submitted.
CONSTANTS
  api = api
  gen = gen
  a1 = a1
  a2 = a2
  Submitters <- MCSubmitters
  Addrs <- MCAddrs
  Uses <- UsesOwn
  NonceBound = 3
  MaxTransactions = 4
  BatchSize = 2
SPECIFICATION Spec
\* Once every nonce is used, mined and applied nothing is left to do.
CHECK_DEADLOCK FALSE
INVARIANTS
  TypeOK
  NonceOrderPreserved
  ApplierNeverFails
