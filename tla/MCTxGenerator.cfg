\* A debug build, throttles and step counts of 1 and 2, two-bit counters,
\* and set-transaction-type requests of a type the generator cannot build.
CONSTANTS
  Throttles = {1, 2}
  Counts = {1, 2}
  Width = 2
  MaxQueued = 2
  MaxTransactions = 1
  MadeBound = 3
  OverflowChecks = TRUE
  ApiTypes = {"known", "unknown"}
  Values = {50, 100}
  AckBound = 4
SPECIFICATION Spec
\* A generator that panicked on an unknown transaction type stops for good:
\* the API's sends then fail, and once the pool drains nothing moves.
CHECK_DEADLOCK FALSE
INVARIANTS
  TypeOK
  StepMakesAtMostCount
PROPERTIES
  StepEventuallyPauses
