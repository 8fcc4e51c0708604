\* A release build, where /transaction-generator/step?count=0 is accepted.
CONSTANTS
  Throttles = {1}
  Counts = {0, 1}
  Width = 2
  MaxQueued = 1
  MaxTransactions = 1
  MadeBound = 4
  OverflowChecks = FALSE
  ApiTypes = {"known"}
  Values = {50, 100}
  AckBound = 3
SPECIFICATION Spec
CHECK_DEADLOCK FALSE
INVARIANTS
  StepMakesAtMostCount
