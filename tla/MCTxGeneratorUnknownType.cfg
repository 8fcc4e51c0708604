\* The operator may request a type the generator cannot build.
CONSTANTS
  Throttles = {1}
  Counts = {1}
  Width = 2
  MaxQueued = 2
  MaxTransactions = 1
  MadeBound = 2
  OverflowChecks = TRUE
  ApiTypes = {"known", "unknown"}
  Values = {50, 100}
  AckBound = 3
SPECIFICATION Spec
CHECK_DEADLOCK FALSE
PROPERTIES
  OkMeansHandled
