\* A debug build whose operator only ever requests types the generator
\* builds; value distributions over min, max in {50, 100}, equal ones too.
CONSTANTS
  Throttles = {1, 2}
  Counts = {1, 2}
  Width = 2
  MaxQueued = 2
  MaxTransactions = 1
  MadeBound = 3
  OverflowChecks = TRUE
  ApiTypes = {"known"}
  Values = {50, 100}
  AckBound = 3
SPECIFICATION Spec
\* Once AckBound requests were answered, the API stops and the generator
\* stops at MadeBound: the bounds, not the code, end the behaviour.
CHECK_DEADLOCK FALSE
INVARIANTS
  GeneratorNeverPanics
PROPERTIES
  OkMeansHandled
