\* Two years, a loss carried over a horizon of one year.
SPECIFICATION Spec
CHECK_DEADLOCK FALSE
CONSTANTS
  NumYears = 2
  Horizon = 1
  Books <- MCLossBooks
  Additions = {0}
  MaxEntries = 2
  MaxStructure = 0
  MaxComputations = 3
  MaxGenerations = 2
INVARIANT
  SentBackToComputation
