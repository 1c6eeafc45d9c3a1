\* Opening: two years, the second opened from the first.
\* Losses carried over a horizon of one year; depreciation and structuring data.
\* Every bound can be used up: then nothing more can happen.
SPECIFICATION MCSpec
CHECK_DEADLOCK FALSE
CONSTANTS
  Exercises = {1, 2}
  Nets <- MCNets
  MaxPosted = 3
  MaxPrepared = 1
  MaxReopened = 1
  NoOpening = NoOpening
  NumYears = 3
  Horizon = 1
  Books <- MCBooks
  Additions = {0, 1}
  MaxEntries = 3
  MaxStructure = 2
  MaxComputations = 4
  MaxGenerations = 2
  MaxPairEntries = 2
  MaxPairComputations = 3
INVARIANTS
  UnclosedYearDrawsOnClosed
  OverdrawnOnlyByOlder
  ClosedYearKeepsItsProof
  OpeningStands
