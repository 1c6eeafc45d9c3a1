SPECIFICATION MCSpec
CHECK_DEADLOCK FALSE
CONSTANTS
  Years = {1, 2}
  YearUnits = 2
  Building = "building"
  Parts <- MCParts
  Chairs <- MCChairs
  Plans <- MCPlans
  OtherLabel = "renamed"
  Shares <- MCShares
  DwellingLife = 3
  Prices = {2, 3}
  Keys = {"k"}
  MaxMoves = 1
  MaxLot = 2
  None = None
INVARIANTS
  ClosedBaseKept
