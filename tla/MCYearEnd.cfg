\* Outputs: one year closed at most twice, two identities, two versions of the
\* rules.  Result: one year, two request ids, three confirmations.  Depreciation:
\* two years.  Engine: every input up to the bounds, for the last of four years,
\* horizon of two.
\* Every bound can be used up: then nothing more can happen.
SPECIFICATION MCSpec
CHECK_DEADLOCK FALSE
CONSTANTS
  Requests = {r1, r2}
  Operations <- MCOperations
  MaxEntries = 4
  MaxSent = 3
  AssetYears = {1, 2}
  YearUnits = 2
  Building = "building"
  Parts <- MCParts
  Chairs <- MCChairs
  Plans <- MCPlans
  OtherLabel = "renamed"
  Shares <- MCShares
  DwellingLife = 3
  Prices = {2, 3}
  Keys = {"k"}
  MaxMoves = 1
  MaxLot = 2
  None = None
  NumYears = 4
  Horizon = 2
  MaxAmount = 2
  MaxAdditions = 1
  Sirens = {s1, s2}
  NoSiren = NoSiren
  MaxBooked = 1
  MaxAssets = 1
  MaxRules = 2
  MaxClosings = 2
  MaxHanded = 1
SYMMETRY Symmetry
INVARIANTS
  ConfirmationPostedOnce
  PostedAsConfirmed
  PresentedResult
  LockedYearCentralized
  AppliesTheLaw
  BooksFollowRegister
  WholePlanDepreciated
  DotationOnce
  FinalCopiesAgree
  FrozenWarningsAcknowledged
  BlockedIsExplained
PROPERTIES
  ReportStands
