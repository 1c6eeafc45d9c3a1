\* Two accounts, two requests at a time; a restore runs alone.
\* Once all requests are used up nothing more can happen.
SPECIFICATION MCSpec
CHECK_DEADLOCK FALSE
CONSTANTS
  Scenes = {"dossiers", "files"}
  Owners = {ada, bea}
  Slots = {r1, r2}
  Restorers = {ada}
  Alone = TRUE
  MaxNames = 2
  MaxRequests = 5
  MaxRefusals = 2
  MaxDeaths = 1
  Names = {d1, d2}
  MaxSteps = 5
  MaxFaults = 3
  MaxCrashes = 1
INVARIANTS
  ReadableUnlessWithdrawn
  RestoreAllOrNothing
  SafetyArchiveFirst
PROPERTIES
  RequestsEnd
  FileRestoreIsAtomic
