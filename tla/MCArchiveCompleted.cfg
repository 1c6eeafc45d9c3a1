\* A file sent straight to the store, announced again with another print.
SPECIFICATION MCSpec
CHECK_DEADLOCK FALSE
CONSTANTS
  Scenes = {"dossiers"}
  Owners = {ada}
  Slots = {r1}
  Restorers = {}
  Alone = TRUE
  MaxNames = 1
  MaxRequests = 2
  MaxRefusals = 0
  MaxDeaths = 0
  Names = {d1, d2}
  MaxSteps = 0
  MaxFaults = 0
  MaxCrashes = 0
INVARIANTS
  RegisteredReadable
