\* Bea uploads while Ada restores.
SPECIFICATION MCSpec
CHECK_DEADLOCK FALSE
CONSTANTS
  Scenes = {"dossiers"}
  Owners = {ada, bea}
  Slots = {r1, r2}
  Restorers = {ada}
  Alone = FALSE
  MaxNames = 1
  MaxRequests = 3
  MaxRefusals = 0
  MaxDeaths = 0
  Names = {d1, d2}
  MaxSteps = 0
  MaxFaults = 0
  MaxCrashes = 0
PROPERTIES
  OthersFilesSurvive
