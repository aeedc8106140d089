SPECIFICATION StalledSpec
CONSTANTS
  N = 4
  HandoffCap = 2
  MaxFaults = 2
  DiskMayStall = TRUE
  MayCrash = TRUE
INVARIANTS GapsRecorded CleanOutcome
PROPERTIES KeepsPromise StopFinishes
