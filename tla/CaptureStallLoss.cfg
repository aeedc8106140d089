SPECIFICATION Spec
CONSTANTS
  N = 2
  HandoffCap = 1
  MaxFaults = 0
  DiskMayStall = TRUE
  MayCrash = FALSE
INVARIANT AcceptedKept
