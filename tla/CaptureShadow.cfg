SPECIFICATION RecoverySpec
CONSTANTS
  N = 2
  HandoffCap = 1
  MaxFaults = 1
  DiskMayStall = FALSE
  MayCrash = TRUE
  Tasks = {t1}
  t1 = t1
  RemovalAtomic = FALSE
INVARIANT PlaybackCovers
