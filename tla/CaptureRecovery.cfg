SPECIFICATION RecoverySpec
CONSTANTS
  N = 3
  HandoffCap = 1
  MaxFaults = 2
  DiskMayStall = FALSE
  MayCrash = TRUE
  Tasks = {t1, t2}
  t1 = t1
  t2 = t2
  RemovalAtomic = FALSE
INVARIANTS UndisturbedPlayback WarningFreeIsKept SuccessIsWhole
PROPERTY WarningPermanent
SYMMETRY Commands
