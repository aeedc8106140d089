SPECIFICATION Spec
CONSTANTS
  Requests = {r1, r2}
  WithDocuments = {r2}
  Savers = {s1, s2}
  r1 = r1
  r2 = r2
  s1 = s1
  s2 = s2
  EarlyCap = 1
  HistoryCap = 2
  MaxSaves = 2
  MaxSessions = 2
  MaxFaults = 1
INVARIANTS ConsentKept
PROPERTIES OnlyWanted
CHECK_DEADLOCK FALSE
SYMMETRY Interchangeable
