SPECIFICATION Spec
CONSTANTS
  Requests = {r1, r2}
  WithDocument = {r2}
  r1 = r1
  r2 = r2
  MaxActive = 1
  MaxEdits = 1
  MaxBackups = 1
  MaxFaults = 1
INVARIANTS VerifiedIsTrue DeletedIsGone OnlyRegisteredRun
PROPERTIES OnlyWanted

