SPECIFICATION Spec
CONSTANTS
  S = 1
  HandoffCap = 1
  MaxFaults = 0
INVARIANT EndAfterLast
