SPECIFICATION FairSpec
CONSTANTS
  S = 3
  HandoffCap = 1
  MaxFaults = 2
INVARIANTS SpokenOrder CompleteIsComplete
PROPERTIES Drains Prompt
