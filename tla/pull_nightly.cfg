SPECIFICATION Spec
CONSTANTS
  Docs = 2
  Windows = 2
  Bodies = {{1}}
  OldBody <- MCAllSold
  PageSize = 2
  MaxPages = 1
  MaxClock = 4
  MaxFaults = 0
  None = None
INVARIANTS
  NightlyReads
