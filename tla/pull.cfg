SPECIFICATION FairSpec
CONSTANTS
  Docs = 3
  Windows = 2
  Bodies = {{}, {1}}
  OldBody <- MCOneRefused
  PageSize = 1
  MaxPages = 2
  MaxClock = 4
  MaxFaults = 1
  None = None
INVARIANTS
  CursorBehindRows
  LogWithinRows
  CoverageIsReal
  FullListingMirrors
  FullListingSweeps
PROPERTIES
  RetireNeedsCause
  SecondReadingNeedsCause
  Healed
