\* Three processes and one organization; a pass may take all but one unit of the lease.
SPECIFICATION FairSpec
CONSTANTS
  Proc = {p1, p2, p3}
  Org = {o1}
  Cadence = 2
  Hours <- MCHours
  None = None
  TTL = 3
  MaxPass = 2
  Horizon = 2
  MaxFaults = 1
INVARIANTS
  OneTicker
  LeaseOutlivesTick
PROPERTIES
  CadenceKept
  SomebodyTicks
