\* Three threads in two processes, one company and the all-companies run.
SPECIFICATION FairSpec
CONSTANTS
  p1 = p1
  p2 = p2
  s1 = s1
  s2 = s2
  Proc = {p1, p2}
  Starter = {s1, s2, s3}
  HomeOf <- MCHomeOf
  Conn = {c1}
  All = All
  Run = {r1, r2, r3}
  None = None
  Queue = FALSE
  Refusals = 3
  MaxCrashes = 1
  MaxStalls = 0
INVARIANTS
  OnePull
  LockExcludes
PROPERTIES
  IsRunLedger
  NothingStuck
CHECK_DEADLOCK FALSE
