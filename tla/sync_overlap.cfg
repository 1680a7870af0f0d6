\* One process, the queue's dispatch, nothing fails: a backlog is enough.
SPECIFICATION Spec
CONSTANTS
  p1 = p1
  p2 = p2
  s1 = s1
  s2 = s2
  Proc = {p1, p2}
  Starter = {s1, s3}
  HomeOf <- MCHomeOf
  Conn = {c1}
  All = All
  Run = {r1, r2}
  None = None
  Queue = TRUE
  Refusals = 3
  MaxCrashes = 0
  MaxStalls = 0
INVARIANTS
  LockExcludes
CHECK_DEADLOCK FALSE
