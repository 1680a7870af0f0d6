\* The queue's dispatch: two threads in one process, two processes that take messages,
\* runs that wait behind a backlog, a process killed, a phase longer than STALE_AFTER.
SPECIFICATION FairSpec
CONSTANTS
  p1 = p1
  p2 = p2
  s1 = s1
  s2 = s2
  Proc = {p1, p2}
  Starter = {s1, s3}
  HomeOf <- MCHomeOf
  Conn = {c1}
  All = All
  Run = {r1, r2}
  None = None
  Queue = TRUE
  Refusals = 1
  MaxCrashes = 1
  MaxStalls = 1
PROPERTIES
  EndsForGood
CHECK_DEADLOCK FALSE
