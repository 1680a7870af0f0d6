\* Two workers and two producers of one piece of work, nobody crashes or stalls.
\* m3 has no handler.
SPECIFICATION Spec
CONSTANTS
  Worker = {w1, w2}
  p1 = p1
  p2 = p2
  Producer = {p1, p2}
  Operator = {o1}
  m1 = m1
  m2 = m2
  m3 = m3
  k = k
  Msg = {m1, m2, m3}
  KeyOf <- MCSameWork
  NoKey = NoKey
  None = None
  Unknown = {m3}
  Poison = {}
  MaxAttempts = 2
  DrainLimit = 2
  ClaimAttempts = 2
  PruneDone = TRUE
  PruneDead = TRUE
  MaxCrashes = 0
  MaxStalls = 0
  MaxRetries = 1
SYMMETRY Alike
INVARIANTS
  ExclusiveRun
  InFlightBounded
PROPERTY
  IsWorkQueue
