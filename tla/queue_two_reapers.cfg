\* One worker is killed; nobody stalls.  Two workers reap the dead claim.
SPECIFICATION Spec
CONSTANTS
  Worker = {w1, w2}
  p1 = p1
  p2 = p2
  Producer = {p1}
  Operator = {}
  m1 = m1
  m2 = m2
  m3 = m3
  k = k
  Msg = {m3}
  KeyOf <- MCKeyOf
  NoKey = NoKey
  None = None
  Unknown = {}
  Poison = {}
  MaxAttempts = 2
  DrainLimit = 1
  ClaimAttempts = 1
  PruneDone = FALSE
  PruneDead = FALSE
  MaxCrashes = 1
  MaxStalls = 0
  MaxRetries = 0
INVARIANT
  OneRunner
