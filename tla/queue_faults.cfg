\* A worker is killed, one stalls, and the handler of m3 kills its process.
SPECIFICATION FairSpec
CONSTANTS
  Worker = {w1, w2}
  p1 = p1
  p2 = p2
  Producer = {p1}
  Operator = {}
  m1 = m1
  m2 = m2
  m3 = m3
  k = k
  Msg = {m1, m3}
  KeyOf <- MCKeyOf
  NoKey = NoKey
  None = None
  Unknown = {}
  Poison = {m3}
  MaxAttempts = 2
  DrainLimit = 1
  ClaimAttempts = 1
  PruneDone = FALSE
  PruneDead = FALSE
  MaxCrashes = 1
  MaxStalls = 1
  MaxRetries = 0
INVARIANTS
  DoneMeansRan
  GivenUpOnlyWhenSpent
  OverrunBounded
PROPERTY
  Settles
