\* Three requests that audit up to two of four changes, and one that verifies; three tries.
SPECIFICATION FairSpec
CONSTANTS
  Txn = {t1, t2, t3}
  Verifier = {v1}
  Change = {c1, c2, c3, c4}
  GENESIS = GENESIS
  MAX_ATTEMPTS = 3
  PerTxn = 2
INVARIANTS
  ChainVerifies
  ChangeIffEntry
  RemovalSeen
PROPERTIES
  IsAppendOnly
  VerdictIsTrue
  AppendEnds
CHECK_DEADLOCK FALSE
