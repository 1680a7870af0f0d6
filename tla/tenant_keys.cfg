SPECIFICATION FairSpec
CONSTANTS
  s1 = s1
  s2 = s2
  e1 = e1
  e2 = e2
  k1 = k1
  k2 = k2
  Sessions = {s1, s2}
  Operators = {s1}
  Entities = {e1, e2}
  Keks = {k1, k2}
  Credential = k2
  MaxDeks = 3
  MaxFaults = 1
  None = None
INVARIANTS
  NoOrphanCiphertext
  ErasedStaysUnreadable
  ReceiptIffDestroyed
  WorkingKeyKept
PROPERTIES
  VaultHeals
