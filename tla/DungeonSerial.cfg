\* Crashes, failed Redis calls and statements and lost COMMIT replies, but no lock
\* that ends before its handler.
CONSTANTS
  Servers = {s1, s2}
  Players = {p1}
  Unlocked = {p1}
  None = None
  MaxSeq = 2
  MaxStar = 2
  Cost = 2
  Gold = 1
  Diamond = 1
  InitStamina = 5
  Faults = {"crash", "redis", "mysql", "commit"}
SPECIFICATION Spec
SYMMETRY ServerSymmetry
INVARIANTS
  TypeOK
  MutualExclusion
  OneOpenBattle
  FirstClearOnce
  EnterReplyTrue
  SettleReplyTrue
PROPERTIES
  ImplementsLedger
