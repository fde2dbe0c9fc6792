\* Every fault but a failed Redis call, locks that vanish under a running handler
\* included, and stamina for one battle and a half: two handlers that both saw
\* enough must not both pay.
CONSTANTS
  Servers = {s1, s2}
  Players = {p1}
  Unlocked = {p1}
  None = None
  MaxSeq = 2
  MaxStar = 1
  Cost = 2
  Gold = 1
  Diamond = 1
  InitStamina = 3
  Faults = {"crash", "slow", "mysql", "query", "commit"}
SPECIFICATION Spec
SYMMETRY ServerSymmetry
INVARIANTS
  BooksBalance
