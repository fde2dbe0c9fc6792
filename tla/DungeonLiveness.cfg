\* Locks that vanish under a running handler, so that settles of one battle and
\* enters with its id meet in MySQL; a second player, below the required level,
\* asks for battles that are not its own.
CONSTANTS
  Servers = {s1, s2}
  Players = {p1, p2}
  Unlocked = {p1}
  None = None
  MaxSeq = 1
  MaxStar = 1
  Cost = 2
  Gold = 1
  Diamond = 1
  InitStamina = 5
  Faults = {"slow"}
SPECIFICATION FairClientSpec
INVARIANTS
  AlreadySettledTruthful
PROPERTIES
  HandlerEnds
  BattleSettles
