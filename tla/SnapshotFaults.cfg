\* Two readers and every failure.
CONSTANTS
  Readers = {r1, r2}
  Writers = {w1}
  MaxWrites = 1
  Faults = {"crash", "redis", "query", "slow"}
SPECIFICATION Spec
SYMMETRY ReaderSymmetry
\* Nobody has to load a player, and the writes are bounded.
CHECK_DEADLOCK FALSE
INVARIANTS
  WritesSeen
