\* Nothing fails; a load and an Invalidate overlap.
CONSTANTS
  Readers = {r1}
  Writers = {w1}
  MaxWrites = 1
  Faults = {}
SPECIFICATION Spec
\* Nobody has to load a player, and the writes are bounded.
CHECK_DEADLOCK FALSE
INVARIANTS
  NoLoadDies
