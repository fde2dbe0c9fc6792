\* One game_server and two dungeon handlers that may overlap; no call fails.
CONSTANTS
  Readers = {r1}
  Writers = {w1, w2}
  MaxWrites = 2
  Faults = {"slow"}
SPECIFICATION FairSpec
\* Nobody has to load a player, and the writes are bounded.
CHECK_DEADLOCK FALSE
INVARIANTS
  AnswerWasReal
  PaidProgressShown
PROPERTIES
  StaleEnds
