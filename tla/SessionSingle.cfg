\* One login_server, nothing fails but keys expire.
CONSTANTS
  Servers = {s1}
  Accounts = {a1, a2}
  None = None
  MaxSeq = 4
  Faults = {}
SPECIFICATION Spec
SYMMETRY AccountSymmetry
\* Nobody has to log in, and the ids are bounded.
CHECK_DEADLOCK FALSE
INVARIANTS
  LatestLoginWins
PROPERTIES
  ImplementsPromise
