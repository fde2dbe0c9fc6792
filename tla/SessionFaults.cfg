\* One login process that may restart between any two of its calls, and any of
\* them may fail.
CONSTANTS
  Servers = {s1}
  Accounts = {a1}
  None = None
  MaxSeq = 3
  Faults = {"crash", "redis"}
SPECIFICATION Spec
\* Nobody has to log in, and the ids are bounded.
CHECK_DEADLOCK FALSE
INVARIANTS
  FailuresLeaveStrays
