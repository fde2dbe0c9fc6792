\* Two accounts on two connections, or one on both; a login between the two requests
\* may be one elsewhere.
CONSTANTS
  Accounts = {a1, a2}
  MaxSeq = 2
  Connections = {c1, c2}
  MaxRequests = 2
  None = None
  Faults = {"crash", "elsewhere"}
SPECIFICATION Spec
SYMMETRY GatewaySymmetry
\* All connections may be closed and all requests made.
CHECK_DEADLOCK FALSE
INVARIANTS
  TypeOK
  ServedOnlyCurrent
  BindingEarned
  LoginBinds
  RepliesTruthful
PROPERTIES
  SwitchesByLogin
