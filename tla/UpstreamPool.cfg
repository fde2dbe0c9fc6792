\* Two clients and three calls: a client is used again after a failure.  Once the
\* calls are made and answered nothing is left to do, so no deadlock check.
CONSTANTS
  Sockets = {c1, c2, c3}
  Listener = Listener
  NoSocket = NoSocket
  MaxPackets = 3
  PoolSize = 2
  Room = 1
  Faults = {"crash"}
SPECIFICATION PoolSpec
CHECK_DEADLOCK FALSE
INVARIANTS
  PoolTypeOK
  AnswerIsMine
PROPERTIES
  ImplementsCallPromise
  CallEnds
