\* Two connections, two packets on either, every fault.  The listener may be all
\* that is left (peers gone, process up): the loop then waits, so no deadlock check.
CONSTANTS
  Sockets = {c1, c2}
  Listener = Listener
  MaxPackets = 2
  Room = 1
  Faults = {"junk", "close", "crash", "accept"}
SPECIFICATION FairSpec
CHECK_DEADLOCK FALSE
INVARIANTS
  InputConserved
  OutputConserved
  HandledWasSent
  DisconnectToldOnce
PROPERTIES
  PatientPeersHarmless
  Answered
