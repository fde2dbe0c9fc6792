\* Two repository calls, so that one starts on what a failed one left behind; three
\* faults befall one call or different ones.
CONSTANTS
  MaxCalls = 2
  MaxCommands = 2
  MaxFaults = 3
SPECIFICATION FairSpec
INVARIANTS
  TypeOK
  AllOrNothing
  LostReadPaysNothing
  OneFailurePerFault
PROPERTIES
  RedisRecovers
