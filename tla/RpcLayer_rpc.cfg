SPECIFICATION FairSpec
CONSTANTS
  c1 = c1
  c2 = c2
  Callers <- MCCallers
  MaxCalls = 3
  Environments <- MCEnvironments
INVARIANTS
  TypeOK
  OwnAnswer
  NoPendingLeak
PROPERTIES
  EveryCallEnds
CHECK_DEADLOCK FALSE
