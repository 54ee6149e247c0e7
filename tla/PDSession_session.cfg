SPECIFICATION FairSpec
CONSTANTS
  MaxTurns = 3
  NumChunks = 2
  Environments <- MCEnvironments
INVARIANTS
  TypeOK
  NoMutualWait
  AllTurnsServed
  AbktProbesResumed
PROPERTIES
  TurnsSpec
