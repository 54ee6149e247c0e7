SPECIFICATION Spec
CONSTANTS
  MaxTurns = 2
  NumChunks = 2
  Environments <- MCFp16Only
INVARIANTS
  ServerKeepsListening
