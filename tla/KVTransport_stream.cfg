SPECIFICATION FairSpec
CONSTANTS
  Layers = {0, 1, 2}
  NumLayers = 3
  SeqLen = 5
  ChunkSize = 2
  CheckInterval = 2
  NumGroups = 4
  InitialMaps <- MCMaps
  DequantOutcomes = {TRUE, FALSE}
  WireCap = 3
INVARIANTS
  TypeOK
  DeliveredWhole
  NoAssemblyTimeout
  NothingLeftBehind
PROPERTIES
  DowngradeOnly
  EventuallyOver
  DeliverySpec
