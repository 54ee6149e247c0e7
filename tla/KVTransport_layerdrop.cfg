SPECIFICATION Spec
CONSTANTS
  Layers <- MCLayers
  NumLayers <- MCNumLayers
  SeqLen = 2
  ChunkSize = 1
  CheckInterval = 2
  NumGroups = 2
  InitialMaps <- MCMaps
  DequantOutcomes = {TRUE}
  WireCap = 2
INVARIANTS
  DeliveredWhole
