SPECIFICATION Spec
CONSTANTS
  Layers = {0, 1, 2}
  NumLayers = 3
  SeqLen = 3
  ChunkSize = 2
  CheckInterval = 2
  NumGroups = 4
  InitialMaps <- MCMaps
  DequantOutcomes = {TRUE}
  WireCap = 3
PROPERTIES
  DowngradeTakesEffect
