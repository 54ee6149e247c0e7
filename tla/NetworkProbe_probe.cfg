SPECIFICATION MCSpec
CONSTANTS
  Bandwidths = {7, 20, 40}
  Rtts = {2, 30}
  PoorBw = 15
  GoodBw = 40
  GoodRtt = 10
  DowngradeVotes = 2
  DowngradeWindow = 3
  UpgradeVotes = 4
  UpgradeWindow = 5
  WindowSize = 3
  ColdBw = 15
  ConfidenceTransfers = 1
  ProbeRatio = 2
  DecayStart = 0
  DecaySteps = 2
  ProbesPerBw <- MCProbesPerBw
  Cycle = 2
  NoLink = 0
  ProbeEnvironments <- MCProbeEnvironments
  Horizon = 2
INVARIANTS
  NeverTooOptimistic
  ConvergesOnSteady
  ProbeTypeOK
  EstimateInMargin
  EstimateWithinLink
PROPERTIES
  NoInstantRecovery
  StateFollowsLink
