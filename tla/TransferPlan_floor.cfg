SPECIFICATION PlanSpec
CONSTANTS
  NumGroups = 2
  PerToken = 64
  HeadDim = 1
  MaxImportance = 1
  Calls <- MCCalls
  Bandwidths = {1, 10, 25, 40, 200, 300, 400, 500, 600, 700, 900, 1500}
  TargetTime = 2
  MaxTime = 60
INVARIANTS
  QualityFloor
CHECK_DEADLOCK FALSE
