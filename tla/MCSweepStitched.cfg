SPECIFICATION PartsSpec
CONSTANTS
  Options <- SmallQueues
  MaxItems = 1
  Faults = 0
  Capacity = 1
  MaxTakes = 1
  MaxStops = 0
  MaxBlocks = 0
  MaxFaults = 0
  Configs <- Sweeps
  MaxRuns = 2
  MaxPlans = 1
  MaxSweepFaults = 1
INVARIANTS
  CompletedSegmentsAreStitched
CHECK_DEADLOCK FALSE
