SPECIFICATION PartsSpec
CONSTANTS
  Options <- SmallQueues
  MaxItems = 4
  Faults = 1
  Capacity = 1
  MaxTakes = 2
  MaxStops = 1
  MaxBlocks = 1
  MaxFaults = 1
  Configs <- Sweeps
  MaxRuns = 2
  MaxPlans = 1
  MaxSweepFaults = 1
INVARIANTS
  NoBlockForgotten
  CompletedIsWhole
  SweepsAreTold
PROPERTIES
  CallsAndRunsEnd
CHECK_DEADLOCK FALSE
