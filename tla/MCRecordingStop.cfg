SPECIFICATION PartsSpec
CONSTANTS
  Options <- DefaultPolicy
  MaxItems = 3
  Faults = 1
  Capacity = 1
  MaxTakes = 1
  MaxStops = 0
  MaxBlocks = 0
  MaxFaults = 0
  Configs <- Sweeps
  MaxRuns = 2
  MaxPlans = 1
  MaxSweepFaults = 1
PROPERTIES
  ErrorsAreDelivered
CHECK_DEADLOCK FALSE
