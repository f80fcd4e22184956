SPECIFICATION Spec
CONSTANTS
  Values = {1, 2}
  MaxCalls = 2
  MaxTrouble = 2
  MaxSamples = 2
  None = None
  Cases = 2
  LogCapacity = 1
  MaxTasks = 3
INVARIANTS
  WindowsAreExact
  FailoverIsExact
  BlocksSayTheTruth
  DiagnosticsAreTold
CHECK_DEADLOCK FALSE
