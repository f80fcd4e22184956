SPECIFICATION PartsSpec
CONSTANTS
  owner = owner
  Callers <- OneCaller
  Configs <- TransportConfigs
  Calls = {"configure", "start", "stop", "join"}
  MaxBlocks = 3
  MaxSessions = 1
  Faults = 1
  SweepConfigs <- TwoSweeps
  None = None
  MaxCommands = 5
INVARIANTS
  NoBlockHidden
  FailureIsShown
  SweepIsTold
PROPERTIES
  NobodyIsStuck
CHECK_DEADLOCK FALSE
