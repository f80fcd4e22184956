SPECIFICATION FairSpec
CONSTANTS
  Callers = {ui, shutdown}
  AcqCapacities = {1}
  AcqPolicies = {"Block"}
  TransientBlocks = 0
  SpectrumCapacity = 1
  EventCapacity = 1
  PoolFloor = 1
  Calls = {"configure", "start", "stop", "disconnect"}
  MaxBlocks = 1
  MaxGenerations = 2
  Faults = 1
INVARIANTS
  StateIsTrue
PROPERTIES
  DisconnectIsTerminal
  CallsReturn
CHECK_DEADLOCK FALSE
