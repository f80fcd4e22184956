SPECIFICATION Spec
CONSTANTS
  Callers = {ui}
  AcqCapacities = {1, 2}
  AcqPolicies = {"Block", "DropNewest", "DropOldest", "LatestWins"}
  TransientBlocks = 1
  SpectrumCapacity = 1
  EventCapacity = 1
  PoolFloor = 1
  Calls = {"configure", "start", "request_stop", "join", "reconfigure", "poll_events", "poll_spectrum_frames"}
  MaxBlocks = 4
  MaxGenerations = 1
  Faults = 1
INVARIANTS
  BlocksConserved
  RefusalIsMarked
CHECK_DEADLOCK FALSE
