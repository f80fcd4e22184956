SPECIFICATION PartsSpec
CONSTANTS
  take = take
  take2 = take2
  rx1 = rx1
  rx2 = rx2
  Nothing = Nothing
  Unreadable = Unreadable
  Targets <- TwoTargets
  NoTarget = NoTarget
  Capacity = 1
  FlushEvery = 2
  MaxBlocks = 2
  MaxCommands = 6
  MaxCrashes = 1
  MaxTimeouts = 1
  MaxFaults = 1
  MaxKept = 2
  MaxRecords = 4
  MaxFlushes = 1
  MaxEnds = 1
  MaxFailures = 1
INVARIANTS
  ReplayableIsWhole
  StatusIsTrue
  FlushedIsKept
PROPERTIES
  DurableBlocksSurvive
  NothingRunsForEver
  CalibrationIsSound
CHECK_DEADLOCK FALSE
