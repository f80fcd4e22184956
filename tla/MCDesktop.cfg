SPECIFICATION PartsSpec
CONSTANTS
  None = None
  Nothing = Nothing
  Uris = {r1, r2}
  Readable = {r1}
  DefaultRates <- TwoRates
  OwnRates <- OneRate
  MaxTasks = 5
  MaxWaiting = 1
  MaxDialogs = 1
  Sources = {s1, s2}
  Large = {s1}
  LastFrame = 1
  MaxCache = 2
  MaxCommands = 1
  MaxMoves = 3
  MaxFailures = 1
INVARIANTS
  LiveIsTold
PROPERTIES
  PlaybackArrives
CHECK_DEADLOCK FALSE
