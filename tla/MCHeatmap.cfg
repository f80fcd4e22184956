SPECIFICATION PartsSpec
CONSTANTS
  s1 = s1
  s2 = s2
  None = None
  Sources = {s1, s2}
  Untimed = {s2}
  Opened = s1
  LastFrame = 2
  Window = 2
  Chunk = 1
  MaxCommands = 1
  MaxMoves = 2
  Failing = {"job", "reader"}
  RemoveOthers = FALSE
INVARIANTS RollingIsExact FiguresAreTrue
PROPERTIES LayerIsCurrent Settles RequestsAreServed
CHECK_DEADLOCK FALSE
