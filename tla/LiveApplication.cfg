SPECIFICATION FairSpec
CONSTANTS
  MaxControllers = 2
  MaxStarts = 2
  MaxFrames = 1
  Capacity = 1
  Sources = {s1}
  MaxRows = 2
INVARIANTS
  OnlyOwnIsShown
  DeviceIsExclusive
PROPERTIES
  SessionsEnd
CHECK_DEADLOCK FALSE
