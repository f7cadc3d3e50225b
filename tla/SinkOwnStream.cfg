SPECIFICATION Spec
CONSTANTS
  MaxFrames = 2
  Capacity = 1
  Clients = 2
  Horizon = 3
  Tolerance = 1
  SameTimebase = 3
INVARIANTS
  OwnStream
CHECK_DEADLOCK FALSE
