SPECIFICATION LiveSpec
CONSTANTS
  MaxFrames = 2
  Capacity = 1
  Clients = 2
  Horizon = 3
  Tolerance = 1
  SameTimebase = 3
INVARIANTS
  TypeOK
  FramesAccounted
  SocketKeepsDescriptors
  StopReleases
PROPERTIES
  NeverEarly
  StopReturns
  FramesFlow
CHECK_DEADLOCK FALSE
