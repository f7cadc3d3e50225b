SPECIFICATION LiveSpec
CONSTANTS
  Callers = {r1, r2}
  NoCaller = NoCaller
  Main = Main
  Channels = {c1}
  Capacity = 3
  ReadyDepth = 2
INVARIANTS
  TypeOK
  NoThreadOutlivesRing
  NoOrphanChannel
  OneLateFrame
PROPERTIES
  TeardownEnds
  StartAndLoadReturn
CHECK_DEADLOCK FALSE
