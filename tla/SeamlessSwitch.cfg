SPECIFICATION LiveSpec
CONSTANTS
  Loads = 2
  MaxFrames = 2
  Capacity = 1
  Interval = 2
  FrameDuration = 3
  FilePts = {1, 4}
INVARIANTS
  TypeOK
  OneWriterAtRest
  JoinedBeforeReleased
PROPERTIES
  
  OperationsReturn
CHECK_DEADLOCK FALSE
