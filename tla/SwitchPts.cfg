SPECIFICATION Spec
CONSTANTS
  Loads = 2
  MaxFrames = 3
  Capacity = 2
  Interval = 2
  FrameDuration = 2
  FilePts = {0, 2, 4, 6}
PROPERTIES
  LiveEndsBeforeTarget
CHECK_DEADLOCK FALSE
