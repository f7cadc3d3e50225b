SPECIFICATION Spec
CONSTANTS
  Submitters = {s1, s2}
  QueueSlots = 4
  Script <- OneEvent
  MaxStarts = 1
INVARIANT NothingLost
CHECK_DEADLOCK FALSE
