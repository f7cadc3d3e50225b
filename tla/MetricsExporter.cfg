SPECIFICATION LiveSpec
CONSTANTS
  Submitters = {s1}
  QueueSlots = 3
  Script <- ThreeEvents
  MaxStarts = 2
INVARIANTS
  TypeOK
  NothingLost
  SettledTablesAgree
  StopFlushes
  DrainedMeansApplied
PROPERTIES
  StopReturns
  AcceptedIsProcessed
CHECK_DEADLOCK FALSE
