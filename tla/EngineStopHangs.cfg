SPECIFICATION LiveSpec
CONSTANTS
  Callers = {r1}
  NoCaller = NoCaller
  Main = Main
  Channels = {c1}
  Capacity = 3
  ReadyDepth = 2
PROPERTY StopAndSwitchReturn
CHECK_DEADLOCK FALSE
