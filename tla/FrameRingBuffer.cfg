SPECIFICATION LiveSpec
CONSTANTS
  Capacity = 3
  MaxFrames = 7
  Producers = {p1}
  Consumers = {c1}
INVARIANTS
  PopReturnsNext
  PeekStaysValid
  NoSlotRace
  ObserversAreSafe
PROPERTIES
  ImplementsQueue
  EveryFrameDelivered
