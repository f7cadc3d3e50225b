SPECIFICATION Spec
CONSTANTS
  Capacity = 3
  MaxFrames = 2
  Producers = {p1, p2}
  Consumers = {c1}
INVARIANTS
  NothingLost
