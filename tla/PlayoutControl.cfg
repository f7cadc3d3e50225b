SPECIFICATION Spec
CONSTANTS
  Commands = {a}
  NoId = NoId
  MaxPts = 1
  MaxEvents = 6
INVARIANTS
  TransientStatesInvisible
  SamplesMatchTransitions
  EffectAtMostOnce
  WalkUnlessRejected
PROPERTIES
  ErrorLeftOnlyByCommand
CHECK_DEADLOCK FALSE
