CONSTANTS
  Buffers = {b1, b2, b3}
  None = None
  EventSpace = 2
  Cards <- MCCards
  NotFound = 99
SPECIFICATION MainSpec
INVARIANTS ModeIsTheLaterBest StrangeCrtcOnlyFrom NeverDrawsWhatIsShown
PROPERTIES ImplementsRing FlipsEnd
CHECK_DEADLOCK FALSE
