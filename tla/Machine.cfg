SPECIFICATION LiveSpec
CONSTANTS
  Costs = {2, 4}
  ClockCycles = 2
  FrameClocks = 3
  EClock = 2
  Masks = {0, 2, 3}
INVARIANT NoDrift
PROPERTY OncePerRequest
PROPERTY NotPassedOver
PROPERTY FrameEnds
