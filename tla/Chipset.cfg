\* The Copper, DMACON and the blit that waits for it.
SPECIFICATION Spec
CONSTANTS
  RamWords = 2
  Lines = 5
  LineClocks = 5
  VBits = 2
  HBits = 3
  Positions <- McPositions
  Masks <- McMasks
INVARIANTS
  ListInStep
  BlitsAreServed
  NoWaitMissed
PROPERTIES
  CopperContained
