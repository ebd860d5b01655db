SPECIFICATION MCSpec
CONSTANTS
  ByteValues = 2
  ShiftUnderflows = 3
  Written <- MCWritten
  ReadRegs = {"TODHI", "TODMID", "TODLO", "ICR"}
  CraValues <- MCCra
  CrbValues <- MCCrb
  MaskFlags = {"ALRM", "FLG"}
  Pins = {"TOD", "FLAG", "SP"}
INVARIANT OneShotFiresOnce
INVARIANT TodReadAtomic
PROPERTY CascadeIsOneCounter
PROPERTY TodWriteAtomic
PROPERTY IrqHeldUntilServed
