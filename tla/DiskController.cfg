SPECIFICATION LiveSpec
CONSTANTS
  WordBits = 3
  MaxLength = 2
  RamWords = 2
  WarpHold = 1
INVARIANT TransferIntact
INVARIANT NothingBeforeSync
INVARIANT Aligned
PROPERTY BlkMeansComplete
PROPERTY TransferEnds
PROPERTY WarpEnds
