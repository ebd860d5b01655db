SPECIFICATION Spec
CONSTANTS
  Accesses <- MCAccesses
  WordBits = 4
  MemoryWords = 16
  HalfWords = 4
  MaxRows = 4
  MaxWidth = 3
  DmaBits = 4
  BitmapWords = 19
  Columns = 16
  FirstColumn = 252
  FirstRow = 254
  Rows = 3
  DdfMin = 24
  DdfMax = 216
INVARIANT AluRight
INVARIANT BlitsRight
INVARIANT ScreenShowsBitmap
INVARIANT BusFollowsItsMap
