SPECIFICATION Spec
CONSTANTS
  AddressSpace = 64
  Levels = {0, 7}
  Unmapped <- MCUnmapped
  Targets = {0, 1}
  Pointers = {0, 35, 40}
  SrWrites <- MCSrWrites
  DataAddresses = {23, 36}
  MovemCounts = {0, 1}
  Displacements <- MCDisplacements
  UserStack <- MCUserStack
  SystemStack <- MCSystemStack
  Code = {0, 2, 6}
  MaxFrames = 2
PROPERTY TakesBusErrors
