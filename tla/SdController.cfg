SPECIFICATION Spec
CONSTANTS
  SectorSize = 2
  HalfByte = 1
  LbaBase = 2
  IntSectors = 3
  ImageSize = 5
  MaxImage = 7
PROPERTY ImplementsStore
CHECK_DEADLOCK FALSE
