CONSTANTS
  t1 = t1
  t2 = t2
  Threads = {t1}
  SectorSize = 2
  DiskSize = 20
  StartingOffset = 4
  EndingOffset = 16
  LongHalf = 4
  QuadHalf = 32
  Distances = {}
  Longs <- SomeLongs
  ReadSizes = {}
  Overlaps = {}
  Faults = {}
SPECIFICATION Spec
INVARIANT SeekNearest
PROPERTY NoHighIsSigned
