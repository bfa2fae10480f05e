CONSTANTS
  t1 = t1
  t2 = t2
  Threads = {t1, t2}
  SectorSize = 2
  DiskSize = 20
  StartingOffset = 4
  EndingOffset = 8
  LongHalf = 4
  QuadHalf = 32
  Distances = {}
  Longs = {}
  ReadSizes = {2, 4}
  Overlaps = {}
  Faults = {}
SPECIFICATION Spec
INVARIANT ReadsInside
