CONSTANTS
  t1 = t1
  t2 = t2
  Threads = {t1, t2}
  SectorSize = 2
  DiskSize = 10
  StartingOffset = 4
  EndingOffset = 8
  LongHalf = 4
  QuadHalf = 32
  Distances <- FewDistances
  Longs = {}
  ReadSizes = {}
  Overlaps = {}
  Faults = {"seek"}
SPECIFICATION Spec
INVARIANT SeeksInside
