CONSTANTS
  t1 = t1
  t2 = t2
  Threads = {t1}
  SectorSize = 2
  DiskSize = 30
  StartingOffset = 6
  EndingOffset = 26
  LongHalf = 4
  QuadHalf = 32
  Distances <- NearDistances
  Longs = {}
  ReadSizes = {2, 4, 6}
  Overlaps = {}
  Faults = {"read", "malloc"}
SPECIFICATION ReaderSpec
PROPERTY ReachesEnd
