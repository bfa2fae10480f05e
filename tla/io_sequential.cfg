CONSTANTS
  t1 = t1
  t2 = t2
  Threads = {t1}
  SectorSize = 2
  DiskSize = 20
  StartingOffset = 4
  EndingOffset = 16
  LongHalf = 4
  QuadHalf = 32
  Distances <- FarDistances
  Longs <- SomeLongs
  ReadSizes = {0, 1, 2, 3, 4, 5, 6, 7}
  Overlaps = {0, 6, 20}
  Faults = {"seek", "resync", "read", "malloc"}
SPECIFICATION Spec
INVARIANTS TypeOK Confined Synced IOInv
PROPERTY ImplementsFile
