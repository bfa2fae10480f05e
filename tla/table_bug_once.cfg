CONSTANTS
  t1 = t1
  t2 = t2
  Null = Null
  Threads = {t1, t2}
  Present <- TwoDisks
  Volumes <- Mounted
  Slots = 4
  PartSlots = 4
  BlkPerMajor = 8
  MajorBit = 8
  Numbers = {0}
  Parts = {0}
  Faults = {}
SPECIFICATION Spec
INVARIANTS BuiltOnce Detects
