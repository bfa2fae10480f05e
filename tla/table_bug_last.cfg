CONSTANTS
  t1 = t1
  t2 = t2
  Null = Null
  Threads = {t1}
  Present <- LastSlot
  Volumes <- Mounted
  Slots = 4
  PartSlots = 4
  BlkPerMajor = 8
  MajorBit = 8
  Numbers = {0, 1, 2, 3, 4}
  Parts = {0, 1, 2, 3, 4}
  Faults = {}
SPECIFICATION Spec
INVARIANT Detects
