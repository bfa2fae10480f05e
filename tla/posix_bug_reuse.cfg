CONSTANTS
  t1 = t1
  t2 = t2
  o1 = o1
  o2 = o2
  h1 = h1
  h2 = h2
  Null = Null
  Threads = {t1, t2}
  Present <- TwoDisks
  Volumes <- Mounted
  Slots = 4
  PartSlots = 4
  BlkPerMajor = 8
  MajorBit = 8
  Numbers = {0}
  Parts = {0}
  Faults = {}
  Objs = {o1, o2}
  OSHandles = {h1, h2}
  Fds = {3, 4, 5}
  Paths <- OnePath
SPECIFICATION PosixSpec
INVARIANT LeadHomeOnce
CHECK_DEADLOCK FALSE
