CONSTANTS
  t1 = t1
  t2 = t2
  o1 = o1
  o2 = o2
  o3 = o3
  h1 = h1
  h2 = h2
  h3 = h3
  Null = Null
  Threads = {t1, t2}
  Drives <- TwoDrives
  Objs = {o1, o2, o3}
  OSHandles = {h1, h2, h3}
  MayOpen <- DriveEach
  MayClose <- SecondCloses
  MayAsk <- SecondAsks
  Faults = {}
SYMMETRY Symmetry
SPECIFICATION Spec
INVARIANTS HeldListed NoUndefined Rings
PROPERTY ImplementsList
