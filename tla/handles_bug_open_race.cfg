CONSTANTS
  t1 = t1
  t2 = t2
  o1 = o1
  o2 = o2
  o3 = o3
  h1 = h1
  h2 = h2
  h3 = h3
  Null = Null
  Threads = {t1, t2}
  Drives <- OneDrive
  Objs = {o1, o2}
  OSHandles = {h1, h2}
  MayOpen <- Everywhere
  MayClose <- Nowhere
  MayAsk <- Nowhere
  Faults = {}
SPECIFICATION Spec
INVARIANT HeldListed
