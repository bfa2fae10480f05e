CONSTANTS
  t1 = t1
  t2 = t2
  o1 = o1
  o2 = o2
  o3 = o3
  h1 = h1
  h2 = h2
  h3 = h3
  Null = Null
  Threads = {t1}
  Drives <- TwoDrives
  Objs = {o1, o2}
  OSHandles = {h1, h2, h3}
  MayOpen <- Everywhere
  MayClose <- Everywhere
  MayAsk <- Everywhere
  Faults = {"CreateFile", "SetFilePointerEx", "calloc", "CloseHandle"}
SPECIFICATION FairSpec
INVARIANTS TypeOK HandlesAccounted
PROPERTIES AnswersRight CallsReturn
