CONSTANTS
  Null = Null
  Apps = {a1, a2}
  Loops = {l1, l2}
  MaxChanges = 2
  MaxLoads = 2
  Faults = {}
SPECIFICATION FairSpec
PROPERTY ListensAlways
CHECK_DEADLOCK FALSE
