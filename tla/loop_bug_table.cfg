CONSTANTS
  Null = Null
  Apps = {a1, a2}
  Loops = {l1, l2}
  MaxChanges = 1
  MaxLoads = 2
  Faults = {}
SPECIFICATION FairSpec
PROPERTY TableFollows
CHECK_DEADLOCK FALSE
