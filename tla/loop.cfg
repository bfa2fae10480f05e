CONSTANTS
  Null = Null
  Apps = {a1, a2}
  Loops = {l1, l2}
  MaxChanges = 2
  MaxLoads = 2
  Faults = {"CreateThread", "RegisterClassEx", "CreateWindowEx", "RegisterDeviceNotification",
            "UnregisterDeviceNotification"}
SPECIFICATION FairSpec
INVARIANTS TypeOK OneWindow Unregistered DetachCloses
PROPERTIES DetachReturns ThreadEnds ChangesCounted Listens
CHECK_DEADLOCK FALSE
