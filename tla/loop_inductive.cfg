CONSTANTS
  Null = Null
  Apps = {a1, a2}
  Loops = {l1, l2}
  MaxChanges = 2
  MaxLoads = 2
  Faults = {"CreateThread", "RegisterClassEx", "CreateWindowEx", "RegisterDeviceNotification",
            "UnregisterDeviceNotification"}
SPECIFICATION Spec
INVARIANTS LoopInv Serving Accounting
CHECK_DEADLOCK FALSE
