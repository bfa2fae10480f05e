CONSTANTS
  t1 = t1
  t2 = t2
  Null = Null
  Threads = {t1, t2}
  Present <- AtTheEdge
  Volumes <- Mounted
  Slots = 4
  PartSlots = 4
  BlkPerMajor = 8
  MajorBit = 8
  Numbers = {1}
  Parts = {1, 4}
  Faults = {"SetupDiGetClassDevs", "SetupDiEnumDeviceInterfaces", "SetupDiGetDeviceInterfaceDetail", "CreateFile", "IOCTL_STORAGE_GET_DEVICE_NUMBER", "IOCTL_DISK_GET_DRIVE_GEOMETRY_EX", "IOCTL_DISK_GET_DRIVE_LAYOUT_EX"}
SPECIFICATION Spec
INVARIANTS TypeOK Owned NothingLost
