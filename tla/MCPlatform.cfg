CONSTANTS
  MaxAddress = 15
  StackAlignment = 4
  Drams <- MCDrams
  DeviceRegions <- MCDeviceRegions
  Configs <- MCConfigs
  Images <- MCImages
  FlatSizes = {0, 2, 7}
  Vectors = {3, 6, 7, 12}
  MaxDevices = 2
SPECIFICATION Spec
CHECK_DEADLOCK FALSE
INVARIANTS RoutesToItsRegion EntryIsExecutable
PROPERTIES LoadIsAllOrNothing
