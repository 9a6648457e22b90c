CONSTANTS
  TransmitDelay <- MCTransmitDelay
  CyclesPerTick = 2
  MaxInput = 2
  MaxNoff = 2
SPECIFICATION MachineSpec
INVARIANTS LineFollowsCause InterruptsAreNotOvertaken LockExcludesHandler
PROPERTIES ThreNotLost EnableIsRestored TransmitterDrains CauseReachesHandler
