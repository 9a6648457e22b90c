CONSTANTS
  Interrupts <- MCInterrupts
  DeviceInterrupts <- MCDeviceInterrupts
SPECIFICATION SpecRegisters
INVARIANTS LevelsAreNotLatched
