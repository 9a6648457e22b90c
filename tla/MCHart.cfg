CONSTANTS
  Interrupts <- MCInterrupts
  DeviceInterrupts <- MCDeviceInterrupts
  Exceptions <- MCExceptions
  DelegableExceptions <- MCDelegableExceptions
SPECIFICATION Spec
INVARIANTS MprvOnlyInMachine
PROPERTIES ReturnRestores MachineStateIsolated InterruptsAreTaken
