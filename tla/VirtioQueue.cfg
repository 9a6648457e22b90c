CONSTANTS
  PlainStatus = {}
  Features = {}
  HighFeatures = {}
  DeviceFeatures = {}
  MaxQueueSize = 2
  IndexMod = 8
SPECIFICATION Spec
INVARIANTS CompletionIsSignalled FailsOnlyOnInvalid
PROPERTIES ImplementsFifo
