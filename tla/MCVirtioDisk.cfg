CONSTANTS
  PlainStatus <- MCPlainStatus
  Features <- MCFeatures
  HighFeatures <- MCHighFeatures
  DeviceFeatures <- MCDeviceFeatures
  MaxQueueSize = 4
  Tables <- MCTables
  Headers <- MCHeaders
  GuestSize = 8
  MediaSize = 6
  SectorSize = 2
  ChunkSize = 2
  MaxSector = 8
  MaxLength = 6
SPECIFICATION SpecDisk
INVARIANTS NegotiatedFeatures UsedLengthIsInitialised
PROPERTIES FailureTransfersNothing StatusIsTruthful
