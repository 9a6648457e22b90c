CONSTANTS
  EntryCount = 3
  PerRegister = 2
  PmpAddrMask = 7
  WrittenAddresses = {0, 1, 2, 7}
  ConfigBytes <- MCConfigBytes
  Accesses <- MCAccesses
  RootLevel = 1
  TableSize = 2
  UpperSize = 2
  Dram = {0, 1, 2}
  Frames = {0, 1, 2, 3, 4}
  PmpSettings <- MCPmpSettings
  Tables <- MCTables
  Environments <- MCEnvironments
  VirtualAddresses <- MCVirtualAddresses
  Sizes = {2, 8}
SPECIFICATION SpecMemory
INVARIANTS AccessIsBytewiseSound TranslationIsArchitectural
PROPERTIES LockedRegionsAreFrozen UpdatesAreInvisible
