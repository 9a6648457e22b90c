CONSTANTS
  Cells <- MCCells
  Pages <- MCPages
  PageOf <- MCPageOf
  Accesses <- MCAccesses
  Entries <- MCEntries
  MaxEpoch = 5
SPECIFICATION SpecReservation
INVARIANTS ConditionalStoreIsExclusive
PROPERTIES UndisturbedSucceeds
