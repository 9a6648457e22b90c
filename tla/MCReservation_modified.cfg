CONSTANTS
  Cells <- MCCells
  Pages <- MCPages
  PageOf <- MCPageOf
  Accesses <- MCAccesses
  Entries <- MCEntries
  MaxEpoch = 3
SPECIFICATION SpecReservation
INVARIANTS ModificationIsNoticed
CHECK_DEADLOCK FALSE
