CONSTANTS
  Pages <- MCPages
  KernelPage = 8
  DevicePage = 9
  NoPage = 0
  Spaces = {1, 2}
  Slots = 2
  RootLevel = 1
  MaxVa = 4
  MaxPages = 3
  UserFlags = {"R", "U"}
  ForeignVas = {3}
  OddSpaces = {1}
  MaxHeld = 1
  ByteValues = 2
  AddressCount = 6
  PageBytes = 2
  WordBytes = 2
  DramBase = 1
  DramEnd = 5
  MaxBytes = 3
SPECIFICATION MCSpec
VIEW View
INVARIANTS PagesAreOwnedOnce
PROPERTIES DeclinedChangesNothing UnmapIsExact CopyIsAllOrNothing RoutinesAreExact FillIsTheLoop CallsCanBeRepeated
