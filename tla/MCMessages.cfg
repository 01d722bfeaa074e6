SPECIFICATION Spec
SYMMETRY Symmetry
CONSTANTS
  Client = {c1, c2, c3}
  Address = {a1, a2, a3, a4}
  NULL = NULL
  Base = 2
  AskedName <- AskedNames
  ShownNumber = {0, 8}
  MaxHandlers = 2
  MaxOrphans = 1
INVARIANTS
  NicksUnique
  StringsOwned
  LengthsExact
  SpoiltOnlyIfFreed
PROPERTIES
  OwnMessagesIntact
