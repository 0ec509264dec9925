SPECIFICATION Spec
CONSTANTS
  Capacity = 3
  HistoryEntry = {e1, e2}
  ZeroEntry = zero
  MaxPushes = 7
INVARIANTS
  TypeOK
  LastIsSuffix
PROPERTY
  ImplementsWindow
CHECK_DEADLOCK FALSE
