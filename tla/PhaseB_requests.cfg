SPECIFICATION Spec
CONSTANTS
  Layers = 2
  Parts = 2
  Slots = {c1}
  IntentCap = 1
  StatusCap = 2
  PendingCap = 1
  RowCap = 3
  MaxGraphs = 2
  MaxRequests = 2
  NoSlot = NoSlot
INVARIANTS
  CapturesAccounted
  DisabledIsOwn
  RowsTellTheTruth
  NoIntentLeftBehind
PROPERTIES
  CutIsFinal
CHECK_DEADLOCK FALSE
