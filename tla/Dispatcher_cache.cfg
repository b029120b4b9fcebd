SPECIFICATION Spec
CONSTANTS
  l1 = l1
  l2 = l2
  e1 = e1
  e2 = e2
  c1 = c1
  c2 = c2
  Layers = {l1, l2}
  Experts = {e1, e2}
  NSlots = 2
  NoRec = NoRec
  Clients = {c1, c2}
  Qd = 2
  NUsed = 1
  PrefetchN = 2
  Requests <- AskPairs
  Guesses <- GuessSecond
  MaxAcquires = 3
  MaxIntents = 1
  MaxGraphs = 2
  DemandFaults = TRUE
  GuessFaults = TRUE
  Stops = {}
INVARIANTS
  WaitersExact
  GrantedIsReadable
  LeaseExact
  PendingExact
  RetryFindsAnEntry
  GuessesLeaveRoom
PROPERTIES
  ImplementsLease
CHECK_DEADLOCK FALSE
SYMMETRY Callers
