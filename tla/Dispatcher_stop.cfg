SPECIFICATION FairSpec
CONSTANTS
  l1 = l1
  l2 = l2
  e1 = e1
  e2 = e2
  c1 = c1
  c2 = c2
  Layers = {l1, l2}
  Experts = {e1, e2}
  NSlots = 4
  NoRec = NoRec
  Clients = {c1, c2}
  Qd = 2
  NUsed = 1
  PrefetchN = 2
  Requests <- AskWhole
  Guesses <- GuessPair
  MaxAcquires = 2
  MaxIntents = 2
  MaxGraphs = 1
  DemandFaults = FALSE
  GuessFaults = FALSE
  Stops = {"graceful", "abort"}
INVARIANTS
  RefusalStrandsNobody
  CleanExit
PROPERTIES
  CommandsReturn
  StopEnds
CHECK_DEADLOCK FALSE
