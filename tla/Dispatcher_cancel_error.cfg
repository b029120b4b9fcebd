SPECIFICATION Spec
CONSTANTS
  l1 = l1
  l2 = l2
  e1 = e1
  e2 = e2
  c1 = c1
  c2 = c2
  Layers = {l1, l2}
  Experts = {e1, e2}
  NSlots = 3
  NoRec = NoRec
  Clients = {c1}
  Qd = 2
  NUsed = 1
  PrefetchN = 2
  Requests <- AskSecond
  Guesses <- GuessPair
  MaxAcquires = 1
  MaxIntents = 1
  MaxGraphs = 1
  DemandFaults = FALSE
  GuessFaults = TRUE
  Stops = {"graceful"}
INVARIANTS
  GuessesAreHarmless
CHECK_DEADLOCK FALSE
