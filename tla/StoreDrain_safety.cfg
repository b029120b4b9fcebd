SPECIFICATION FairSpec
CONSTANTS
  Threads = {t1, t2}
  Units = {u1, u2}
INVARIANTS
  NobodyInside
PROPERTIES
  OrderIsTheContract
  ImplementsGate
  DrainEnds
CHECK_DEADLOCK FALSE
