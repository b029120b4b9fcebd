SPECIFICATION Spec
CONSTANTS
  Pool = 2
  QD = 3
  Reserve = 1
  ChildMax = 2
  Parallel = 2
  Parts = 3
  Bounced = {2}
  Staging = 1
  CopyCap = 1
  Guesses = 1
  MaxAsks = 0
  MaxIntents = 1
  MaxFaults = 0
INVARIANTS
  CopiesFindTheirTables
