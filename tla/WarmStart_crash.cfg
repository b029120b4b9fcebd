SPECIFICATION FairSpec
CONSTANTS
  MaxStarts = 3
  MaxSaves = 3
  MaxStates = 3
  MaxFaults = 1
INVARIANTS
  RestoredIsWhole
  PreviousSurvives
  TemporariesAccounted
PROPERTIES
  ChangesAreSaved
CHECK_DEADLOCK FALSE
