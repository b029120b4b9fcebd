SPECIFICATION FairSpec
CONSTANTS
  MaxSessions = 2
  Uses <- EitherUse
INVARIANTS
  EndedMeansStopped
  SavedSlotKnown
  OneTeardown
PROPERTIES
  CancelEnds
  StopEnds
CHECK_DEADLOCK FALSE
