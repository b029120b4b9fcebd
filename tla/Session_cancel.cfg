SPECIFICATION Spec
CONSTANTS
  MaxSessions = 1
  Uses <- ScreensOnly
INVARIANTS
  StoppedMeansEnded
CHECK_DEADLOCK FALSE
