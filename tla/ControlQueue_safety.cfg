SPECIFICATION FairSpec
CONSTANTS
  Producers = {p1, p2, p3}
  Cmds = {k1, k2}
  Pool = 1
  MaxIntents = 1
  MaxCommands = 3
  NoCmd = NoCmd
INVARIANTS
  SleepIsJustified
  CommandsExact
PROPERTIES
  CommandsReturn
CHECK_DEADLOCK FALSE
