SPECIFICATION Spec
CONSTANTS
  MaxCommands = 4
  MaxImports = 1
  MaxFailures = 1
  MaxKills = 1
INVARIANTS
  TypeOK
  RunningIsTrue
  TunnelIsHeld
  FilesAreUsable
CHECK_DEADLOCK FALSE
