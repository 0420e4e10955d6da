SPECIFICATION Spec
CONSTANTS
  MaxCommands = 4
  MaxImports = 1
  MaxFailures = 1
  MaxKills = 1
INVARIANT ModeIsTrue
CHECK_DEADLOCK FALSE
