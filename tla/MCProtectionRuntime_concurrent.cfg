SPECIFICATION UnpolledSpec
CONSTANTS
  w1 = w1
  w2 = w2
  main = main
  Main = main
  Workers <- TwoWorkers
  Failures <- FailureKinds
  MaxRequests = 2
  MaxExits = 1
  MaxCrashes = 0
  MaxPolicy = 1
INVARIANT FilterHasOwner
PROPERTIES
  CommandsEnd
  FlagsComeDown
CHECK_DEADLOCK FALSE
