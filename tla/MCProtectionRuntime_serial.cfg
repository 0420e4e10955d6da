SPECIFICATION Spec
CONSTANTS
  w1 = w1
  w2 = w2
  main = main
  Main = main
  Workers <- OneWorker
  Failures <- FailureKinds
  MaxRequests = 2
  MaxExits = 0
  MaxCrashes = 1
  MaxPolicy = 2
INVARIANTS
  MarkerIsTrue
  StopIsFinal
