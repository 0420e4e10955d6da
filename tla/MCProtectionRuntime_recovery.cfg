SPECIFICATION Spec
CONSTANTS
  w1 = w1
  w2 = w2
  main = main
  Main = main
  Workers <- OneWorker
  Failures <- NoFailure
  MaxRequests = 2
  MaxExits = 0
  MaxCrashes = 0
  MaxPolicy = 1
INVARIANT FailedRecoveryKeepsNetwork
