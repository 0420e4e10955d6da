SPECIFICATION Spec
CONSTANTS
  w1 = w1
  w2 = w2
  main = main
  Main = main
  Workers <- TwoWorkers
  Failures <- NoFailure
  MaxRequests = 3
  MaxExits = 0
  MaxCrashes = 0
  MaxPolicy = 1
SYMMETRY Symmetry
INVARIANT StopIsFinal
