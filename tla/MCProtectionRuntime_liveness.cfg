SPECIFICATION FairSpec
CONSTANTS
  w1 = w1
  w2 = w2
  main = main
  Main = main
  Workers <- OneWorker
  Failures <- NoFailure
  MaxRequests = 2
  MaxExits = 1
  MaxCrashes = 0
  MaxPolicy = 2
PROPERTY CrashRestoresDns
