SPECIFICATION Spec
CONSTANTS
  collector = collector  command = command  noOne = noOne
  Collector = collector
  Commands <- OneCommand
  Keys <- OneKey
  OwnDns <- Listener
  Blocked <- Filtered
  Noise <- Chatter
  Connections <- OneConnection
  LogLimit = 1
  MaxRows = 2
  TicksPerDay = 2
  Retentions <- OneDay
  ShownDays = 2
  NoOne = noOne
  MaxLines = 2
  MaxClock = 2
  MaxCount = 3
  MaxEvents = 2
INVARIANTS
  CountedOnce
  OffsetPassesReadLines
  TableIsBounded
  ViewsAgree
CHECK_DEADLOCK FALSE
