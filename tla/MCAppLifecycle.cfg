SPECIFICATION FairSpec
CONSTANTS
    t1 = t1
    t2 = t2
    Tokens <- MCTokens
    TTL = 1
    MaxClock = 1
    MaxRequests = 2
    MaxFailures = 1
    MaxLaunches = 1
INVARIANTS
    ExitIsClean
PROPERTIES
    DeadSessionsStayDead
    QuitIsAnswered
CHECK_DEADLOCK FALSE
