SPECIFICATION FairSpec
CONSTANTS
  q1 = q1  q2 = q2  q3 = q3
  name1 = name1  name2 = name2
  w1 = w1  w2 = w2  nobody = nobody
  Queries <- ThreeQueries
  Mixes <- KindsOfQueries
  NameOf <- NamesOfQueries
  Workers <- TwoWorkers
  QueueSize = 1
  Upstreams <- TwoUpstreams
  SplitUpstreams <- VpnUpstream
  Fallback = TRUE
  Nobody = nobody
  MaxStarts = 2
INVARIANTS TypeOK InFlightHasOwner
PROPERTIES ImplementsService StopEnds QueriesEnd
CHECK_DEADLOCK FALSE
