SPECIFICATION Spec
CONSTANTS
  s1 = s1  s2 = s2
  web = web  dated = dated  file = file
  c1 = c1  c2 = c2
  r1 = r1  r2 = r2
  Subscriptions <- OneSubscription
  Builtin <- None
  Sources <- Dated
  Files <- None
  Tagging <- None
  Unreachable <- None
  Categories <- TwoCategories
  Refreshers <- OneRefresher
  MaxPublish = 1
  MaxEdits = 1
  MaxRequests = 2
  MaxCrashes = 0
INVARIANT SuccessMeansCurrent
CHECK_DEADLOCK FALSE
