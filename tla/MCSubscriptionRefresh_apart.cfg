SPECIFICATION ApartSpec
CONSTANTS
  s1 = s1  s2 = s2
  web = web  dated = dated  file = file
  c1 = c1  c2 = c2
  r1 = r1  r2 = r2
  Subscriptions <- TwoSubscriptions
  Builtin <- None
  Sources <- WebAndDated
  Files <- None
  Tagging <- Web
  Unreachable <- None
  Categories <- OneCategory
  Refreshers <- TwoRefreshers
  MaxPublish = 1
  MaxEdits = 1
  MaxRequests = 1
  MaxCrashes = 1
SYMMETRY SubscriptionSymmetry
INVARIANTS RulesNotBehindRow SuccessMeansCurrent
CHECK_DEADLOCK FALSE
