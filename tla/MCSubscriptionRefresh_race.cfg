SPECIFICATION Spec
CONSTANTS
  s1 = s1  s2 = s2
  web = web  dated = dated  file = file
  c1 = c1  c2 = c2
  r1 = r1  r2 = r2
  Subscriptions <- OneSubscription
  Builtin <- None
  Sources <- Web
  Files <- None
  Tagging <- Web
  Unreachable <- None
  Categories <- OneCategory
  Refreshers <- TwoRefreshers
  MaxPublish = 2
  MaxEdits = 0
  MaxRequests = 1
  MaxCrashes = 0
INVARIANT RulesNotBehindRow
CHECK_DEADLOCK FALSE
