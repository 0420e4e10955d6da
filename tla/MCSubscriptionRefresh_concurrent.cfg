SPECIFICATION Spec
CONSTANTS
  s1 = s1  s2 = s2
  web = web  dated = dated  file = file
  c1 = c1  c2 = c2
  r1 = r1  r2 = r2
  Subscriptions <- OneSubscription
  Builtin <- None
  Sources <- WebAndFile
  Files <- File
  Tagging <- Web
  Unreachable <- None
  Categories <- OneCategory
  Refreshers <- TwoRefreshers
  MaxPublish = 1
  MaxEdits = 2
  MaxRequests = 1
  MaxCrashes = 0
SYMMETRY Symmetry
INVARIANT DeletedStaysDeleted
CHECK_DEADLOCK FALSE
