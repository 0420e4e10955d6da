SPECIFICATION FairSpec
CONSTANTS
  s1 = s1  s2 = s2
  web = web  dated = dated  file = file
  c1 = c1  c2 = c2
  r1 = r1  r2 = r2
  Subscriptions <- TwoSubscriptions
  Builtin <- SecondBuiltin
  Sources <- AllSources
  Files <- File
  Tagging <- Web
  Unreachable <- File
  Categories <- OneCategory
  Refreshers <- OneRefresher
  MaxPublish = 1
  MaxEdits = 0
  MaxRequests = 1
  MaxCrashes = 1
INVARIANTS RulesNotBehindRow SuccessMeansCurrent
PROPERTY CatchesUp
CHECK_DEADLOCK FALSE
