SPECIFICATION Spec
CONSTANTS
  Labels <- AllLabels
  Targets <- AllTargets
  Addresses <- OneAddress
  Containing <- Contents
  LocalTargets <- Local
  ParentRules <- KeywordPermission
  Subscriptions <- TwoSubscriptions
  CategoryOf <- TwoCategories
  Files <- TwoFiles
  MaxClock = 1
  MaxEdits = 2
INVARIANT PermissionIsKept
CHECK_DEADLOCK FALSE
