SPECIFICATION Spec
CONSTANTS
  Labels <- AllLabels
  Targets <- AllTargets
  Addresses <- OneAddress
  Containing <- Contents
  LocalTargets <- Local
  ParentRules <- ThreeParentRules
  Subscriptions <- DirectSubscriptions
  CategoryOf <- DirectCategories
  Files <- DirectFiles
  MaxClock = 1
  MaxEdits = 2
INVARIANT FilterBeforeDirect
CHECK_DEADLOCK FALSE
