SPECIFICATION Spec
CONSTANTS
  Labels <- AllLabels
  Targets <- AllTargets
  Addresses <- OneAddress
  Containing <- Contents
  LocalTargets <- Local
  ParentRules <- FourParentRules
  Subscriptions <- ThreeSubscriptions
  CategoryOf <- ThreeCategories
  Files <- ThreeFiles
  MaxClock = 1
  MaxEdits = 2
INVARIANTS IndexIsFresh PriorityHolds DiagnosisIsTrue
CHECK_DEADLOCK FALSE
