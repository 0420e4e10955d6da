SPECIFICATION OpeningSpec
CONSTANTS
    r1 = r1
    r2 = r2
    row = row
    ParentRules <- MCParentRules
    Rows <- MCRows
    MaxCrashes = 2
    MaxEdits = 2
INVARIANTS
    ParentRulesOnDisk
    RowsReadable
    OpenIsMigrated
    ChoiceIsKept
PROPERTIES
    PornographyStaysCovered
