SPECIFICATION FairSpec
CONSTANTS
  Name <- ThisName
  Root = "r"
  Parent <- ThisParent
  Start <- ThisStart
  LinkTarget = "a"
  Depths <- AnyDepth
  Filters <- TwoFilters
  MaxFds = 3
  MaxChanges = 1
  MaxSilent = 1
INVARIANTS
  TypeOK
  Balanced
  NeverTooDeep
  ListsAll
PROPERTIES
  LsEnds
