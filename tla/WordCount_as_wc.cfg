SPECIFICATION Spec
CONSTANTS
  Files <- AllFiles
  IntMax = 4
CHECK_DEADLOCK FALSE
INVARIANTS
  WordsAsWc
