SPECIFICATION Spec
CONSTANTS
  Milestones = {1, 2, 3, 4}
  Slots = 5
  HeapLimit = 4
  Lines <- AllLines
  Words <- AllWords
CHECK_DEADLOCK FALSE
INVARIANTS
  TypeOK
PROPERTIES
  AnsweredByNameTo3
  LsFollowsLine
