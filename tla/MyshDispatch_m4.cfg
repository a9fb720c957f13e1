SPECIFICATION Spec
CONSTANTS
  Milestones = {4}
  Slots = 5
  HeapLimit = 8
  Lines <- FewLines
  Words <- AllWords
CHECK_DEADLOCK FALSE
PROPERTIES
  AnsweredByName
