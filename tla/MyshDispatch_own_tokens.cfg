SPECIFICATION Spec
CONSTANTS
  Milestones = {3}
  Slots = 5
  HeapLimit = 0
  Lines <- FewLines
  Words <- AllWords
CHECK_DEADLOCK FALSE
PROPERTIES
  OwnTokensOnly
