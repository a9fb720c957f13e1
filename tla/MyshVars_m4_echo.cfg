SPECIFICATION Spec
CONSTANTS
  Char <- SomeChars
  MAX_STR_LEN = 9
  VALUE_SIZE = 5
  Milestone = 4
  AssignTokens <- TwoNames
  EchoLines <- TestEcho
CHECK_DEADLOCK FALSE
PROPERTIES
  EchoExpandsAll
