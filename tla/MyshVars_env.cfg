SPECIFICATION Spec
CONSTANTS
  Char <- SomeChars
  MAX_STR_LEN = 9
  VALUE_SIZE = 5
  Milestone = 3
  AssignTokens <- SomeAssignments
  EchoLines <- SomeEchoes
CHECK_DEADLOCK FALSE
INVARIANTS
  TypeOK
  UniqueNames
  AskedIsDefined
PROPERTIES
  ImplementsShellEnv
