SPECIFICATION ProgramsSpec
CONSTANTS
  Files <- AllFiles
  IntMax = 4
  NumKids <- MCNumKids
  Seconds <- MCSeconds
  MaxReads = 4
  Words <- SomeWords
  PasswordFiles <- SomeFiles
  MAX_PASSWORD = 3
  TypedLines <- SomeLines
  MAX_NAME = 2
  SIZE_MAX = 9
  TokenLists <- SomeTokens
  Junk = 0
  Garbage <- MCGarbage
  MaxNodes = 4
CHECK_DEADLOCK FALSE
INVARIANTS
  TypeOK
  WordsCounted
  AgreesWithWc
  LinesPrinted
  CountWithinOne
  VerdictRight
  NameSent
  NodesFreed
PROPERTIES
  ProgramsEnd
