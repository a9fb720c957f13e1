SPECIFICATION ShellFairSpec
CONSTANTS
  MAX_STR_LEN = 2
  STDIO_SIZE = 3
  MaxReadErrors = 1
  Milestone = 3
  Writer = "terminal"
  Inputs <- LineInputs
CHECK_DEADLOCK FALSE
INVARIANTS
  OneLinePerCommand
  ShortLineLostOnlyAtLimit
PROPERTIES
  ImplementsLineShell
  ComesBack
