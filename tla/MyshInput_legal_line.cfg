SPECIFICATION Spec
CONSTANTS
  MAX_STR_LEN = 2
  STDIO_SIZE = 3
  MaxReadErrors = 0
  Milestone = 4
  Writer = "lockstep"
  Inputs <- TextOnly
CHECK_DEADLOCK FALSE
INVARIANTS
  LegalLineIsRun
