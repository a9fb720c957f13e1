SPECIFICATION FairSpec
CONSTANTS
  MAX_STR_LEN = 2
  STDIO_SIZE = 3
  MaxReadErrors = 1
  Milestone = 4
  Writer = "pipe"
  Inputs <- PipeInputs
CHECK_DEADLOCK FALSE
INVARIANTS
  TypeOK
  Accounting
  PromptWhenWaiting
PROPERTIES
  InOrder
  Terminates
