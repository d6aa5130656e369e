CONSTANTS
  Blocks <- MCBlocks
  MaxCalls = 3
  MaxDos = 3
SPECIFICATION MultiSpec
PROPERTIES
  HooksSeeOneBlock
  SuccessIsComplete
CHECK_DEADLOCK FALSE
