CONSTANTS
  c1 = c1
  c2 = c2
  Nobody = Nobody
  NoChain = NoChain
  Calls <- MCCalls
  Chains <- MCMainnet
  Chunks = 3
SPECIFICATION Spec
INVARIANTS
  TooOldIsAnError
CHECK_DEADLOCK FALSE
