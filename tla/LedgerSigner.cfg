CONSTANTS
  c1 = c1
  c2 = c2
  Nobody = Nobody
  NoChain = NoChain
  Calls <- MCCalls
  Chains <- MCChains
  Chunks = 3
SPECIFICATION Spec
INVARIANTS
  OwnSignature
  SignedForChain
  DriverRefusesOld
CHECK_DEADLOCK FALSE
