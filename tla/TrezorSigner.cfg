CONSTANTS
  c1 = c1
  c2 = c2
  Nobody = Nobody
  Calls <- MCCalls
  Chains <- MCChains
  Word = 512
  Units = 3
SPECIFICATION Spec
INVARIANTS
  OwnSignature
  UnlockedWasGranted
PROPERTIES
  CallsReturn
CHECK_DEADLOCK FALSE
