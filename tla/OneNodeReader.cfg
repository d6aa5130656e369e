CONSTANTS
  c1 = c1
  c2 = c2
  c3 = c3
  Nil = Nil
  Err = Err
  NoOne = NoOne
  Calls <- MCCalls
SPECIFICATION Spec
INVARIANTS
  HandlesAgree
  HandleUsable
  OneDialPerCall
PROPERTIES
  NeverDisconnected
  CallsReturn
