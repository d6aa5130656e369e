CONSTANTS
  n1 = n1
  n2 = n2
  f1 = f1
  f2 = f2
  Nil = Nil
  Nodes <- MCNodes
  Forks <- MCForks
  LostAfter = 1
  Logs <- MCLogs
  Calls <- MCCalls
  MaxLogs = 2
SPECIFICATION ASpec
INVARIANTS
  VerdictOfRealBlock
  DeliveredIsReal
  NoPanic
  ResultComplete
PROPERTIES
  VerdictsAgree
  MinedIsReturned
CHECK_DEADLOCK FALSE
