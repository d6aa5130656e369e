CONSTANTS
  n1 = n1
  n2 = n2
  n3 = n3
  v1 = v1
  v2 = v2
  Err = Err
  Nothing = Nothing
  Nodes <- MCNodes
  Values <- MCValues
SPECIFICATION Spec
INVARIANTS
  SendNeverBlocks
  ErrorNamesEveryNode
PROPERTIES
  NoGoroutineLeft
  ImplementsFirstAnswer
