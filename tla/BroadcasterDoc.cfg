CONSTANTS
  n1 = n1
  n2 = n2
  n3 = n3
  Nodes <- MCNodes
SPECIFICATION Spec
PROPERTIES
  SentIndicatesBroadcast
CHECK_DEADLOCK FALSE
