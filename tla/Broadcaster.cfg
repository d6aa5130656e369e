CONSTANTS
  n1 = n1
  n2 = n2
  n3 = n3
  Nodes <- MCNodes
SPECIFICATION Spec
INVARIANTS
  SentIsTrue
  UnnamedClientsHaveIt
PROPERTIES
  NothingAfterReturn
  BroadcastReturns
  ImplementsAllOutcomes
CHECK_DEADLOCK FALSE
