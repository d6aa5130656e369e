CONSTANTS
  o1 = o1
  o2 = o2
  n1 = n1
  n2 = n2
  Ops <- MCOps
  Nodes <- MCNodes
  Kinds <- AllKinds
  BatchSize = 2
SPECIFICATION Spec
SYMMETRY Symmetry
INVARIANTS
  SingleSendsMineable
  ReportsMatchPayments
CHECK_DEADLOCK FALSE
