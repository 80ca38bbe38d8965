SPECIFICATION Spec
CONSTANTS
  Workers = {w1, w2}
  Products = {p1, p2}
  None = None
  MaxCalls = 4
SYMMETRY Symmetry
INVARIANTS
  TypeOK
  WorkerKeepsResources
  AnsweredIsRevoked
  RemovalLeavesNothing
PROPERTIES
  QuarantineIsFinal
CHECK_DEADLOCK FALSE
