SPECIFICATION FairSpec
CHECK_DEADLOCK FALSE
CONSTANTS
  a1 = a1
  a2 = a2
  w1 = w1
  w2 = w2
  w3 = w3
  Allocations = {a1}
  Workers = {w1, w2}
  Home <- MCHome
  MaxWorkers = 1
  None = None
PROPERTIES
  RecoverySparesLiving
  AdmissionProgresses
