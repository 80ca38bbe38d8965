SPECIFICATION Spec
CONSTANTS
  MaxVersion = 1
  MaxToken = 1
  Names = {n1, n2}
  Runs = {r1}
  Values = {v1, v2}
  Calls = {c1, c2, c3}
  Requests = {}
  None = none
  Kinds <- NoKinds
SYMMETRY LedgerSymmetry
CHECK_DEADLOCK FALSE
INVARIANTS
  IndexesAgree
  RevocationSticks
