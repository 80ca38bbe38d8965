SPECIFICATION Spec
CONSTANTS
  MaxVersion = 1
  MaxToken = 0
  Names = {n1}
  Runs = {r1}
  Values = {v1}
  Calls = {c1, c2}
  Requests = {q1}
  None = none
  Kinds <- ApiOnly
CHECK_DEADLOCK FALSE
INVARIANTS
  StopRevokesAll
