SPECIFICATION Spec
CONSTANTS
  Workers = {w1, w2}
  Products = {p1, p2}
  None = None
  MaxCalls = 4
PROPERTIES
  RevokesOnlyOwn
CHECK_DEADLOCK FALSE
