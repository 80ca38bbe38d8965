SPECIFICATION Spec
SYMMETRY Symmetry
CHECK_DEADLOCK FALSE
CONSTANTS
  Keys = {k1}
  Callers = {c1, c2}
  Options = {launch, create}
  CreateOnly = {create}
  Product = Product
  None = None
INVARIANTS
  NoRecreation
