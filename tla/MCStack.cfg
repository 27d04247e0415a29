SPECIFICATION Spec
CONSTANTS
  Values = {v1, v2}
  CAPACITY_INIT = 2
  MAX_DEPTH = 5
INVARIANTS
  IInv
PROPERTIES
  ImplementsLifo
