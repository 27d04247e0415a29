SPECIFICATION Spec
CONSTANTS
  CAPACITY_INIT = 3
  SHORT_LIMIT = 255
  Lines = {1, 2, 3}
  MaxBytes = 6
INVARIANTS
  InBounds
PROPERTIES
  LookupCorrect
  LoopIsGetLine
