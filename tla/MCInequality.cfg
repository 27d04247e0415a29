SPECIFICATION Spec
CONSTANTS
  INT_BITS = 4
  Inputs <- Inequality
INVARIANT
  ParsesEverySentence
