SPECIFICATION Spec
CONSTANTS
  INT_BITS = 4
  ARBITRARY = 3
  SENTENCE = 7
  CHAIN = 4
  Inputs <- AnyInput
INVARIANTS
  ParsesToTree
  InReadingOrder
  BindsByPrecedence
  AcceptsSentences
PROPERTIES
  ParseEnds
