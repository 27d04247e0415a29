SPECIFICATION Spec
CONSTANTS
  CAPACITY_INIT = 2
  SHORT_LIMIT = 3
  TABLE_CAPACITY_INIT = 8
  INT_BITS = 8
  RESULT_BITS = 8
  StringHash <- Hash
  READ_ORDERS <- InOrder
  Programs <- SupportedTree
INVARIANTS
  PrintsItsMeaning
  WildHasCause
PROPERTIES
  TraceIsTrue
