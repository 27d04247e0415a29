SPECIFICATION Spec
CONSTANTS
  CAPACITY_INIT = 8
  SHORT_LIMIT = 255
  TABLE_CAPACITY_INIT = 8
  INT_BITS = 24
  LITERALS = 258
  RESULT_BITS = 8
  StringHash <- Hash
  READ_ORDERS <- InOrder
  Programs <- WideSum
INVARIANTS
PROPERTIES
  FetchedConstant
