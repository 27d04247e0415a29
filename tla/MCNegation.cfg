SPECIFICATION Spec
CONSTANTS
  CAPACITY_INIT = 8
  SHORT_LIMIT = 255
  TABLE_CAPACITY_INIT = 8
  INT_BITS = 8
  RESULT_BITS = 8
  StringHash <- Hash
  READ_ORDERS <- InOrder
  Programs <- Negation
INVARIANT
  ResultIsAResultCode
