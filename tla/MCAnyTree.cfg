SPECIFICATION Spec
CONSTANTS
  CAPACITY_INIT = 2
  SHORT_LIMIT = 3
  TABLE_CAPACITY_INIT = 8
  INT_BITS = 3
  RESULT_BITS = 2
  StringHash <- Hash
  READ_ORDERS <- AnyOrder
  Programs <- AnyTree
INVARIANTS
  TypeOK
  InstructionsTile
  ArraysFit
  OperandNamesLiteral
  CodeIsPostOrder
  IpAligned
  ObjectsAreOwned
PROPERTIES
  Terminates
