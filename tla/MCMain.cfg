SPECIFICATION Spec
CONSTANTS
  CAPACITY_INIT = 2
  SHORT_LIMIT = 3
  TABLE_CAPACITY_INIT = 8
  INT_BITS = 8
  RESULT_BITS = 8
  StringHash <- Hash
  READ_ORDERS <- InOrder
  ARENA_INIT = 2
  UINT_RANGE = 16
  Sizes <- ArenaSizes
  Texts <- AnyText
INVARIANTS
  ArenaIInv
  NothingIsLost
  TokensAreLongest
  KeywordsAreExact
  PrintsTheText
  TreeInArena
  LinesOfText
  NumbersAreTheirDigits
PROPERTIES
  ImplementsNodeStore
  EveryTextEnds
