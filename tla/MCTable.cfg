SPECIFICATION Spec
CONSTANTS
  TABLE_CAPACITY_INIT = 3
  Keys <- Strings
  HashOf <- Hashes
  Values <- Stores
INVARIANTS
  IsMap
  InternsAtHome
PROPERTIES
  NothingIsFound
  LoopIsFindEntry
  InsertReturns
