SPECIFICATION Spec
CONSTANTS
  MAX_BLOCKS = 10
CHECK_DEADLOCK FALSE
INVARIANTS
  NothingDangles
  VmFreeFaults
  LiteralsLeak
