SPECIFICATION Spec
CONSTANTS
  NULL = NULL
  Libs <- MCLibs
  MaxSize = 4
  UIntLimit = 4
INVARIANTS
  ResultsAsDocumented
  LevelAsAsked
  NothingLeaks
CHECK_DEADLOCK FALSE
