SPECIFICATION FairSpec
CONSTANTS
  NULL = NULL
  Libs <- MCLibs
  MaxSize = 1
  UIntLimit = 4
PROPERTY
  CallsReturn
CHECK_DEADLOCK FALSE
