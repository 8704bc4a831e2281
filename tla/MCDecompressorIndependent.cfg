SPECIFICATION Spec
CONSTANTS
  NULL = NULL
  Libs <- MCLibs
  MaxSize = 1
  UIntLimit = 4
INVARIANT
  CallsIndependent
CHECK_DEADLOCK FALSE
