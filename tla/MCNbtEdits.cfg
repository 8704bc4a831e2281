SPECIFICATION Spec
CONSTANTS
  NULL = NULL
  ByteValues = 16
  SizeLimit = 1048576
  Capacity = 40
  Documents <- MCDocuments
  Names <- MCNames
  AddTypes <- MCAddTypes
  ListTypes <- MCListTypes
  Lengths <- MCLengths
  Depth = 3
  MaxEdits = 3
INVARIANT EditsAsDocumented
CHECK_DEADLOCK FALSE
