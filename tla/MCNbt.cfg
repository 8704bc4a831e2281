SPECIFICATION Spec
CONSTANTS
  NULL = NULL
  ByteValues = 16
  SizeLimit = 1048576
  Capacity = 40
  Documents <- MCDocuments
  Names <- MCNames
  AddTypes <- MCAddTypes
  ListTypes <- MCListTypes
  Lengths <- MCLengths
  Depth = 3
  MaxEdits = 3
INVARIANTS
  DocumentIntact
  FreeNeverOverstated
  TraversalExact
  DamageContained
CHECK_DEADLOCK FALSE
