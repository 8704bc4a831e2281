SPECIFICATION FairSpec
CONSTANTS
  NULL = NULL
  Libs <- MCLibs
  MaxSize = 2
  UIntLimit = 4
INVARIANTS
  TypeOK
  ResultsAsDocumented
  ContextsReset
  NothingLeaks
  SizeOfShortBuffer
PROPERTY
  LoopsEnd
CHECK_DEADLOCK FALSE
