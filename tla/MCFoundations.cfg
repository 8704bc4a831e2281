CONSTANTS
  NULL = NULL
  NONE = NONE
  CLOSED = CLOSED
  Files = {f1, f2}
  Inodes = {n1, n2}
  Sizes = {0, 1, 2}
  Addrs = {p1, p2, p3}
  HaveMremap = TRUE
  Names = {r1, r2}
  LastPlace = 3
  Iters = {i1, i2}
  PREFIX_MAX = 2
  EXT_MAX = 3
  DIMS_MAX = 3
  COORD_MAX = 2
  Prefixes <- MCPrefixes
  Extensions <- MCExtensions
  Supported = {"ZLIB"}
  Coordinates <- MCCoordinates
  GroupBits = 4
  \* More than two rounds of the five bits of the size; pieces of every size
  \* modulo eight, and some with several words.
  Bytes <- MCBytes
  MaxFed = 70
  Stream <- MCStream
  Pieces = {1, 2, 3, 5, 7, 8, 9, 16, 23, 33}
  Data <- MCData
  MaxLen = 3
SPECIFICATION MCSpec
SYMMETRY Symmetry
INVARIANTS
  MapSound
  NothingLeaks
  LoneIterationComplete
  OnePass
  NameFits
  NamesDistinct
  GroupingInvertible
  StreamingIsOneShot
  CrcIsRemainder
PROPERTY LossReported
