\* A cache for one processor, which is full with two files, and three positions.
CONSTANTS
    NULL = NULL
    Threads = {u1, u2}
    Positions = {p1, p2, p3}
    Files = {f1, f2, f3}
    CacheMax = 1
    EvictableMax = 1
SPECIFICATION FairSpec
INVARIANTS
    TypeOK
    MutexHeld
    InsideCounts
    CacheSound
    GotItsFile
    CacheBound
PROPERTIES
    CallsReturn
    MutexReleased
CHECK_DEADLOCK FALSE
