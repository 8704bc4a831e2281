CONSTANTS
    NULL = NULL
    Threads = {u1, u2}
    Positions = {p1, p2}
    Files = {f1, f2}
    CacheMax = 1
    EvictableMax = 1
SPECIFICATION Spec
INVARIANTS
    NoUseAfterClose
CHECK_DEADLOCK FALSE
