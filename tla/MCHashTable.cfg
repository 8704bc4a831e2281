\* A table that starts without slots: rebuilds to 2, 4, 6 and 8 slots.
CONSTANTS
    k1 = k1
    k2 = k2
    k3 = k3
    e1 = e1
    e2 = e2
    e3 = e3
    f1 = f1
    a1 = a1
    a2 = a2
    NULL = NULL
    Keys = {k1, k2, k3}
    Elements = {e1, e2, e3, f1}
    Addrs = {a1, a2}
    KeyOf <- MCKeyOf
    HashOf <- MCHashOf
    MinCapacity = 0
    MaxCursor = 4
SPECIFICATION Spec
INVARIANTS
    TypeOK
    Counters
    Probing
    Assertions
    RebuildCopies
    HeapExact
PROPERTIES
    Refinement
