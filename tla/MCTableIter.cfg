\* A table created for two elements, which has three slots.
CONSTANTS
    k1 = k1
    k2 = k2
    k3 = k3
    e1 = e1
    e2 = e2
    e3 = e3
    a1 = a1
    a2 = a2
    NULL = NULL
    Keys = {k1, k2, k3}
    Elements = {e1, e2, e3}
    Addrs = {a1, a2}
    KeyOf <- MCKeyOf
    HashOf <- MCHashOf
    MinCapacity = 2
    MaxCursor = 2
SPECIFICATION IterSpec
INVARIANTS
    WalkIsExact
    MinCapacityWithoutTombstones
