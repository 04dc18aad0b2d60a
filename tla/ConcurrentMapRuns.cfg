SPECIFICATION MCSpec
CONSTANTS
    k1 = k1
    k2 = k2
    k3 = k3
    k4 = k4
    a = a
    b = b
    Threads = {t1, t2}
    NoThread = NoThread
    Keys = {k1, k2, k3, k4}
    Values = {a, b}
    Absent = Absent
    Func <- Flip
    Capacity = 2
    Shards = 2
    ShardOf <- TwoShards
    Ops <- AllOps
    MaxInserts = 4
SYMMETRY Symmetry
INVARIANTS
    CountBetween
    StableKeysOnce
PROPERTIES
    ImplementsAtomicMap
