SPECIFICATION Spec
CONSTANTS
    f1 = f1
    f2 = f2
    f3 = f3
    f4 = f4
    t1 = t1
    t2 = t2
    Threads = {t1, t2}
    Adders = {t1}
    Filters = {f1, f2, f3, f4}
    NoFilter = NoFilter
    Name <- Names
    Order <- Orders
    MaxFilters = 4
INVARIANTS
    TypeOK
    RunsAll
    FindsPresent
    ChainSorted
    RunsInOrder
