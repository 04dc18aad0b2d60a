SPECIFICATION FairSpec
CONSTANTS
    n1 = n1
    n2 = n2
    c1 = c1
    h1 = h1
    h2 = h2
    h3 = h3
    Names = {n1, n2}
    Clusters = {c1}
    Hosts = {h1, h2, h3}
    NoHosts = NoHosts
    NoService = NoService
    NoThread = NoThread
    Threads = {t1, t2}
    Services <- TwoServices
    UpdateCacheWhenEmpty = FALSE
    NotLoadCacheAtStart = FALSE
    MaxTime = 2
INVARIANTS
    TypeOK
    NewestWins
    NothingLost
    ChangesAnnounced
PROPERTIES
    UpdateTimesAdvance
    NeverEmptied
    LockFreed
    ImplementsNewestService
