SPECIFICATION Spec
CONSTANTS
    n1 = n1
    n2 = n2
    c1 = c1
    h1 = h1
    h2 = h2
    h3 = h3
    Names = {n1}
    Clusters = {c1}
    Hosts = {h1, h2, h3}
    NoHosts = NoHosts
    NoService = NoService
    NoThread = NoThread
    Threads = {t1, t2}
    Services <- SeveralInstances
    UpdateCacheWhenEmpty = TRUE
    NotLoadCacheAtStart = TRUE
    MaxTime = 1
INVARIANTS
    AnnouncedIsCurrent
