SPECIFICATION FairSpec
CONSTANTS
    t1 = t1
    t2 = t2
    Threads <- OneCaller
    Main = t1
    NumServers = 2
    Ttls = {1, 3, 4}
    Margin = 2
    MaxTime = 8
INVARIANTS
    ExpiryWithinToken
    CachedTokenLives
PROPERTIES
    CallEnds
