SPECIFICATION ServiceFairSpec
CONSTANTS
    u1 = u1
    u2 = u2
    k1 = k1
    k2 = k2
    Listener = listen
    Threads = {listen, u1, u2}
    NoThread = NoThread
    Keys = {k1, k2}
    Limiters <- TwoLimiters
    NoLimiter = NoLimiter
    Calls = 1
    Worlds <- Scenarios
    MaxVersion = 2
    MaxEntries = 2
    PerTask = 1
INVARIANTS
    RateHolds
    NeverReadBack
PROPERTIES
    MuxFreed
    NeverToldBack
    
