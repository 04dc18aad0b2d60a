SPECIFICATION Spec
CONSTANTS
    t1 = t1
    t2 = t2
    Threads <- TwoCallers
    Main = t1
    NumServers = 1
    Ttls = {1, 3}
    Margin = 1
    MaxTime = 3
INVARIANTS
    ExpiryWithinToken
