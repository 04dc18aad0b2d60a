SPECIFICATION FairSpec
CONSTANTS
    Conns = {c1, c2, c3}
    NoConn = NoConn
    Loop = Loop
    RepairSets <- Stages
    RetryTimes = 2
    MaxReleasing = 1
INVARIANTS
    CurrentUsable
    AbilitiesOwnUnlessLate
PROPERTIES
    ConnectEnds
    
