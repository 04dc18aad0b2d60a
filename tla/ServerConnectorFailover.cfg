SPECIFICATION FairConnectorSpec
CONSTANTS
    t1 = t1
    t2 = t2
    s1 = s1
    s2 = s2
    Bare = Bare
    Threads <- TwoCallers
    Main = t1
    NumServers = 2
    Ttls = {2}
    Margin = 1
    MaxTime = 2
    ServerList <- Two
    HasEndpoint = TRUE
    EndpointLists <- Answers
    MaxRetry = 3
    NextCallers <- OneCaller
INVARIANTS
    ConnectorTypeOK
    NeverComparesNone
    TriesAllServers
    RotationCovers
PROPERTIES
    RequestEnds
    ImplementsAuthClient
