SPECIFICATION Spec
CONSTANTS
    t1 = t1
    t2 = t2
    aes1 = aes1
    aes2 = aes2
    sm4 = sm4
    Plugins = {aes1, aes2, sm4}
    NoPlugin = NoPlugin
    Algorithm <- AlgorithmOf
    Loaded <- SmLoaded
    Threads = {t1, t2}
    DataIds <- AesIds
    Managers <- TwoManagers
    Starters = {t1, t2}
INVARIANTS
    JoinSticks
