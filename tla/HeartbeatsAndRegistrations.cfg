SPECIFICATION FairSpec
CONSTANTS
    Callers = {c1, c2}
    Keys = {k1, k2}
    Infos <- ThreeInfos
    NoInfo = NoInfo
    Repairs = {"schedule", "read"}
INVARIANTS
    GhostsOnlyFromOverlap
    PromisedBeats
PROPERTIES
    KeepsBeating
