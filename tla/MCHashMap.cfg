CONSTANTS
    k1 = k1
    k2 = k2
    k3 = k3
    k4 = k4
    Keys <- MCKeys
    Vals = {v1, v2}
    NULL = NULL
    Hash <- MCHash
    InitCap = 2
SPECIFICATION FairSpec
INVARIANTS
    EveryKeyReachable
    AtMostHalfUsed
PROPERTIES
    ImplementsDictionary
    CallsReturn
