CONSTANTS
    l1 = l1
    s1 = s1
    s2 = s2
    f1 = f1
    Labels = {l1}
    Literals = {s1, s2}
    Functions = {f1}
    LitSize <- MCLitSize
    InstSize = 5
    DataBase = 100
    LitRoom = 2
    NULL = NULL
    MaxRequests = 4
    MaxSites = 3
SPECIFICATION Spec
INVARIANTS
    OnlyOwnAddress
    
CHECK_DEADLOCK FALSE
