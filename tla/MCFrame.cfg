CONSTANTS
    n1 = n1
    n2 = n2
    Names = {n1, n2}
    Slot <- MCSlot
    Sizes = {4, 8}
    Inits = {"same type", "none"}
    Calls <- MCCalls
    MaxProg = 5
    MaxDecls = 3
    MaxBlocks = 3
SPECIFICATION Spec
INVARIANTS
    OverlapOnlyWithLater
    
    ScopesAgree
CHECK_DEADLOCK FALSE
