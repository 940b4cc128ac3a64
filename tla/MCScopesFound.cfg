CONSTANTS
    x = x
    y = y
    Names = {x, y}
    Functions = {x, y}
    Params = {{x}}
    NULL = NULL
    MaxProg = 6
    MaxDecls = 2
    MaxUses = 1
    MaxBlocks = 3
SPECIFICATION Spec
INVARIANT SymbolFound
CHECK_DEADLOCK FALSE
