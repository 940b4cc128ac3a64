CONSTANTS
    x = x
    y = y
    Names = {x, y}
    Functions = {x, y}
    Params = {{x}}
    NULL = NULL
    MaxProg = 6
    MaxDecls = 2
    MaxUses = 1
    MaxBlocks = 3
SPECIFICATION Spec
INVARIANTS
    ResolvedAlike
    SymbolsVisible
CHECK_DEADLOCK FALSE
