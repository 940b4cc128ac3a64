CONSTANTS
    kernel = kernel
    user = user
    Symbols <- MCSymbols
    DllOf <- MCDllOf
    NULL = NULL
    MaxFunctions = 3
    MaxSymbols = 2
SPECIFICATION Spec
INVARIANTS
    InStep
    EachOnce
    
    
CHECK_DEADLOCK FALSE
