CONSTANTS
    NREG = 4
    Volatile = {1, 2}
    FreedAll = 3
    ArgBuffer = 4
    MaxFrames = 3
    MaxArgs = 5
SPECIFICATION Spec
INVARIANTS
    OperandsApart
    OperandsSurvive
    OnlyFirstLeaks
    AbortOnlyWhenFull
    ArgsFitBuffer
PROPERTIES
    FunctionsStartFree
CHECK_DEADLOCK FALSE
