SPECIFICATION Spec
CONSTANTS
  Texts <- MCTexts
  InitialCapacity = 2
INVARIANTS
    TextCovered
    
    EndsAtEnd
    AcceptsExactly
    ScopesBalanced
    DeclaredInPlace
PROPERTIES
    FinishesUnlessOrphaned
CHECK_DEADLOCK FALSE
