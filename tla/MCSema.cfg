SPECIFICATION SemaSpec
CONSTANTS
  LiteralTypes <- MCLiteralTypes
  VarTypes <- MCVarTypes
  TypeNames <- MCTypeNames
  Functions <- MCFunctions
  MaxNodes = 4
INVARIANTS
  WellTyped
  VerdictFollowsErrors
  InitializerFits
  GeneratesIfClean
CHECK_DEADLOCK FALSE
