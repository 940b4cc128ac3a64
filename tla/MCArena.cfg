SPECIFICATION ListsSpec
CONSTANTS
  PoolSize = 288
  Header = 40
  MaxEntries = 3
  MaxLocated = 1
  MaxElements = 3
  MaxOthers = 1
  OtherSizes = {40, 260}
  DefaultVecSize = 2
INVARIANTS
    BlocksApart
    OnlyLastOutside
    KeptWhileSmall
    
CHECK_DEADLOCK FALSE
