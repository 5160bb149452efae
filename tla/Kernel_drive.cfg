SPECIFICATION FairSpec
CONSTANTS
  MaxCells = 3
  MaxPrints = 1
  MaxAsks = 1
INVARIANTS OutputIsWhole 
  
CHECK_DEADLOCK FALSE
