SPECIFICATION KlineSpec
CONSTANTS
  MaxBars = 3
  MaxPerDay = 2
  Page = 1
  Fragile = {2}
INVARIANTS VipdocPrefix
PROPERTIES LoopEnds

CHECK_DEADLOCK FALSE
