SPECIFICATION LoopFairSpec
CONSTANTS
  MinBars = 2
  Parts = 2
  MaxBars = 4
  MaxFed = 3
INVARIANTS LoopTypeOK FedOnce
PROPERTIES WrittenAgain
