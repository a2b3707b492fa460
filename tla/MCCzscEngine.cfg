SPECIFICATION CzscSpec
CONSTANTS
  Histories <- MCHistories
  Shapes <- MCShapes
  MaxMore = 4
  MaxRevisions = 1
  MinBiLen = 6
  MaxBiNum = 2
INVARIANTS UbiWellFormed StrokesChain StrokesEnd
CHECK_DEADLOCK FALSE
