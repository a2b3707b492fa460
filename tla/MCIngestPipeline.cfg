SPECIFICATION PipeFairSpec
CONSTANTS
  Total = 5
  Jobs = 2
  Batch = 2
  Prefixings <- MCPrefixings
  QueueSlots = 3
  MaxMade = 6
INVARIANTS PipeTypeOK Accounted InOrder ExitDrains NoGaps OnceEach
PROPERTIES Stops PrefixedRoundEnds
