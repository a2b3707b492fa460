SPECIFICATION ListSpec
CONSTANTS
  Codes = {s1, s2, etf, bond}
  AStocks = {s1, s2, etf}
  Targets = {s1, s2}
PROPERTIES OldListKept
