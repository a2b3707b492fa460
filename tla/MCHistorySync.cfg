SPECIFICATION HistSpec
CONSTANTS
  Stocks = {s1, s2, s3}
  Prefixed = {s1, s2}
  Batches = {b1}
  NoBatch = NoBatch
  Fibers = {f1, f2}
  NoFiber = NoFiber
  NoStock = NoStock
  Missing = Missing
  Torn = Torn
INVARIANTS MarksSaved MarksAccounted
SYMMETRY Alike
