SPECIFICATION ReaderFairSpec
CONSTANTS
  a = a  b = b  c = c
  Codes = {a, b, c}
  Words = {w1, w2}
  Quotes = {q1, q2}
  Readers = {r1}
  Count = 2
  Hash <- MCHash
  Retries = 2
  MaxPuts = 3
  Ordered = TRUE
  CodeWord = code
  NoCode = NoCode
  NoQuote = NoQuote
  Unread = Unread
  Absent = Absent
  GaveUp = GaveUp
INVARIANTS ProbePaths SlotsPublished CopiesCurrent
PROPERTIES ImplementsMap GetReturns
