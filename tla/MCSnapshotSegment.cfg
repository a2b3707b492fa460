SPECIFICATION SegSpec
CONSTANTS
  Codes = {a, b}
  Words = {w1}
  Quotes = {q1, q2}
  Readers = {r1}
  Count = 2
  Hash <- MCHash
  Retries = 2
  MaxPuts = 2
  Ordered = TRUE
  CodeWord = code
  NoCode = NoCode
  NoQuote = NoQuote
  Unread = Unread
  Absent = Absent
  GaveUp = GaveUp
  Writers = {p1, p2}
  NoOne = NoOne
  SeqWord = SeqWord
  MaxCreates = 2
INVARIANTS OneWriter RunsOnSoundTable
PROPERTIES AnswersWithinOneGeneration
