CONSTANTS
  a = a
  b = b
  Char <- MCChar
  Lines <- MCLines
  HistCap = 7
SPECIFICATION HistorySpec
INVARIANTS HistoryTypeOK RecallFramed
PROPERTY RefinesHistoryList
