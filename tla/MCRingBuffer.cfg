SPECIFICATION MCSpec
CONSTANTS
  Size = 3
  Entry = {a, b}
  Blank = blank
  MaxAdds = 8
INVARIANTS
  GetLastIsRecentHistory
PROPERTY ImplementsRecentLog
CHECK_DEADLOCK FALSE
