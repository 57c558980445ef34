SPECIFICATION AllSpec
CONSTANTS
  Requests = {r1, r2}
  Pages = {p1, p2}
  DailyLimit = 1
  Offset <- West
  Horizon = 36
  Limit = 2
  Window = 3
  Cleaning = 4
  Kept = 6
  MaxTime = 7
  MaxAsked = 2
  Entries = {e1, e2, e3}
  Threshold = 2
  Flushes = {f1, f2, f3}
  Registers = TRUE
  MaxFailed = 2
  Messages = {m1}
  Tries = 3
  Nothing = Nothing
SYMMETRY Symmetry
CHECK_DEADLOCK FALSE
INVARIANTS
  ResetsTomorrow
