SPECIFICATION AllSpec
CONSTANTS
  Requests = {r1, r2, r3}
  Cycles = {c1}
  Ideas = {}
  Signals = {s1}
  Batch = 1
  Packs = {k1, k2}
  MaxReports = 2
  MaxFacts = 2
  Newest <- NewestRead
  Former = Former
  Nothing = Nothing
SYMMETRY Symmetry
CHECK_DEADLOCK FALSE
INVARIANTS
  PreferredIsOutput
