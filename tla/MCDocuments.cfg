SPECIFICATION AllSpec
CONSTANTS
  Requests = {r1, r2}
  JobNames = {j1, j2}
  Documents = {d1}
  Packs = {p1}
  Detections = {x1, x2}
  Classes = {c1}
  Types = {t1, t2}
  Tasks = {t1}
  MaxPages = 2
  Tries = 2
  Nothing = Nothing
SYMMETRY Symmetry
CHECK_DEADLOCK FALSE
INVARIANTS
  InProgressHasCause
  ContractIsWhole
  OneTypePerClass
