SPECIFICATION AllSpec
CONSTANTS
  Calls = {c1, c2}
  Customers = {i0}
  Codes = {k1, k2}
  Applications = {a1}
  Platforms = {"google", "meta"}
  Names = {n1, n2}
  Services = {s1}
  Edits = {e1}
  Contracts = {x1, x2}
  Versions = {v1}
  Schemas = {h1, h2}
  Detections = {1, 2, 3}
  Classes = {"smoke", "speaker"}
  Pages = {1, 2, 3}
  ClassOf <- ClassOfThree
  PageOf <- PageOfThree
  Types = {"device", "panel"}
  HeadEnds <- PanelForDevice
  Packs = {p1, p2}
  Maps <- TwoMaps
  MaxItems = 3
  MaxWrites = 2
  Requests = {q1, q2, q3}
  Users = {u1}
  Orders = {o1}
  Settings <- TwoSettings
  Payloads <- Raw
  Null = Null
  Nothing = Nothing
SYMMETRY Symmetry
CHECK_DEADLOCK FALSE
INVARIANTS
  OnceUnlessOverlapping
  PreviewMailsSpaced
  LinksAreCurrent
  ApprovesNewestPlan
  CompleteIsClosed
  ToldIsWelcome
  AdviceClears
  ShownIsSaved
