SPECIFICATION AllSpec
CONSTANTS
  Requests = {r1, r2, r3}
  Ops = {"takeoff", "chat", "createProfile", "renameProfile", "deleteProfile",
         "createInstance", "updateInstance", "deleteInstance", "setSecret", "deleteSecret",
         "check", "activate"}
  Profiles = {p1}
  Instances = {i1}
  Packs = {k1, k2}
  Names = {frozen, other}
  Frozen = frozen
  Items = {f1}
  Past = {s1, s2}
  Clusters = {c1}
  Nothing = Nothing
SYMMETRY Symmetry
CHECK_DEADLOCK FALSE
INVARIANTS
  RunsPassOpenGate
  OneOfAKindUnlessOverlapping
  SecretsDieWithInstance
  ClosedByStandingDecision
