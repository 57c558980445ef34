SPECIFICATION Spec
CONSTANTS
  Intakes = {a, b}
  Calls = {c1, c2}
  Targets = {}
  MaxPlan = 2
  MaxDeployment = 3
  MaxNow = 0
VIEW ButIntakeStatus
SYMMETRY Symmetry
INVARIANTS
  UrlsNameOwnSites
  RollbackRestoresSite
  RunningIsHeld
