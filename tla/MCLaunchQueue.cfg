SPECIFICATION FairSpec
CONSTANTS
  Intakes = {a}
  Calls = {c1, c2}
  Targets = {"deployed"}
  MaxPlan = 1
  MaxDeployment = 2
  MaxNow = 1
PROPERTY RunsSettle
