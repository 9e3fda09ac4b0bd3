SPECIFICATION Spec
CONSTANTS
  Process = {"p", "q"}
  Deployed = {"p", "q"}
  None = None
  MayPause = FALSE
  MaxVisits = 2
  MaxSteps = 2
  MaxEvictions = 2
  MaxCrashes = 0
PROPERTIES
  SubgraphNodeReturns
