SPECIFICATION Spec
CONSTANTS
  k1 = k1
  k2 = k2
  Key = {k1, k2}
  None = None
  Process <- MCProcess
  Deployments <- MCDeployments
  Policies <- MCPolicies
  MaxAttempts = 2
  MaxRequests = 1
  MaxCrashes = 1
INVARIANTS
  TypeOK
  NodesSeeTheirInput
  RequestsAreOfOneExecution
  NoDanglingReference
  NoAttemptAfterTheLast
PROPERTIES
  ReplaysReadTheSame
  ActivityEnds
