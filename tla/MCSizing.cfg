SPECIFICATION Spec
CONSTANTS
  w1 = w1
  g1 = g1
  None = None
  U32Size = 128
  Workloads = {w1}
  Groups = {g1}
  Rank <- MCRank
  PolicyChoices <- MCPolicies
  LoadChoices <- MCLoads
  GroupChoices = {}
  FastWindow = 1
  SlowWindow = 1
  MaxCooldown = 0
  MaxInputs = 2
INVARIANTS
  TargetWithinLimit
  PoolsOrdered
  QuotaRespected
  FloorKept
