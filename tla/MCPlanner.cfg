SPECIFICATION Spec
CONSTANTS
  w1 = w1
  g1 = g1
  g2 = g2
  c1 = c1
  None = None
  U32Size = 128
  Workloads = {w1}
  Groups = {g1, g2}
  Rank <- MCRank
  PolicyChoices <- MCPolicies
  LoadChoices <- MCLoads
  GroupChoices <- MCGroups
  FastWindow = 2
  SlowWindow = 4
  MaxCooldown = 3
  MaxInputs = 4
INVARIANTS
  NewestMatchesIntent
  ScaledOncePerWindow
  AwayFromHeat
PROPERTIES
  IntentFollowsDemand
