SPECIFICATION ConvergenceSpec
CONSTANTS
  None = None
  Actions = {1, 2}
  PoolActions = {1, 2}
  BadActions = {}
  Ttl <- MCTtl
  MaxAge = 2
  BackoffCap = 2
  PressureDelay = 1
  MaxBatch = 1
  ReportedStatuses = {"accepted", "succeeded"}
  Refusals <- MCRefusals
  PostedStatuses = {}
  MaxPosts = 0
  MaxCrashes = 0
  Sizes = {10, 20}
  FastWindow = 1
  Cooldowns = {0, 1}
  MaxCooldown = 1
  MaxChanges = 3
INVARIANTS
  PoolFollowsIntent
PROPERTIES
  PoolFollowsDemand
  ImplementsPoolControl
