SPECIFICATION Spec
CONSTANTS
  pool = pool
  burst = burst
  place = place
  None = None
  Actions = {burst, place}
  PoolActions = {}
  BadActions = {place}
  Ttl <- MCTtl
  MaxAge = 3
  BackoffCap = 1
  PressureDelay = 2
  MaxBatch = 2
  ReportedStatuses = {"accepted", "succeeded", "cancelled", "pending"}
  Refusals <- MCRefusals
  PostedStatuses = {"failed", "running"}
  MaxPosts = 1
  MaxCrashes = 1
PROPERTIES
  EventuallySettled
  ImplementsLifecycle
  ImplementsFairness
  BadRowStallsYounger
  ReopenedOnlyByLateAnswer
