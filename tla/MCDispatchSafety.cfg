SPECIFICATION SafeSpec
CONSTANTS
  pool = pool
  burst = burst
  place = place
  None = None
  Actions = {pool, burst}
  PoolActions = {pool}
  BadActions = {}
  Ttl <- MCTtl
  MaxAge = 3
  BackoffCap = 1
  PressureDelay = 1
  MaxBatch = 2
  ReportedStatuses = {"accepted", "succeeded", "paused"}
  Refusals <- MCRefusals
  PostedStatuses = {"running"}
  MaxPosts = 1
  MaxCrashes = 1
INVARIANTS
  SnapshotFresh
  TerminalAgrees
  ExactlyOnce
  SuccessIsReal
  OnlyUnknownStatusStrands
PROPERTIES
  TerminalIsFinal
  OvertakenOnlyByRetry
