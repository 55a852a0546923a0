SPECIFICATION Spec
CONSTANTS
  None = None
  Retries = 2
  Timeout = 2
  MaxStarted = 3
INVARIANTS
  FollowedApplySucceeds
CHECK_DEADLOCK FALSE
