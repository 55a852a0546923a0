SPECIFICATION Spec
CONSTANTS
  None = None
  Retries = 2
  Timeout = 2
  MaxStarted = 3
INVARIANTS
  OneOperation
  ZeroIsSuccess
  TwoAppliesNothing
PROPERTIES
  CommandEnds
CHECK_DEADLOCK FALSE
