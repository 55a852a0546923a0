SPECIFICATION Spec
CONSTANTS
  None = None
  Dests = {d1, d2}
  Links = {vxlan100, eth0}
  Callers = {c1, c2}
  MaxCalls = 3
  MaxFaults = 2
INVARIANTS
  MapMirrorsKernel
PROPERTIES
  StopEnds
CHECK_DEADLOCK FALSE
