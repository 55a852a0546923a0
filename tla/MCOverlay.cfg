SPECIFICATION Spec
CONSTANTS
  self = self
  n1 = n1
  n2 = n2
  n3 = n3
  n4 = n4
  h0 = h0
  h1 = h1
  h2 = h2
  None = None
  BadHost = BadHost
  Self = self
  Nodes = {self, n1, n2, n3, n4}
  HostOf <- MCHosts
  MaxChanges = 3
  MaxFaults = 1
  MaxStarts = 1
INVARIANTS
  MirrorsKnown
  MapIsInKernel
  CleanExit
PROPERTIES
  Converges
  ShutdownEnds
CHECK_DEADLOCK FALSE
