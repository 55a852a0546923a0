SPECIFICATION Spec
CONSTANTS
  None = None
  Subnets = {s1, s2}
  BadSubnet = BadSubnet
  HostCount = 2
  Containers = {c1, c2, c3}
  MaxStarts = 3
  MaxRestarts = 1
INVARIANTS
  AddressesDiffer
  OwnSubnetOnly
  RunningIsBridged
CHECK_DEADLOCK FALSE
