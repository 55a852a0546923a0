SPECIFICATION Spec
CONSTANTS
  n1 = n1
  n2 = n2
  reg1 = reg1
  reg2 = reg2
  use1 = use1
  auth2 = auth2
  Cmds = {reg1, reg2, use1, auth2}
  Nodes = {n1, n2}
  NodeOf <- MCNodeOf
  Registers = {reg1, reg2}
  SavesAuth = {auth2, reg2}
  MaxKills = 1
INVARIANTS
  TokenKept
  ReadableUnlessTorn
  UserFindsToken
CHECK_DEADLOCK FALSE
