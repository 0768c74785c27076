SPECIFICATION Spec
CONSTANTS
  Clients = {c1, c2}
  Keys = {k1, k2, k3}
  Values = {v1, v2}
  None = None
  Calls <- AllCalls
  max_keys = 2
  enable_notifications = TRUE
  MaxCalls = 3
SYMMETRY Symm
INVARIANTS EventsTellState KeysBounded VersionsUnique
CHECK_DEADLOCK FALSE
