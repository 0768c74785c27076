SPECIFICATION Spec
CONSTANTS
  n1 = n1 n2 = n2 n3 = n3
  Nodes = {n1, n2, n3}
  None = None
  Plans <- Connected
  MaxPhase = 2
INVARIANT ResponseKept
CHECK_DEADLOCK FALSE
