SPECIFICATION Spec
CONSTANTS
  Nodes = {n1, n2}
  None = None
  PeerAddresses <- EveryoneKnown
  max_attempts = 2
  Budgets <- Scenarios
  MaxConnections = 6
INVARIANTS InOrder
PROPERTIES MeshForms QueuedArrives RestartedConnects
CHECK_DEADLOCK FALSE
