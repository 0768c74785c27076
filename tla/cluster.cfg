SPECIFICATION Spec
CONSTANTS
  n1 = n1 n2 = n2 n3 = n3
  Nodes = {n1, n2, n3}
  None = None
  Plans <- AllPlans
  MaxPhase = 2
INVARIANTS Accounted LinkOrder PartitionsHold QuorumFollows
PROPERTIES QueueDrains ScenarioEnds FaultsPass
CHECK_DEADLOCK FALSE
