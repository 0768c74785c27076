SPECIFICATION FairSpec
CONSTANTS
  Nodes = {n1, n2, n3}
  None = None
  Batches = {b1, b2}
  ValidBatches = {b1, b2}
  FailingBatches = {}
  Views <- AllConnected
  Recorded = {}
  MaxPhase = 1
  max_phase_history = 1
  RestoreMayFail = FALSE
  Budgets <- Undisturbed
PROPERTIES Termination
CHECK_DEADLOCK FALSE
