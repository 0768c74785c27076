SPECIFICATION Spec
CONSTANTS
  Nodes = {n1, n2, n3}
  None = None
  Batches = {b1, b2}
  ValidBatches = {b1, b2}
  FailingBatches = {}
  Views <- MaybeIsolated
  Recorded = {}
  MaxPhase = 2
  max_phase_history = 1
  RestoreMayFail = FALSE
  Budgets <- Operated
SYMMETRY Symm
INVARIANTS Inert SyncBringsState
CHECK_DEADLOCK FALSE
