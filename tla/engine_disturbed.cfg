SPECIFICATION Spec
CONSTANTS
  Nodes = {n1, n2, n3}
  None = None
  Batches = {b1, b2}
  ValidBatches = {b1, b2}
  FailingBatches = {b2}
  Views <- AllConnected
  Recorded = {1}
  MaxPhase = 2
  max_phase_history = 0
  RestoreMayFail = TRUE
  Budgets <- Disturbed
SYMMETRY SymmN
INVARIANTS TypeOK Provenance DecidedByProposers AppliedWasProposed CommittedWithinCurrent
CHECK_DEADLOCK FALSE
