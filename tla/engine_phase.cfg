SPECIFICATION Spec
CONSTANTS
  Nodes = {n1, n2, n3}
  None = None
  Batches = {b1, b2, b3}
  ValidBatches = {b1, b2, b3}
  FailingBatches = {}
  Views <- AllConnected
  Recorded = {1}
  MaxPhase = 1
  max_phase_history = 1
  RestoreMayFail = FALSE
  Budgets <- Undisturbed
SYMMETRY Symm
INVARIANTS DecisionAgreement ProposerVotes MatchingVotesDecide
PROPERTIES DecisionStable
CHECK_DEADLOCK FALSE
