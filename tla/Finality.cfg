SPECIFICATION MCSpec
CONSTANTS
  Validator = {1, 2}
  Stake <- MCStake
  Attestation <- MCMixed
  Call = {c1, c2}
  MaxBatch = 1
  MaxCalls = 5
  MaxCheckpoints = 2
  MaxHistory = 3
  MaxSyncAttempts = 3
  LeakEpochs = 4
  None = None
PROPERTY
  FinalIsStable
INVARIANTS
  FinalityIsEarned GuardsHold
CHECK_DEADLOCK FALSE
SYMMETRY CallSymmetry
