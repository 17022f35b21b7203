SPECIFICATION MCSpec
CONSTANTS
  Validator = {1, 2}
  Stake <- MCStake
  Attestation <- MCMixed
  Call = {1, 2}
  MaxBatch = 1
  MaxCalls = 5
  MaxCheckpoints = 9
  MaxHistory = 9
  MaxSyncAttempts = 3
  LeakEpochs = 4
  None = None
INVARIANT
  HistoryIsConsistent
CHECK_DEADLOCK FALSE
