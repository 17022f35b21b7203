\* A resumed miner whose clock runs both ways; three threads and every set of
\* valid nonces; every pool of up to six candidates; every set of five subsystems,
\* registered and listed in every order.
SPECIFICATION MCSpec
CONSTANTS
  TargetBlockTime = 4
  AdjustmentPeriod = 2
  UseDgw = TRUE
  DgwWindow = 2
  InitialDifficulty = 64
  MinDifficulty = 16
  MaxDifficulty = 100
  MaxAdjustmentFactor = 2
  MaxU256 = 1000
  t1 = t1
  t2 = t2
  Task = {t1}
  Zero = 0
  HistoryLimit = 3
  StartingHeight = 2
  Histories <- AnyHistory
  LastDifficulty = 64
  GasLimits = {10}
  ClockSteps <- BothWays
  MaxSkew = 1
  MaxBlocks = 3
  MaxTime = 5
  NumThreads = 3
  MaxNonce = 7
  LastThread = 254
  MinGasPrice = 2
  GasLimit = 7
  Wrap = 32
  MaxCandidates = 6
INVARIANTS MinerIsSound SearchIsExact SelectionIsRight NodeIsOrdered
PROPERTY Terminates
CHECK_DEADLOCK FALSE
