SPECIFICATION MCSpec
CONSTANTS
  Tx = {1, 2, 3, 4}
  SenderOf <- MCSenderOf
  NonceOf <- MCNonceOf
  PriceOf <- MCPriceOf
  GasOf <- MCGasOf
  MaxTransactions = 2
  MaxPerAccount = 2
  MinGasPrice = 1
  MaxGasPerTx = 5
  InclusionTimeout = 1
  EnableRbf = TRUE
  MinBumpPercent = 10
  MaxCount = 2
  MaxGas = 2
  MaxTime = 1
  MaxBatches = 2
INVARIANTS
  PoolIsSound SelectionInNonceOrder GroupsAreIndependent  TrieIsExact PoliciesHold
PROPERTY
  ProposedNotDisplaced
VIEW WhatIsRead
\* An ordered batch and an execution come to an end.
CHECK_DEADLOCK FALSE
