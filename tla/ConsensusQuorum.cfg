\* The four validators and the percentage of the node.
SPECIFICATION MCSpec
CONSTANTS
  c1 = c1
  c2 = c2
  Block <- MCBlock
  GenesisBlock <- MCGenesis
  ZeroHash = "0"
  Validator = {1, 2, 3, 4}
  Task = {c1, c2}
  MinAttestationPercent = 67
  ByzantineThreshold = 1
  MaxDrift = 1
  MaxBlocks = 1
  MaxTime = 2
  MaxChildren = 2
  MaxSlashings = 3
INVARIANT TwoThirdsAttest
\* A behaviour of another part than the service may end.
CHECK_DEADLOCK FALSE
