\* Concurrent calls on a chain that is pruned to one block below its head; a
\* fork with votes that move; conflicting votes, drained and pruned.
SPECIFICATION MCSpec
CONSTANTS
  c1 = c1
  c2 = c2
  Block <- MCBlock
  GenesisBlock <- MCGenesis
  ZeroHash = "0"
  Validator = {1, 2, 3, 4}
  Task = {c1, c2}
  MinAttestationPercent = 67
  ByzantineThreshold = 1
  MaxDrift = 1
  MaxBlocks = 1
  MaxTime = 2
  MaxChildren = 2
  MaxSlashings = 3
INVARIANTS ChainIsIndexed KnownAreLinked VotesAreWeighed ShardsAreConsistent NeverOneSided
SYMMETRY Symmetry
VIEW WhatIsRead
\* A lock that nobody asks for, a full list of shards and the bound on time end
\* some behaviours.
CHECK_DEADLOCK FALSE
