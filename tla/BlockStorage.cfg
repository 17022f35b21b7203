\* Saves that fail, assemblies that expire, a crash at any point.
SPECIFICATION MCSpec
CONSTANTS
  g0 = g0  a1 = a1  b1 = b1  a2 = a2  tx1 = tx1  tx2 = tx2  None = None
  Block = {g0, a1, b1, a2}
  HeightOf <- MCHeightOf
  ParentOf <- MCParentOf
  TxsOf <- MCTxsOf
  PersistTxIndex = TRUE
  AssemblyTimeout = 0
  MaxPending = 1
  MaxTime = 1
  MaxRestarts = 1
VIEW WithoutReply
INVARIANTS
  ChainIsBacked AckedIsDurable IndexesDescribeStore IndexProvesItself MaintenanceIsSound
\* The bounds on time and restarts end some behaviours.
CHECK_DEADLOCK FALSE
