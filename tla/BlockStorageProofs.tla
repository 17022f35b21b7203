------------------------- MODULE BlockStorageProofs -------------------------
(***************************************************************************)
(* Proofs about BlockStorage for every set of blocks: the parent chain and *)
(* the height keys are consistent in memory and in the file, and a block   *)
(* write_block acknowledged is durable, across failed saves and crashes.   *)
(* The inductive invariant adds to the three properties that the in-memory *)
(* keys never fall behind the file: a later save then keeps what an        *)
(* earlier one wrote.                                                      *)
(***************************************************************************)
EXTENDS BlockStorage, TLAPS

\* One store is consistent by itself.
StoreConsistent(s) ==
    /\ DOMAIN s.heights \subseteq Nat
    /\ \A b \in s.blocks : HeightOf[b] = 0 \/ ParentOf[b] \in s.blocks
    /\ \A h \in DOMAIN s.heights : s.heights[h] \in s.blocks /\ HeightOf[s.heights[h]] = h
    /\ \A b \in s.blocks : HeightOf[b] \in DOMAIN s.heights

IsStoreRecord(s) == s = [blocks |-> s.blocks, heights |-> s.heights, txs |-> s.txs]

DurableInv ==
    /\ IsStoreRecord(data) /\ IsStoreRecord(file)
    /\ StoreConsistent(data)
    /\ StoreConsistent(file)
    /\ acked \subseteq file.blocks
    /\ file.blocks \subseteq data.blocks

\* The batch of write_block keeps a store consistent when the parent is in it.
LEMMA BatchConsistent ==
    ASSUME NEW s, NEW b \in Block, IsStoreRecord(s), StoreConsistent(s),
           HeightOf[b] = 0 \/ ParentOf[b] \in s.blocks
    PROVE  /\ IsStoreRecord(Batch(s, b))
           /\ StoreConsistent(Batch(s, b))
           /\ Batch(s, b).blocks = s.blocks \cup {b}
<1> DEFINE t == Batch(s, b)
<1>1. t = [blocks |-> s.blocks \cup {b}, heights |-> Store(s.heights, HeightOf[b], b), txs |-> s.txs]
  <2>1. PICK x, y, z : s = [blocks |-> x, heights |-> y, txs |-> z]
    BY DEF IsStoreRecord
  <2>2. s.blocks = x /\ s.heights = y /\ s.txs = z
    BY <2>1
  <2>3. t = [s EXCEPT !.blocks = x \cup {b}, !.heights = Store(y, HeightOf[b], b)]
    BY <2>2 DEF Batch
  <2>4. t = [blocks |-> x \cup {b}, heights |-> Store(y, HeightOf[b], b), txs |-> z]
    <3> DEFINE p == x \cup {b}  q == Store(y, HeightOf[b], b)
    <3>1. t = [s EXCEPT !.blocks = p, !.heights = q]
      BY <2>3
    <3> HIDE DEF p, q, t
    <3>2. t = [blocks |-> p, heights |-> q, txs |-> z]
      BY <3>1, <2>1
    <3> QED
      BY <3>2 DEF p, q
  <2> QED
    BY <2>2, <2>4
<1>2. HeightOf[b] \in Nat
  BY StorageAssumption
<1>3. DOMAIN t.heights = DOMAIN s.heights \cup {HeightOf[b]}
  BY <1>1 DEF Store
<1>4. \A h \in DOMAIN t.heights : t.heights[h] = IF h = HeightOf[b] THEN b ELSE s.heights[h]
  BY <1>1 DEF Store
<1>5. t.blocks = s.blocks \cup {b}
  BY <1>1
<1>6. StoreConsistent(t)
  BY <1>2, <1>3, <1>4, <1>5 DEF StoreConsistent
<1>7. IsStoreRecord(t)
  BY <1>1 DEF IsStoreRecord
<1> QED
  BY <1>5, <1>6, <1>7

LEMMA DurableInit == Init => DurableInv
BY DEF Init, DurableInv, IsStoreRecord, StoreConsistent, EmptyStore, EmptyMap

\* A transaction location changes neither the blocks nor the height keys.
LEMMA TxsConsistent ==
    ASSUME NEW s, NEW f, IsStoreRecord(s), StoreConsistent(s)
    PROVE  LET t == [s EXCEPT !.txs = f]
           IN  IsStoreRecord(t) /\ StoreConsistent(t) /\ t.blocks = s.blocks
BY DEF IsStoreRecord, StoreConsistent

\* The outcomes of write_block preserve the invariant.
LEMMA WriteKeeps ==
    ASSUME NEW b \in Block, NEW replies, DurableInv,
           WriteRefused(b) \/ WriteUnsaved(b) \/ WriteOk(b, replies)
    PROVE  DurableInv'
<1>1. CASE WriteRefused(b)
  BY <1>1 DEF WriteRefused, DurableInv, IsStoreRecord, StoreConsistent
<1>2. ASSUME CheckParentExists(b)
      PROVE  /\ IsStoreRecord(Batch(data, b)) /\ StoreConsistent(Batch(data, b))
             /\ Batch(data, b).blocks = data.blocks \cup {b}
  BY <1>2, BatchConsistent DEF DurableInv, CheckParentExists, BlockExists
<1>3. CASE WriteUnsaved(b)
  <2>1. data' = Batch(data, b) /\ file' = file /\ acked' = acked /\ CheckParentExists(b)
    BY <1>3 DEF WriteUnsaved
  <2> QED
    BY <1>2, <2>1 DEF DurableInv, IsStoreRecord, StoreConsistent
<1>4. CASE WriteOk(b, replies)
  <2>1. /\ data' = Batch(data, b) /\ file' = Batch(data, b)
        /\ acked' = acked \cup {b} /\ CheckParentExists(b)
    BY <1>4 DEF WriteOk
  <2> QED
    BY <1>2, <2>1 DEF DurableInv, IsStoreRecord, StoreConsistent
<1> QED
  BY <1>1, <1>3, <1>4

LEMMA DurableStep == DurableInv /\ [Next]_vars => DurableInv'
<1> SUFFICES ASSUME DurableInv, [Next]_vars PROVE DurableInv'
  OBVIOUS
<1>1. ASSUME UNCHANGED <<data, file, acked>> PROVE DurableInv'
  BY <1>1 DEF DurableInv, IsStoreRecord, StoreConsistent
<1>2. ASSUME NEW b \in Block, InitializeGenesis(b) PROVE DurableInv'
  BY <1>2, WriteKeeps DEF InitializeGenesis
<1>3. ASSUME NEW b \in Block, NEW buffer, NEW answer, TryComplete(buffer, b, answer)
      PROVE  DurableInv'
  <2>1. CASE ~IsComplete(buffer, b)
    BY <1>1, <1>3, <2>1 DEF TryComplete
  <2>2. CASE IsComplete(buffer, b)
    BY <1>3, <2>2, WriteKeeps DEF TryComplete
  <2> QED
    BY <2>1, <2>2
<1>4. ASSUME NEW b \in Assembled, HandleBlockValidated(b) PROVE DurableInv'
  BY <1>3, <1>4 DEF HandleBlockValidated, Assembled
<1>5. ASSUME NEW b \in Assembled, NEW component, HandleRootComputed(b, component)
      PROVE  DurableInv'
  BY <1>3, <1>5 DEF HandleRootComputed, Assembled
<1>6. ASSUME NEW height, HandleMarkFinalized(height) PROVE DurableInv'
  BY <1>1, <1>6 DEF HandleMarkFinalized
<1>7. CASE IndexTransaction
  <2>1. acked' = acked
    BY <1>7 DEF IndexTransaction
  <2>2. CASE ~PersistTxIndex
    BY <1>1, <1>7, <2>1, <2>2 DEF IndexTransaction
  <2>3. CASE PersistTxIndex
    <3>1. PICK f : data' = [data EXCEPT !.txs = f] /\ file' \in {file, data'}
      BY <1>7, <2>3 DEF IndexTransaction
    <3>2. IsStoreRecord(data') /\ StoreConsistent(data') /\ data'.blocks = data.blocks
      BY <3>1, TxsConsistent DEF DurableInv
    <3> QED
      BY <2>1, <3>1, <3>2 DEF DurableInv, IsStoreRecord, StoreConsistent
  <2> QED
    BY <2>2, <2>3
<1>8. CASE WriteReturns
  BY <1>1, <1>8 DEF WriteReturns
<1>9. CASE GcExpiredAssemblies
  BY <1>1, <1>9 DEF GcExpiredAssemblies
<1>10. CASE Tick
  BY <1>1, <1>10 DEF Tick
<1>11. CASE Restart
  <2>1. data' = file /\ file' = file /\ acked' = acked
    BY <1>11 DEF Restart
  <2> QED
    BY <2>1 DEF DurableInv, IsStoreRecord, StoreConsistent
<1>12. CASE UNCHANGED vars
  BY <1>1, <1>12 DEF vars
<1> QED
  BY <1>2, <1>4, <1>5, <1>6, <1>7, <1>8, <1>9, <1>10, <1>11, <1>12 DEF Next

LEMMA DurableAlways == Spec => []DurableInv
BY DurableInit, DurableStep, PTL DEF Spec

\* INVARIANT-1 of SPEC-02 for every set of blocks: check_parent_exists against
\* the in-memory keys is enough to keep the parent chain closed in the file.
THEOREM ParentChainClosed == Spec => []ParentsStored
<1>1. DurableInv => ParentsStored
  BY DEF DurableInv, StoreConsistent, ParentsStored
<1> QED
  BY <1>1, DurableAlways, PTL

\* Height keys and block keys agree in memory and in the file: the batch of
\* write_block puts both, and no save ever separates them.
THEOREM HeightKeysAlwaysBacked == Spec => []HeightKeysBacked
<1>1. DurableInv => HeightKeysBacked
  BY DEF DurableInv, StoreConsistent, HeightKeysBacked
<1> QED
  BY <1>1, DurableAlways, PTL

\* From the head the chain can be walked down to genesis, by parent and by
\* height, in memory and after any crash.
THEOREM ChainAlwaysBacked == Spec => []ChainIsBacked
<1>1. ParentsStored /\ HeightKeysBacked => ChainIsBacked
  BY DEF ChainIsBacked
<1> QED
  BY <1>1, ParentChainClosed, HeightKeysAlwaysBacked, PTL

\* What write_block returned Ok for is never lost, whatever saves fail later
\* and wherever the node crashes.
THEOREM AcknowledgedIsDurable == Spec => []AckedIsDurable
<1>1. DurableInv => AckedIsDurable
  BY DEF DurableInv, AckedIsDurable
<1> QED
  BY <1>1, DurableAlways, PTL
=============================================================================
