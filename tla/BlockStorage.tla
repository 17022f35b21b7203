---------------------------- MODULE BlockStorage ----------------------------
(***************************************************************************)
(* The block storage service of qc-02 (service.rs) behind its IPC handlers *)
(* (ipc/handlers.rs), over the file-backed key-value store                 *)
(* (ports/outbound.rs).  The store keeps all keys in memory (data) and     *)
(* rewrites its file on every put or batch: when that save fails, data has *)
(* changed and the file has not.  A crash between two writes to the store  *)
(* loses everything but the file.  A block is its hash; the header fields  *)
(* are functions of it.  Envelope validation is left out: a message it     *)
(* refuses changes nothing here.                                           *)
(***************************************************************************)
EXTENDS AssemblyBuffer, Sequences, FiniteSetsExt

CONSTANTS
    Block,             \* block hashes
    HeightOf,          \* header.height
    ParentOf,          \* header.parent_hash (any value at height 0)
    TxsOf,             \* transactions, a sequence of hashes
    PersistTxIndex,    \* StorageConfig::persist_transaction_index
    MaxTime, MaxRestarts,
    None               \* Option::None

ASSUME StorageAssumption ==
    /\ None \notin Block
    /\ HeightOf \in [Block -> Nat]
    /\ PersistTxIndex \in BOOLEAN
    /\ MaxTime \in Nat /\ MaxRestarts \in Nat
    /\ \A b \in Block : TxsOf[b] \in Seq(UNION {Range(TxsOf[c]) : c \in Block})

VARIABLES
    now,               \* wall clock
    restarts,
    data,              \* FileBackedKVStore::data
    file,              \* the contents of its file
    block_index,       \* height -> hash
    metadata,
    tx_index,          \* tx hash -> location
    assembly_buffer,
    writing,           \* the write_block call that is indexing transactions
    acked,             \* history: hashes write_block returned Ok for
    reply              \* what the last handler call returned

vars == <<now, restarts, data, file, block_index, metadata, tx_index,
          assembly_buffer, writing, acked, reply>>

EmptyMap == [k \in {} |-> None]
EmptyStore == [blocks |-> {}, heights |-> EmptyMap, txs |-> EmptyMap]
DefaultMetadata ==
    [genesis_hash |-> None, latest_height |-> 0,
     finalized_height |-> 0, total_blocks |-> 0]

NewMetadata(md, b) ==
    [md EXCEPT !.genesis_hash = IF @ = None /\ HeightOf[b] = 0 THEN b ELSE @,
               !.latest_height = IF HeightOf[b] > @ THEN HeightOf[b] ELSE @,
               !.total_blocks = @ + 1]

Init ==
    /\ now = 0 /\ restarts = 0
    /\ data = EmptyStore /\ file = EmptyStore
    /\ block_index = EmptyMap /\ metadata = DefaultMetadata
    /\ tx_index = EmptyMap /\ assembly_buffer = EmptyMap
    /\ writing = None
    /\ acked = {} /\ reply = None

BlockExists(b) == b \in data.blocks

\* Variant: any block at the parent's height will do.
ParentAtHeightExists(b) ==
    HeightOf[b] = 0 \/ HeightOf[b] - 1 \in DOMAIN data.heights

CheckParentExists(b) == HeightOf[b] = 0 \/ BlockExists(ParentOf[b])

\* Variant: the block key alone, the height key is not part of the batch.
BatchWithoutHeight(store, b) == [store EXCEPT !.blocks = @ \cup {b}]

\* The two puts of the atomic batch.
Batch(store, b) ==
    [store EXCEPT !.blocks = @ \cup {b}, !.heights = Store(@, HeightOf[b], b)]

(***************************************************************************)
(* The outcomes of write_block(b).  The disk may be full at any time, so a *)
(* refusal is always possible.                                             *)
(***************************************************************************)
WriteRefused(b) ==
    UNCHANGED <<data, file, block_index, metadata, tx_index, writing, acked>>

WriteUnsaved(b) ==
    /\ CheckParentExists(b) /\ ~BlockExists(b)
    /\ data' = Batch(data, b)
    /\ UNCHANGED <<file, block_index, metadata, tx_index, writing, acked>>

\* Variant: memory is updated and Ok returned before the file is saved.
WriteOkUnsaved(b, replies) ==
    /\ CheckParentExists(b) /\ ~BlockExists(b)
    /\ data' = Batch(data, b)
    /\ block_index' = Store(block_index, HeightOf[b], b)
    /\ metadata' = NewMetadata(metadata, b)
    /\ writing' = [block |-> b, next |-> 1, replies |-> replies]
    /\ acked' = acked \cup {b}
    /\ UNCHANGED <<file, tx_index>>

WriteOk(b, replies) ==
    /\ CheckParentExists(b) /\ ~BlockExists(b)
    /\ data' = Batch(data, b)
    /\ file' = data'
    /\ block_index' = Store(block_index, HeightOf[b], b)
    /\ metadata' = NewMetadata(metadata, b)
    /\ writing' = [block |-> b, next |-> 1, replies |-> replies]
    /\ acked' = acked \cup {b}
    /\ UNCHANGED tx_index

\* initialize_genesis, on start-up.  When its write fails the node does not
\* start, which leaves the file as it was.
InitializeGenesis(b) ==
    /\ writing = None
    /\ HeightOf[b] = 0 /\ 0 \notin DOMAIN block_index
    /\ WriteOk(b, FALSE)
    /\ UNCHANGED <<now, restarts, assembly_buffer, reply>>

\* Variant: indexes the last transaction only.
IndexTransactionLast ==
    LET b == writing.block
        loc == [block |-> b, height |-> HeightOf[b], index |-> writing.next]
        txs == Store(tx_index, TxsOf[b][Len(TxsOf[b])], loc)
    IN  /\ writing /= None
        /\ writing.next <= Len(TxsOf[b])
        /\ tx_index' = txs
        /\ writing' = [writing EXCEPT !.next = @ + 1]
        /\ UNCHANGED <<now, restarts, data, file, block_index, metadata,
                       assembly_buffer, acked, reply>>

\* One round of the loop of index_transactions.  A failed put is only logged.
IndexTransaction ==
    /\ writing /= None
    /\ writing.next <= Len(TxsOf[writing.block])
    /\ LET b == writing.block
           tx == TxsOf[b][writing.next]
           loc == [block |-> b, height |-> HeightOf[b], index |-> writing.next]
       IN  /\ tx_index' = Store(tx_index, tx, loc)
           /\ IF PersistTxIndex
              THEN /\ data' = [data EXCEPT !.txs = Store(@, tx, loc)]
                   /\ file' \in {file, data'}
              ELSE UNCHANGED <<data, file>>
    /\ writing' = [writing EXCEPT !.next = @ + 1]
    /\ UNCHANGED <<now, restarts, block_index, metadata, assembly_buffer,
                   acked, reply>>

\* BlockStoredPayload: the hash it names, and the block its roots come from.
BlockStored(hash, found) == [hash |-> hash, found |-> found]

\* write_block returns Ok, and the handler that called it replies: the block
\* is found, by its height or by its hash.
WriteReturns ==
    /\ writing /= None
    /\ writing.next > Len(TxsOf[writing.block])
    /\ writing' = None
    /\ reply' = IF writing.replies THEN BlockStored(writing.block, writing.block) ELSE None
    /\ UNCHANGED <<now, restarts, data, file, block_index, metadata, tx_index,
                   assembly_buffer, acked>>

(***************************************************************************)
(* The handlers of the three assembly events.                              *)
(***************************************************************************)
\* What a handler answers when no write is needed.  handle_block_validated
\* looks for a block of that height, the others for a block of that hash.
ReplyByHeight(b) ==
    IF HeightOf[b] \in DOMAIN block_index
    THEN BlockStored(b, block_index[HeightOf[b]])
    ELSE None

ReplyByHash(b) == IF BlockExists(b) THEN BlockStored(b, b) ELSE None

\* try_complete_assembly on the buffer the handler has just extended, then
\* the reply.  take_complete removes the assembly whatever write_block does.
TryComplete(buffer, b, answer) ==
    \/ /\ ~IsComplete(buffer, b)
       /\ assembly_buffer' = buffer
       /\ reply' = answer
       /\ UNCHANGED <<data, file, block_index, metadata, tx_index, writing, acked>>
    \/ /\ IsComplete(buffer, b)
       /\ assembly_buffer' = Without(buffer, {b})
       /\ WriteRefused(b) \/ WriteUnsaved(b) \/ WriteOk(b, TRUE)
       /\ reply' = None

HandleBlockValidated(b) ==
    /\ writing = None
    /\ LET added == AddBlockValidated(assembly_buffer, b, HeightOf[b], now)
       IN  \E purged \in OldestSets(added) :
              TryComplete(Without(added, purged), b, ReplyByHeight(b))
    /\ UNCHANGED <<now, restarts>>

HandleRootComputed(b, component) ==
    /\ writing = None
    /\ TryComplete(AddRoot(assembly_buffer, b, component, now), b, ReplyByHash(b))
    /\ UNCHANGED <<now, restarts>>

HandleMarkFinalized(height) ==
    /\ writing = None
    /\ height \in DOMAIN block_index
    /\ height > metadata.finalized_height
    /\ metadata' = [metadata EXCEPT !.finalized_height = height]
    /\ UNCHANGED <<now, restarts, data, file, block_index, tx_index,
                   assembly_buffer, writing, acked, reply>>

GcExpiredAssemblies ==
    /\ writing = None
    /\ Expired(assembly_buffer, now) /= {}
    /\ assembly_buffer' = Without(assembly_buffer, Expired(assembly_buffer, now))
    /\ UNCHANGED <<now, restarts, data, file, block_index, metadata, tx_index,
                   writing, acked, reply>>

Tick ==
    /\ now < MaxTime
    /\ now' = now + 1
    /\ UNCHANGED <<restarts, data, file, block_index, metadata, tx_index,
                   assembly_buffer, writing, acked, reply>>

\* Variant: the metadata are not rebuilt.
NoLoadedMetadata(heights) == DefaultMetadata

\* load_index_from_storage leaves the default metadata of an empty store alone.
LoadedMetadata(heights) ==
    IF heights = EmptyMap
    THEN DefaultMetadata
    ELSE NewMetadata(DefaultMetadata, heights[Max(DOMAIN heights)])

\* A crash at any point, and BlockStorageService::new on what the file holds.
Restart ==
    /\ restarts < MaxRestarts
    /\ restarts' = restarts + 1
    /\ data' = file
    /\ block_index' = file.heights
    /\ metadata' = LoadedMetadata(file.heights)
    /\ tx_index' = IF PersistTxIndex THEN file.txs ELSE EmptyMap
    /\ assembly_buffer' = EmptyMap
    /\ writing' = None
    /\ reply' = None
    /\ UNCHANGED <<now, file, acked>>

\* "Genesis bypasses the normal assembly flow" (node-runtime main.rs).
Assembled == {b \in Block : HeightOf[b] > 0}

Next ==
    \/ \E b \in Block : InitializeGenesis(b)
    \/ \E b \in Assembled : HandleBlockValidated(b)
    \/ \E b \in Assembled : HandleRootComputed(b, "MerkleRootComputed")
    \/ \E b \in Assembled : HandleRootComputed(b, "StateRootComputed")
    \/ \E b \in Block : HandleMarkFinalized(HeightOf[b])
    \/ IndexTransaction \/ WriteReturns
    \/ GcExpiredAssemblies \/ Tick \/ Restart

Spec == Init /\ [][Next]_vars

-----------------------------------------------------------------------------
\* INVARIANT-1 of SPEC-02, in memory and on disk, whatever saves fail and
\* wherever the node crashes: the parent of a stored block is stored.
\* (check_parent_exists asks the in-memory keys, the file is saved later.)
ParentsStored ==
    \A s \in {data, file} : \A b \in s.blocks :
        HeightOf[b] = 0 \/ ParentOf[b] \in s.blocks

\* The durable half of INVARIANT-4: in memory and on disk a height key leads to
\* a stored block of that height, and the height of every block has a key.
HeightKeysBacked ==
    \A s \in {data, file} :
        /\ \A h \in DOMAIN s.heights : s.heights[h] \in s.blocks /\ HeightOf[s.heights[h]] = h
        /\ \A b \in s.blocks : HeightOf[b] \in DOMAIN s.heights

\* A stored block has its parent stored, and a height key its block, at every
\* moment including a crash.
ChainIsBacked == ParentsStored /\ HeightKeysBacked

\* Every block write_block returned Ok for is in the file, and stays there.
AckedIsDurable == acked \subseteq file.blocks

\* What is read by height: each index entry leads to a stored block of its
\* height, latest_height is the highest entry and the finalized height has
\* one, after a restart too.
IndexDescribesStore ==
    /\ \A h \in DOMAIN block_index :
          block_index[h] \in data.blocks /\ HeightOf[block_index[h]] = h
    /\ DOMAIN block_index /= {} => metadata.latest_height = Max(DOMAIN block_index)
    /\ metadata.finalized_height > 0 => metadata.finalized_height \in DOMAIN block_index

\* get_transaction_location never sends a reader to a block that is not stored
\* or that does not hold the transaction at that position.
LocationsResolve ==
    \A tx \in DOMAIN tx_index :
        LET loc == tx_index[tx] IN
        /\ loc.block \in data.blocks
        /\ loc.index \in DOMAIN TxsOf[loc.block] /\ TxsOf[loc.block][loc.index] = tx

-----------------------------------------------------------------------------
(* What the documents say of the service.                                  *)

\* SPEC-02 INVARIANT-4, "No partial state is possible": a block that can be
\* read by its hash has an entry in the index.
AllOrNothing == \A b \in data.blocks : HeightOf[b] \in DOMAIN block_index

\* SPEC-02 INVARIANT-5, "Finalization cannot regress."
FinalizationMonotonic == [][metadata'.finalized_height >= metadata.finalized_height]_vars

\* SPEC-02 INVARIANT-6, "StorageMetadata.genesis_hash NEVER changes" once set.
GenesisImmutable ==
    [][metadata.genesis_hash /= None => metadata'.genesis_hash = metadata.genesis_hash]_vars

\* entities.rs: total_blocks is the "Total number of blocks stored".
TotalBlocksCounts == metadata.total_blocks = Cardinality(acked)

\* handlers.rs: a BlockStored reply means the assembly of that block completed.
ReplyMeansStored == reply /= None => reply.found = reply.hash

\* value_objects.rs: a persisted transaction index "Survives restarts".
TxIndexSurvives ==
    writing = None => \A b \in acked : Range(TxsOf[b]) \subseteq DOMAIN tx_index
=============================================================================
