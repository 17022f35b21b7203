---------------------------- MODULE Choreography ----------------------------
(***************************************************************************)
(* The block pipeline of the node runtime (V2.3 choreography).  The miner  *)
(* publishes BlockProduced on the shared bus; a bridge republishes it on   *)
(* the event router; the handlers of Consensus, Transaction Indexing,      *)
(* State Management, Transaction Ordering, Block Storage and Finality are  *)
(* independent tasks that only talk through the router's broadcast channel.*)
(*                                                                         *)
(* A broadcast receiver sees the last Capacity events: a receiver that is  *)
(* further behind loses the oldest ones and carries on (Lagged => continue *)
(* in every handler loop).                                                 *)
(***************************************************************************)
EXTENDS AssemblyBuffer, Sequences

CONSTANTS
    Handler,          \* the handlers compiled into the node
    Capacity,         \* capacity of the router's broadcast channel
    BusCapacity,      \* capacity of the shared bus's broadcast channel
    MaxCached,        \* BlockValidationConfig::max_cached_blocks
    MaxFutureDrift,   \* BlockValidationConfig::max_future_drift_secs
    MaxHeight,        \* bound: heights the miner reaches
    MaxTime,          \* bound: the clock stops here
    MaxRestarts       \* bound: restarts of the node

CoreHandler == {"Consensus", "TxIndexing", "StateMgmt", "BlockStorage", "Finality"}
AllHandlers == CoreHandler \cup {"TxOrdering"}

ASSUME ChoreographyAssumption ==
    /\ CoreHandler \subseteq Handler
    /\ Handler \subseteq AllHandlers
    /\ Capacity \in Nat \ {0} /\ BusCapacity \in Nat \ {0}
    /\ MaxCached \in Nat /\ MaxFutureDrift \in Nat
    /\ MaxHeight \in Nat /\ MaxTime \in Nat \ {0} /\ MaxRestarts \in Nat

VARIABLES
    now,          \* wall clock, seconds
    run,          \* how often the node was restarted
    blocks_mined, \* miner: height of the last block mined
    last_ts,      \* miner: last_block_timestamp
    template,     \* miner: timestamp of the block being mined, 0 if none
    subscribed,   \* the bridge has subscribed to the shared bus
    bus,          \* the bridge's unread shared-bus events (blocks)
    inbox,        \* per handler: its unread router events
    validated,    \* ConsensusAdapter::validated_blocks
    chain_height, \* ConsensusAdapter::chain_height
    pending,      \* BlockStorageAdapter::assembly_buffer
    completing,   \* hash try_complete_assembly is about to look up, or NoHash
    gc_expired,   \* assemblies the GC removed and has not announced yet
    durable,      \* heights of the blocks the storage service has written
    published     \* history: every event ever published on the router

miner   == <<blocks_mined, last_ts, template>>
bridge  == <<subscribed, bus>>
storage == <<pending, completing, gc_expired>>
vars == <<now, run, miner, bridge, inbox, validated, chain_height, storage,
          durable, published>>

-----------------------------------------------------------------------------
\* A block hash is the identity of a mined block: a header never recurs.
Block == [run : Nat, height : Nat, timestamp : Nat]

NoHash == [run |-> 0, height |-> 0, timestamp |-> 0]

EventType == Component \cup
    {"BlockProduced", "BlockStored", "BlockFinalized", "AssemblyTimeout",
     "TransactionsOrdered"}

Event == [type : EventType, block_hash : Block, block_height : Nat,
          missing_components : SUBSET Component]

BlockEvent(type, hash, height) ==
    [type |-> type, block_hash |-> hash, block_height |-> height,
     missing_components |-> {}]

\* MerkleRootComputed and StateRootComputed carry no height.
RootEvent(type, hash) == BlockEvent(type, hash, 0)

TimeoutEvent(hash, missing) ==
    [BlockEvent("AssemblyTimeout", hash, 0) EXCEPT !.missing_components = missing]

\* The event types a handler's loop acts on; it skips every other one.
Handles(handler) ==
    CASE handler = "Consensus"    -> {"BlockProduced", "BlockStored"}
      [] handler = "BlockStorage" -> Component
      [] handler = "Finality"     -> {"BlockStored"}
      [] OTHER                    -> {"BlockValidated"}

\* Where the first event that the handler does not skip stands (at most one).
FirstHandled(handler, queue) ==
    {i \in 1..Len(queue) :
        /\ queue[i].type \in Handles(handler)
        /\ \A j \in 1..(i - 1) : queue[j].type \notin Handles(handler)}

\* The unread events from there on.
Skip(handler, queue) ==
    LET first == FirstHandled(handler, queue)
    IN  IF first = {} THEN <<>>
        ELSE SubSeq(queue, CHOOSE i \in first : TRUE, Len(queue))

\* Variant: the newest event is read first.
PushNewestFirst(queue, event, capacity) ==
    <<event>> \o (IF Len(queue) >= capacity THEN Tail(queue) ELSE queue)

\* broadcast::Sender::send for one receiver: the oldest unread event is
\* overwritten when the receiver is a full channel behind.
Push(queue, event, capacity) ==
    Append(IF Len(queue) >= capacity THEN Tail(queue) ELSE queue, event)

\* EventRouter::publish.  Each handler publishes its own type of event under
\* its own subsystem id, so validate_sender and the adapters' sender check pass.
Publish(queues, event) ==
    /\ inbox' = [h \in Handler |-> Skip(h, Push(queues[h], event, Capacity))]
    /\ published' = published \cup {event}

\* The queues once the handler has taken its next event.
Taken(handler) == [inbox EXCEPT ![handler] = Skip(handler, Tail(@))]

Received(handler, type) ==
    /\ inbox[handler] # <<>>
    /\ Head(inbox[handler]).type = type

-----------------------------------------------------------------------------
\* The node starts with the heights of its storage: genesis, after the first
\* initialize_genesis.  Everything else is in memory.
LatestHeight == CHOOSE h \in durable : \A g \in durable : g <= h

NoAssemblies == [h \in {} |-> NewAssembly(0)]

Init ==
    /\ now = 1 /\ run = 0 /\ durable = {0} /\ published = {}
    /\ blocks_mined = LatestHeight /\ last_ts = 0 /\ template = 0
    /\ subscribed = FALSE /\ bus = <<>>
    /\ inbox = [h \in Handler |-> <<>>]
    /\ validated = {} /\ chain_height = LatestHeight
    /\ pending = NoAssemblies /\ completing = NoHash /\ gc_expired = {}

\* start_choreography_handlers after a crash or a container restart.
Restart ==
    /\ run < MaxRestarts
    /\ run' = run + 1
    /\ blocks_mined' = LatestHeight /\ last_ts' = 0 /\ template' = 0
    /\ subscribed' = FALSE /\ bus' = <<>>
    /\ inbox' = [h \in Handler |-> <<>>]
    /\ validated' = {} /\ chain_height' = LatestHeight
    /\ pending' = NoAssemblies /\ completing' = NoHash /\ gc_expired' = {}
    /\ UNCHANGED <<now, durable, published>>

Tick ==
    /\ now < MaxTime
    /\ now' = now + 1
    /\ UNCHANGED <<run, miner, bridge, inbox, validated, chain_height, storage,
                   durable, published>>

-----------------------------------------------------------------------------
\* start_production: the header's timestamp is fixed before mining starts.
MineTemplate ==
    /\ template = 0
    /\ blocks_mined < MaxHeight
    /\ template' = IF now > last_ts THEN now ELSE last_ts + 1
    /\ UNCHANGED <<now, run, blocks_mined, last_ts, bridge, inbox, validated,
                   chain_height, storage, durable, published>>

\* A nonce is found.  The shared bus drops the event when nobody listens.
MineBlock ==
    /\ template # 0
    /\ blocks_mined' = blocks_mined + 1
    /\ last_ts' = template
    /\ template' = 0
    /\ bus' = IF subscribed
              THEN Push(bus, [run |-> run, height |-> blocks_mined + 1,
                              timestamp |-> template], BusCapacity)
              ELSE bus
    /\ UNCHANGED <<now, run, subscribed, inbox, validated, chain_height, storage,
                   durable, published>>

\* start_consensus_and_bridge runs after the miner was started.
BridgeSubscribe ==
    /\ ~subscribed
    /\ subscribed' = TRUE
    /\ UNCHANGED <<now, run, miner, bus, inbox, validated, chain_height, storage,
                   durable, published>>

\* bridge_block_produced_event
BridgeBlockProduced ==
    /\ bus # <<>>
    /\ bus' = Tail(bus)
    /\ Publish(inbox, BlockEvent("BlockProduced", Head(bus), Head(bus).height))
    /\ UNCHANGED <<now, run, miner, subscribed, validated, chain_height, storage,
                   durable>>

-----------------------------------------------------------------------------
\* BlockValidator::validate_block under the default configuration: a height
\* out of sequence is only a warning (strict_height_validation = false), and
\* the difficulty adjuster never returns zero.
ValidBlock(hash) ==
    /\ hash \notin validated
    /\ hash.timestamp <= now + MaxFutureDrift

\* update_validated_blocks_cache: a full cache is emptied, the new hash included.
CacheInsert(cache, hash) ==
    IF Cardinality(cache \cup {hash}) > MaxCached THEN {} ELSE cache \cup {hash}

\* Variant: the chain height follows validation, not storage.
ConsensusOptimisticHeight ==
    /\ Received("Consensus", "BlockProduced")
    /\ LET hash == Head(inbox["Consensus"]).block_hash
       IN  IF ValidBlock(hash)
           THEN /\ validated' = CacheInsert(validated, hash)
                /\ chain_height' = hash.height
                /\ Publish(Taken("Consensus"),
                           BlockEvent("BlockValidated", hash, hash.height))
           ELSE /\ inbox' = Taken("Consensus")
                /\ UNCHANGED <<validated, chain_height, published>>
    /\ UNCHANGED <<now, run, miner, bridge, storage, durable>>

ConsensusBlockProduced ==
    /\ Received("Consensus", "BlockProduced")
    /\ LET hash == Head(inbox["Consensus"]).block_hash
       IN  IF ValidBlock(hash)
           THEN /\ validated' = CacheInsert(validated, hash)
                /\ Publish(Taken("Consensus"),
                           BlockEvent("BlockValidated", hash, hash.height))
           ELSE /\ inbox' = Taken("Consensus")
                /\ UNCHANGED <<validated, published>>
    /\ UNCHANGED <<now, run, miner, bridge, chain_height, storage, durable>>

\* ConsensusAdapter::on_block_stored
ConsensusBlockStored ==
    /\ Received("Consensus", "BlockStored")
    /\ LET height == Head(inbox["Consensus"]).block_height
       IN  chain_height' = IF height > chain_height THEN height ELSE chain_height
    /\ inbox' = Taken("Consensus")
    /\ UNCHANGED <<now, run, miner, bridge, validated, storage, durable, published>>

\* TxIndexingHandler and StateMgmtHandler: the root of the block, which the
\* runtime computes over no transactions, so that it cannot fail.
ComputeRoot(handler, type) ==
    /\ Received(handler, "BlockValidated")
    /\ Publish(Taken(handler), RootEvent(type, Head(inbox[handler]).block_hash))
    /\ UNCHANGED <<now, run, miner, bridge, validated, chain_height, storage, durable>>

ComputeMerkleRoot == ComputeRoot("TxIndexing", "MerkleRootComputed")

ComputeStateRoot == ComputeRoot("StateMgmt", "StateRootComputed")

\* TransactionOrderingHandler: the request it builds has no transactions, which
\* qc-12 refuses (EmptyBatch), so the adapter never reaches its publish.
OrderTransactions ==
    /\ "TxOrdering" \in Handler
    /\ Received("TxOrdering", "BlockValidated")
    /\ inbox' = Taken("TxOrdering")
    /\ UNCHANGED <<now, run, miner, bridge, validated, chain_height, storage,
                   durable, published>>

-----------------------------------------------------------------------------
\* BlockStorageAdapter.  An event is first added to the buffer; the lock is
\* released and taken again by try_complete_assembly, and the garbage collector
\* (a task of its own) may run in between.
StorageIdle == completing = NoHash

\* on_block_validated: the limit is enforced before the entry is added.
StoreBlockValidated ==
    /\ StorageIdle
    /\ Received("BlockStorage", "BlockValidated")
    /\ LET event == Head(inbox["BlockStorage"])
       IN  /\ \E purged \in OldestSets(pending) :
                 pending' = AddBlockValidated(Without(pending, purged), event.block_hash,
                                              event.block_height, now)
           /\ completing' = event.block_hash
    /\ inbox' = Taken("BlockStorage")
    /\ UNCHANGED <<now, run, miner, bridge, validated, chain_height, gc_expired,
                   durable, published>>

\* on_merkle_root and on_state_root: the limit is not enforced.
StoreRoot(type) ==
    /\ StorageIdle
    /\ Received("BlockStorage", type)
    /\ LET hash == Head(inbox["BlockStorage"]).block_hash
       IN  /\ pending' = AddRoot(pending, hash, type, now)
           /\ completing' = hash
    /\ inbox' = Taken("BlockStorage")
    /\ UNCHANGED <<now, run, miner, bridge, validated, chain_height, gc_expired,
                   durable, published>>

StoreMerkleRoot == StoreRoot("MerkleRootComputed")

\* Variant: the handler adds the root and forgets to try to complete.
StoreStateRootOnly ==
    /\ StorageIdle
    /\ Received("BlockStorage", "StateRootComputed")
    /\ pending' = AddRoot(pending, Head(inbox["BlockStorage"]).block_hash,
                          "StateRootComputed", now)
    /\ inbox' = Taken("BlockStorage")
    /\ UNCHANGED <<now, run, miner, bridge, validated, chain_height, completing,
                   gc_expired, durable, published>>

StoreStateRoot == StoreRoot("StateRootComputed")

\* Variant: a complete assembly is read but stays in the buffer.
CompleteWithoutTaking ==
    /\ ~StorageIdle
    /\ completing' = NoHash
    /\ IF IsComplete(pending, completing)
       THEN Publish(inbox, BlockEvent("BlockStored", completing,
                                      pending[completing].block_height))
       ELSE UNCHANGED <<inbox, published>>
    /\ UNCHANGED <<now, run, miner, bridge, validated, chain_height, pending,
                   gc_expired, durable>>

\* try_complete_assembly: take_complete and BlockStored; nothing is written to
\* the storage service.
TryCompleteAssembly ==
    /\ ~StorageIdle
    /\ completing' = NoHash
    /\ IF IsComplete(pending, completing)
       THEN /\ pending' = Without(pending, {completing})
            /\ Publish(inbox, BlockEvent("BlockStored", completing,
                                         pending[completing].block_height))
       ELSE UNCHANGED <<pending, inbox, published>>
    /\ UNCHANGED <<now, run, miner, bridge, validated, chain_height, gc_expired, durable>>

\* gc_stale_assemblies: the expired entries leave the buffer under the lock and
\* are announced one by one after it.
GcStaleAssemblies ==
    /\ gc_expired = {}
    /\ Expired(pending, now) # {}
    /\ gc_expired' = {[hash |-> h, missing |-> Missing(pending[h])]
                        : h \in Expired(pending, now)}
    /\ pending' = Without(pending, Expired(pending, now))
    /\ UNCHANGED <<now, run, miner, bridge, inbox, validated, chain_height, completing,
                   durable, published>>

GcAnnounce ==
    \E gone \in gc_expired :
        /\ gc_expired' = gc_expired \ {gone}
        /\ Publish(inbox, TimeoutEvent(gone.hash, gone.missing))
        /\ UNCHANGED <<now, run, miner, bridge, validated, chain_height, pending,
                       completing, durable>>

-----------------------------------------------------------------------------
\* FinalityHandler::handle_block_stored
EpochSize == 4

FinalizesAt(height) == height % EpochSize = 0 \/ height <= 10

\* Variant: the event carries the epoch where the height belongs.
FinalizeEpoch ==
    /\ Received("Finality", "BlockStored")
    /\ LET event == Head(inbox["Finality"])
       IN  IF FinalizesAt(event.block_height)
           THEN Publish(Taken("Finality"),
                        BlockEvent("BlockFinalized", event.block_hash,
                                   event.block_height \div EpochSize))
           ELSE inbox' = Taken("Finality") /\ UNCHANGED published
    /\ UNCHANGED <<now, run, miner, bridge, validated, chain_height, storage, durable>>

FinalizeBlock ==
    /\ Received("Finality", "BlockStored")
    /\ LET event == Head(inbox["Finality"])
       IN  IF FinalizesAt(event.block_height)
           THEN Publish(Taken("Finality"),
                        BlockEvent("BlockFinalized", event.block_hash, event.block_height))
           ELSE inbox' = Taken("Finality") /\ UNCHANGED published
    /\ UNCHANGED <<now, run, miner, bridge, validated, chain_height, storage, durable>>

-----------------------------------------------------------------------------
Handle ==
    \/ ConsensusBlockProduced \/ ConsensusBlockStored
    \/ ComputeMerkleRoot \/ ComputeStateRoot \/ OrderTransactions
    \/ StoreBlockValidated \/ StoreMerkleRoot \/ StoreStateRoot \/ TryCompleteAssembly
    \/ FinalizeBlock

Next ==
    \/ MineTemplate \/ MineBlock \/ BridgeSubscribe \/ BridgeBlockProduced
    \/ Handle
    \/ GcStaleAssemblies \/ GcAnnounce
    \/ Tick \/ Restart

Spec == Init /\ [][Next]_vars

\* Every task of the node is polled again and again by the tokio runtime, the
\* clock advances, and the miner's search ends.
Fairness ==
    /\ WF_vars(MineTemplate) /\ WF_vars(MineBlock)
    /\ WF_vars(BridgeSubscribe) /\ WF_vars(BridgeBlockProduced)
    /\ WF_vars(ConsensusBlockProduced \/ ConsensusBlockStored)
    /\ WF_vars(ComputeMerkleRoot) /\ WF_vars(ComputeStateRoot)
    /\ WF_vars(OrderTransactions)
    /\ WF_vars(StoreBlockValidated \/ StoreMerkleRoot \/ StoreStateRoot
               \/ TryCompleteAssembly)
    /\ WF_vars(FinalizeBlock)
    /\ WF_vars(GcStaleAssemblies) /\ WF_vars(GcAnnounce)
    /\ WF_vars(Tick)

FairSpec == Spec /\ Fairness

(* What the ordering handler has not read is read by no other task and by no *)
(* property.                                                                 *)
WithoutOrdering ==
    <<now, run, miner, bridge, [h \in CoreHandler |-> inbox[h]], validated, chain_height,
      storage, durable, published>>

-----------------------------------------------------------------------------
(* Properties *)

TypeOK ==
    /\ now \in Nat /\ run \in Nat
    /\ blocks_mined \in Nat /\ last_ts \in Nat /\ template \in Nat
    /\ subscribed \in BOOLEAN /\ bus \in Seq(Block)
    /\ inbox \in [Handler -> Seq(Event)]
    /\ validated \in SUBSET Block
    /\ chain_height \in Nat
    /\ DOMAIN pending \subseteq Block
    /\ \A h \in DOMAIN pending : pending[h] \in PendingBlockAssembly
    /\ completing \in Block
    /\ gc_expired \in SUBSET [hash : Block, missing : SUBSET Component]
    /\ durable \in SUBSET Nat
    /\ published \in SUBSET Event

OfType(type) == {e \in published : e.type = type}

Stored == {e.block_hash : e \in OfType("BlockStored")}

\* Whatever the channel loses, the garbage collector removes or a purge drops,
\* the storage handler announces BlockStored only for a block that Consensus
\* validated at that height and whose two roots were computed: an entry that is
\* re-created after a purge never completes with stale components
\* (try_complete_assembly).
StoredOnlyWhenAssembled ==
    \A e \in OfType("BlockStored") :
        /\ BlockEvent("BlockValidated", e.block_hash, e.block_height) \in published
        /\ RootEvent("MerkleRootComputed", e.block_hash) \in published
        /\ RootEvent("StateRootComputed", e.block_hash) \in published

\* The finality handler finalizes a block only after its BlockStored, under the
\* height it was stored with (handle_block_stored).
FinalizedOnlyIfStored ==
    \A e \in OfType("BlockFinalized") :
        BlockEvent("BlockStored", e.block_hash, e.block_height) \in published

\* A block passes from stage to stage of the choreography only with what the
\* stage before it announced.
OnlyAssembledGoesOn == StoredOnlyWhenAssembled /\ FinalizedOnlyIfStored

\* The event-sourced chain height of Consensus is the height the node started
\* with or that of a block stored since, and never runs ahead of the miner
\* (on_block_stored: "Chain height reflects stored blocks, not just validated").
ChainHeightIsStored ==
    /\ \/ chain_height = LatestHeight
       \/ \E e \in OfType("BlockStored") :
             e.block_height = chain_height /\ e.block_hash.run = run
    /\ chain_height <= blocks_mined

\* A block that was stored is never assembled a second time, although late
\* components re-create its entry and the duplicate cache is emptied when full
\* (update_validated_blocks_cache, take_complete).
NeverAssembledTwice ==
    \A b \in DOMAIN pending : b \in Stored => ~IsComplete(pending, b)

\* A block is stored once, and the chain height counts what was stored.
StoresAreCounted == NeverAssembledTwice /\ ChainHeightIsStored

\* Every event but a timeout announces that a block has reached a stage.
Announcements == {<<e.type, e.block_hash>> : e \in published \ OfType("AssemblyTimeout")}

Lifecycle == INSTANCE BlockLifecycle WITH announced <- Announcements

\* The pipeline implements BlockLifecycle: each event a task publishes is a step
\* of the stage it belongs to, on blocks the stages before it have announced, or
\* a repetition.  In particular blocks are stored in height order within a run,
\* even when some are lost on the way: the three component streams are FIFO, so
\* a later block cannot overtake an earlier one in the assembly buffer, and late
\* components never complete a stored block again (try_complete_assembly).
ImplementsLifecycle == Lifecycle!Spec

\* Again and again the buffer holds no overdue assembly: each one is completed,
\* purged or collected, whatever was lost (gc_stale_assemblies; INVARIANT-7 of
\* assembler.rs).
OverdueAssembliesLeave ==
    []<>(\A b \in DOMAIN pending : now <= pending[b].started_at + AssemblyTimeout)

\* When nothing is lost, rejected or timed out, the pipeline catches up again
\* and again: every block that reached the router is stored, and Consensus has
\* learned its height.
PipelineCatchesUp ==
    []<>(\A e \in OfType("BlockProduced") :
            e.block_hash \in Stored /\ chain_height >= e.block_height)

-----------------------------------------------------------------------------
(* What the documents say of the pipeline, and the pipeline does not do. *)

\* SPEC-02, INVARIANT-1: a block at height N is stored after one at height N - 1.
\* Consensus only warns about a gap, and a block lost before it, or refused for
\* its timestamp, leaves one (validate_height, bridge_block_produced_event).
StoredSequentially ==
    \A b \in Stored : b.height > 1 =>
        \E c \in Stored : c.run = b.run /\ c.height = b.height - 1

\* README: after a restart the chain resumes from the last block, so the miner
\* never works below a block that was announced as stored.
ResumesFromLastBlock == \A b \in Stored : b.height <= blocks_mined

\* SPEC-02, INVARIANT-8: the buffer never holds more than its limit.
BufferBounded == Cardinality(DOMAIN pending) <= MaxPending

\* SPEC-02: only incomplete assemblies are purged by the timeout.
OnlyIncompleteTimesOut ==
    \A e \in OfType("AssemblyTimeout") : e.missing_components # {}

\* FinalityHandler: "Finalize every 4 blocks (epoch boundary)".
FinalizesAtEpochBoundary ==
    \A e \in OfType("BlockFinalized") : e.block_height % EpochSize = 0

\* TransactionOrderingHandler: "Publishes: TransactionsOrdered".
ValidatedGetsOrdered ==
    (OfType("BlockValidated") # {}) ~> (OfType("TransactionsOrdered") # {})
=============================================================================
