-------------------------- MODULE ChoreographyProofs ------------------------
(***************************************************************************)
(* Safety of the block pipeline for every number of blocks, restarts and   *)
(* channel capacities: type correctness, and that a block is announced as  *)
(* stored only when it was fully assembled, and finalized only when stored.*)
(***************************************************************************)
EXTENDS Choreography, SequenceTheorems, TLAPS

\* A sequence over a set is a sequence over every larger set.
LEMMA SeqMono ==
    ASSUME NEW S, NEW T, S \subseteq T
    PROVE  Seq(S) \subseteq Seq(T)
  BY SeqDef

\* Skipping what a handler ignores keeps a queue of the same events.
LEMMA SkipSeq ==
    ASSUME NEW S, NEW h, NEW q \in Seq(S)
    PROVE  Skip(h, q) \in Seq(S)
<1>1. CASE FirstHandled(h, q) = {}
  BY <1>1 DEF Skip
<1>2. CASE FirstHandled(h, q) # {}
  <2> DEFINE i == CHOOSE i \in FirstHandled(h, q) : TRUE
  <2>1. i \in FirstHandled(h, q)
    BY <1>2
  <2>2. i \in 1..Len(q)
    BY <2>1 DEF FirstHandled
  <2>3. SubSeq(q, i, Len(q)) \in Seq(S)
    <3> HIDE DEF i
    <3> QED BY <2>2, SubSeqProperties, LenProperties
  <2> QED BY <1>2, <2>3 DEF Skip
<1> QED BY <1>1, <1>2

\* Sending to a receiver keeps its queue within the events sent.
LEMMA PushSeq ==
    ASSUME NEW S, NEW q \in Seq(S), NEW e \in S, NEW capacity \in Nat \ {0}
    PROVE  Push(q, e, capacity) \in Seq(S)
<1>1. CASE Len(q) >= capacity
  <2>1. q # <<>>
    BY <1>1
  <2>2. Tail(q) \in Seq(S)
    BY <2>1
  <2> QED BY <1>1, <2>2 DEF Push
<1>2. CASE ~(Len(q) >= capacity)
  BY <1>2 DEF Push
<1> QED BY <1>1, <1>2

\* Taking an event keeps the queues within the same set of events.
LEMMA TakenSeq ==
    ASSUME NEW S, inbox \in [Handler -> Seq(S)], NEW h \in Handler,
           inbox[h] # <<>>
    PROVE  /\ Taken(h) \in [Handler -> Seq(S)]
           /\ Head(inbox[h]) \in S
<1>1. Tail(inbox[h]) \in Seq(S) /\ Head(inbox[h]) \in S
  OBVIOUS
<1>2. Skip(h, Tail(inbox[h])) \in Seq(S)
  BY <1>1, SkipSeq
<1> QED BY <1>1, <1>2 DEF Taken

\* After a publish every queue holds published events only.
LEMMA PublishSeq ==
    ASSUME NEW queues \in [Handler -> Seq(published)], NEW e, Publish(queues, e)
    PROVE  /\ published' = published \cup {e}
           /\ inbox' \in [Handler -> Seq(published')]
<1>1. published' = published \cup {e}
  BY DEF Publish
<1>2. ASSUME NEW h \in Handler
      PROVE  Skip(h, Push(queues[h], e, Capacity)) \in Seq(published')
  <2>1. queues[h] \in Seq(published')
    BY <1>1, SeqMono
  <2>2. Push(queues[h], e, Capacity) \in Seq(published')
    BY <1>1, <2>1, PushSeq, ChoreographyAssumption
  <2> QED BY <2>2, SkipSeq
<1> QED BY <1>1, <1>2 DEF Publish

-----------------------------------------------------------------------------
\* The queues hold events that were published.
InboxPublished == inbox \in [Handler -> Seq(published)]

\* What the fields of an event can be, by its type.
EventShape ==
    \A e \in published :
        /\ e.type # "AssemblyTimeout" => e.missing_components = {}
        /\ e.type \in {"MerkleRootComputed", "StateRootComputed"} => e.block_height = 0

\* A component of an assembly arrived in an event that was published.
PendingBacked ==
    \A b \in DOMAIN pending :
        /\ "BlockValidated" \in pending[b].have
              => BlockEvent("BlockValidated", b, pending[b].block_height) \in published
        /\ \A type \in {"MerkleRootComputed", "StateRootComputed"} :
              type \in pending[b].have => RootEvent(type, b) \in published

\* The pipeline itself never writes to the storage: genesis stays alone there.
Typing == TypeOK /\ InboxPublished /\ durable = {0}

IInv == /\ Typing
        /\ EventShape
        /\ PendingBacked
        /\ StoredOnlyWhenAssembled
        /\ FinalizedOnlyIfStored

\* The storage heights are not changed by the pipeline, genesis is there.
LEMMA LatestHeightNat ==
    ASSUME durable = {0}
    PROVE  LatestHeight = 0
  BY DEF LatestHeight

LEMMA BlockEventType ==
    ASSUME NEW type \in EventType, NEW b \in Block, NEW height \in Nat
    PROVE  BlockEvent(type, b, height) \in Event
  BY DEF BlockEvent, Event

LEMMA RootEventType ==
    ASSUME NEW type \in EventType, NEW b \in Block
    PROVE  RootEvent(type, b) \in Event
  BY BlockEventType DEF RootEvent

\* Publishing an event keeps the queues and the history well typed.
LEMMA PublishTyping ==
    ASSUME TypeOK, NEW queues \in [Handler -> Seq(published)], NEW e \in Event,
           Publish(queues, e)
    PROVE  /\ published' \in SUBSET Event
           /\ inbox' \in [Handler -> Seq(Event)]
           /\ InboxPublished'
<1>1. published' = published \cup {e} /\ inbox' \in [Handler -> Seq(published')]
  BY PublishSeq
<1>2. published' \in SUBSET Event
  BY <1>1 DEF TypeOK
<1>3. Seq(published') \subseteq Seq(Event)
  BY <1>2, SeqMono
<1> QED BY <1>1, <1>2, <1>3 DEF InboxPublished

\* An action that takes an event of a queue and publishes nothing.
LEMMA TakeTyping ==
    ASSUME Typing, NEW h \in Handler, inbox[h] # <<>>,
           inbox' = Taken(h), published' = published
    PROVE  /\ inbox' \in [Handler -> Seq(Event)]
           /\ InboxPublished'
<1>1. inbox' \in [Handler -> Seq(published)]
  BY TakenSeq DEF Typing, InboxPublished
<1>2. Seq(published) \subseteq Seq(Event)
  BY SeqMono DEF Typing, TypeOK
<1> QED BY <1>1, <1>2 DEF InboxPublished

\* The event at the head of a queue was published.
LEMMA HeadPublished ==
    ASSUME Typing, NEW h \in Handler, inbox[h] # <<>>
    PROVE  /\ Head(inbox[h]) \in published
           /\ Head(inbox[h]) \in Event
           /\ Taken(h) \in [Handler -> Seq(published)]
  BY TakenSeq DEF Typing, TypeOK, InboxPublished

LEMMA HandlerNames == CoreHandler \subseteq Handler
  BY ChoreographyAssumption

\* Adding to the assembly buffer and removing from it keep its type.
LEMMA BufferTyping ==
    ASSUME TypeOK
    PROVE  /\ \A b \in Block, height \in Nat, gone \in SUBSET DOMAIN pending :
                 LET new == AddBlockValidated(Without(pending, gone), b, height, now)
                 IN  /\ DOMAIN new \subseteq Block
                     /\ \A h \in DOMAIN new : new[h] \in PendingBlockAssembly
           /\ \A b \in Block, type \in Component :
                 LET new == AddRoot(pending, b, type, now)
                 IN  /\ DOMAIN new \subseteq Block
                     /\ \A h \in DOMAIN new : new[h] \in PendingBlockAssembly
           /\ \A gone :
                 LET new == Without(pending, gone)
                 IN  /\ DOMAIN new \subseteq Block
                     /\ \A h \in DOMAIN new : new[h] \in PendingBlockAssembly
<1> USE DEF TypeOK, PendingBlockAssembly, Component
<1>1. ASSUME NEW b \in Block, NEW height \in Nat, NEW gone \in SUBSET DOMAIN pending
      PROVE  LET new == AddBlockValidated(Without(pending, gone), b, height, now)
             IN  /\ DOMAIN new \subseteq Block
                 /\ \A h \in DOMAIN new : new[h] \in PendingBlockAssembly
  BY <1>1 DEF AddBlockValidated, Without, Restrict, Store, Entry, NewAssembly
<1>2. ASSUME NEW b \in Block, NEW type \in Component
      PROVE  LET new == AddRoot(pending, b, type, now)
             IN  /\ DOMAIN new \subseteq Block
                 /\ \A h \in DOMAIN new : new[h] \in PendingBlockAssembly
  BY <1>2 DEF AddRoot, Store, Entry, NewAssembly
<1>3. ASSUME NEW gone
      PROVE  LET new == Without(pending, gone)
             IN  /\ DOMAIN new \subseteq Block
                 /\ \A h \in DOMAIN new : new[h] \in PendingBlockAssembly
  BY <1>3 DEF Without, Restrict
<1> QED BY <1>1, <1>2, <1>3

LEMMA TypingInit == Init => Typing
<1> SUFFICES ASSUME Init PROVE Typing
  OBVIOUS
<1>1. LatestHeight = 0
  BY LatestHeightNat DEF Init
<1>2. inbox \in [Handler -> Seq(Event)] /\ InboxPublished
  BY DEF Init, InboxPublished
<1>3. NoHash \in Block
  BY DEF NoHash, Block
<1>4. DOMAIN pending = {}
  BY DEF Init, NoAssemblies
<1>5. subscribed \in BOOLEAN
  BY DEF Init
<1>6. bus \in Seq(Block) /\ published \in SUBSET Event /\ validated \in SUBSET Block
      /\ gc_expired \in SUBSET [hash : Block, missing : SUBSET Component]
  BY DEF Init
<1> QED BY <1>1, <1>2, <1>3, <1>4, <1>5, <1>6 DEF Init, Typing, TypeOK

\* Every step of the node keeps the types, and the queues within the history.
LEMMA TypingStep == Typing /\ [Next]_vars => Typing'
<1> SUFFICES ASSUME Typing, [Next]_vars PROVE Typing'
  OBVIOUS
<1> USE HandlerNames DEF CoreHandler
<1>0. NoHash \in Block /\ LatestHeight = 0
  BY LatestHeightNat DEF NoHash, Block, Typing
<1>1. CASE MineTemplate
  BY <1>1 DEF MineTemplate, Typing, TypeOK, InboxPublished, bridge, storage
<1>2. CASE MineBlock
  <2>1. [run |-> run, height |-> blocks_mined + 1, timestamp |-> template] \in Block
    BY DEF Block, Typing, TypeOK
  <2>2. bus' \in Seq(Block)
    BY <1>2, <2>1, PushSeq, ChoreographyAssumption DEF MineBlock, Typing, TypeOK
  <2> QED BY <1>2, <2>2 DEF MineBlock, Typing, TypeOK, InboxPublished, storage
<1>3. CASE BridgeSubscribe
  BY <1>3 DEF BridgeSubscribe, Typing, TypeOK, InboxPublished, storage, miner
<1>4. CASE BridgeBlockProduced
  <2>0. Head(bus) \in Block /\ Tail(bus) \in Seq(Block)
    BY <1>4 DEF BridgeBlockProduced, Typing, TypeOK
  <2>1. Head(bus) \in Block /\ Tail(bus) \in Seq(Block) /\ Head(bus).height \in Nat
    BY <2>0 DEF Block
  <2>2. BlockEvent("BlockProduced", Head(bus), Head(bus).height) \in Event
    BY <2>1, BlockEventType DEF EventType
  <2>3. published' \in SUBSET Event /\ inbox' \in [Handler -> Seq(Event)] /\ InboxPublished'
    BY <1>4, <2>2, PublishTyping DEF BridgeBlockProduced, Typing, InboxPublished
  <2> QED BY <1>4, <2>1, <2>3 DEF BridgeBlockProduced, Typing, TypeOK, miner, storage
<1>5. CASE ConsensusBlockProduced
  <2> DEFINE hash == Head(inbox["Consensus"]).block_hash
  <2>1. inbox["Consensus"] # <<>>
    BY <1>5 DEF ConsensusBlockProduced, Received
  <2>2. hash \in Block /\ hash.height \in Nat
    BY <2>1, HeadPublished DEF Event, Block
  <2>3. BlockEvent("BlockValidated", hash, hash.height) \in Event
    BY <2>2, BlockEventType DEF EventType, Component
  <2>4. CASE ValidBlock(hash)
    <3>1. /\ validated' = CacheInsert(validated, hash)
          /\ Publish(Taken("Consensus"), BlockEvent("BlockValidated", hash, hash.height))
      BY <1>5, <2>4 DEF ConsensusBlockProduced
    <3>2. validated' \in SUBSET Block
      BY <2>2, <3>1 DEF CacheInsert, Typing, TypeOK
    <3>3. published' \in SUBSET Event /\ inbox' \in [Handler -> Seq(Event)] /\ InboxPublished'
      BY <2>1, <2>3, <3>1, HeadPublished, PublishTyping DEF Typing
    <3> QED BY <1>5, <3>2, <3>3
            DEF ConsensusBlockProduced, Typing, TypeOK, miner, bridge, storage
  <2>5. CASE ~ValidBlock(hash)
    <3>1. inbox' = Taken("Consensus") /\ validated' = validated /\ published' = published
      BY <1>5, <2>5 DEF ConsensusBlockProduced
    <3>2. inbox' \in [Handler -> Seq(Event)] /\ InboxPublished'
      BY <2>1, <3>1, TakeTyping
    <3> QED BY <1>5, <3>1, <3>2
            DEF ConsensusBlockProduced, Typing, TypeOK, miner, bridge, storage
  <2> QED BY <2>4, <2>5
<1>6. CASE ConsensusBlockStored
  <2>1. inbox["Consensus"] # <<>>
    BY <1>6 DEF ConsensusBlockStored, Received
  <2>2. Head(inbox["Consensus"]).block_height \in Nat
    BY <2>1, HeadPublished DEF Event
  <2>3. inbox' \in [Handler -> Seq(Event)] /\ InboxPublished'
    BY <1>6, <2>1, TakeTyping DEF ConsensusBlockStored
  <2> QED BY <1>6, <2>2, <2>3
          DEF ConsensusBlockStored, Typing, TypeOK, miner, bridge, storage
<1>7. ASSUME NEW h \in Handler, NEW type \in Component, ComputeRoot(h, type)
      PROVE  Typing'
  <2>1. inbox[h] # <<>>
    BY <1>7 DEF ComputeRoot, Received
  <2>2. RootEvent(type, Head(inbox[h]).block_hash) \in Event
    BY <1>7, <2>1, HeadPublished, RootEventType DEF Event, EventType
  <2>3. published' \in SUBSET Event /\ inbox' \in [Handler -> Seq(Event)] /\ InboxPublished'
    BY <1>7, <2>1, <2>2, HeadPublished, PublishTyping DEF ComputeRoot, Typing
  <2> QED BY <1>7, <2>3 DEF ComputeRoot, Typing, TypeOK, miner, bridge, storage
<1>8. CASE OrderTransactions
  <2>1. inbox' \in [Handler -> Seq(Event)] /\ InboxPublished'
    BY <1>8, TakeTyping DEF OrderTransactions, Received
  <2> QED BY <1>8, <2>1 DEF OrderTransactions, Typing, TypeOK, miner, bridge, storage
<1>9. CASE StoreBlockValidated
  <2> DEFINE event == Head(inbox["BlockStorage"])
  <2>1. inbox["BlockStorage"] # <<>>
    BY <1>9 DEF StoreBlockValidated, Received
  <2>2. event.block_hash \in Block /\ event.block_height \in Nat
    BY <2>1, HeadPublished DEF Event
  <2>3. inbox' \in [Handler -> Seq(Event)] /\ InboxPublished'
    BY <1>9, <2>1, TakeTyping DEF StoreBlockValidated
  <2>4. PICK purged \in OldestSets(pending) :
            pending' = AddBlockValidated(Without(pending, purged), event.block_hash,
                                         event.block_height, now)
    BY <1>9 DEF StoreBlockValidated
  <2>5. purged \in SUBSET DOMAIN pending
    BY DEF OldestSets
  <2>6. /\ DOMAIN pending' \subseteq Block
        /\ \A h \in DOMAIN pending' : pending'[h] \in PendingBlockAssembly
    BY <2>2, <2>4, <2>5, BufferTyping DEF Typing
  <2> QED BY <1>9, <2>2, <2>3, <2>6
          DEF StoreBlockValidated, Typing, TypeOK, miner, bridge
<1>10. ASSUME NEW type \in Component, StoreRoot(type)
       PROVE  Typing'
  <2> DEFINE hash == Head(inbox["BlockStorage"]).block_hash
  <2>1. inbox["BlockStorage"] # <<>>
    BY <1>10 DEF StoreRoot, Received
  <2>2. hash \in Block
    BY <2>1, HeadPublished DEF Event
  <2>3. inbox' \in [Handler -> Seq(Event)] /\ InboxPublished'
    BY <1>10, <2>1, TakeTyping DEF StoreRoot
  <2>4. pending' = AddRoot(pending, hash, type, now)
    BY <1>10 DEF StoreRoot
  <2>5. /\ DOMAIN pending' \subseteq Block
        /\ \A h \in DOMAIN pending' : pending'[h] \in PendingBlockAssembly
    BY <2>2, <2>4, BufferTyping DEF Typing
  <2> QED BY <1>10, <2>2, <2>3, <2>5 DEF StoreRoot, Typing, TypeOK, miner, bridge
<1>11. CASE TryCompleteAssembly
  <2>1. CASE IsComplete(pending, completing)
    <3> DEFINE stored == BlockEvent("BlockStored", completing, pending[completing].block_height)
    <3>1. stored \in Event
      BY <2>1, BlockEventType
         DEF IsComplete, EventType, Typing, TypeOK, PendingBlockAssembly
    <3>2. pending' = Without(pending, {completing}) /\ Publish(inbox, stored)
      BY <1>11, <2>1 DEF TryCompleteAssembly
    <3>3. published' \in SUBSET Event /\ inbox' \in [Handler -> Seq(Event)] /\ InboxPublished'
      BY <3>1, <3>2, PublishTyping DEF Typing, InboxPublished
    <3>4. /\ DOMAIN pending' \subseteq Block
          /\ \A h \in DOMAIN pending' : pending'[h] \in PendingBlockAssembly
      BY <3>2, BufferTyping DEF Typing
    <3> QED BY <1>0, <1>11, <3>3, <3>4
            DEF TryCompleteAssembly, Typing, TypeOK, miner, bridge
  <2>2. CASE ~IsComplete(pending, completing)
    BY <1>0, <1>11, <2>2
       DEF TryCompleteAssembly, Typing, TypeOK, InboxPublished, miner, bridge
  <2> QED BY <2>1, <2>2
<1>12. CASE GcStaleAssemblies
  <2>1. /\ DOMAIN pending' \subseteq Block
        /\ \A h \in DOMAIN pending' : pending'[h] \in PendingBlockAssembly
    BY <1>12, BufferTyping DEF GcStaleAssemblies, Typing
  <2>2. gc_expired' \in SUBSET [hash : Block, missing : SUBSET Component]
    BY <1>12 DEF GcStaleAssemblies, Expired, Missing, Typing, TypeOK
  <2> QED BY <1>12, <2>1, <2>2
          DEF GcStaleAssemblies, Typing, TypeOK, InboxPublished, miner, bridge
<1>13. CASE GcAnnounce
  <2>1. PICK gone \in gc_expired :
            /\ gc_expired' = gc_expired \ {gone}
            /\ Publish(inbox, TimeoutEvent(gone.hash, gone.missing))
            /\ UNCHANGED <<now, run, miner, bridge, validated, chain_height, pending,
                           completing, durable>>
    BY <1>13 DEF GcAnnounce
  <2>2. TimeoutEvent(gone.hash, gone.missing) \in Event
    BY DEF TimeoutEvent, BlockEvent, Event, EventType, Typing, TypeOK
  <2>3. published' \in SUBSET Event /\ inbox' \in [Handler -> Seq(Event)] /\ InboxPublished'
    BY <2>1, <2>2, PublishTyping DEF Typing, InboxPublished
  <2> QED BY <2>1, <2>3 DEF Typing, TypeOK, miner, bridge
<1>14. CASE FinalizeBlock
  <2> DEFINE event == Head(inbox["Finality"])
             final == BlockEvent("BlockFinalized", event.block_hash, event.block_height)
  <2>1. inbox["Finality"] # <<>>
    BY <1>14 DEF FinalizeBlock, Received
  <2>2. final \in Event
    BY <2>1, HeadPublished, BlockEventType DEF Event, EventType
  <2>3. CASE FinalizesAt(event.block_height)
    <3>1. Publish(Taken("Finality"), final)
      BY <1>14, <2>3 DEF FinalizeBlock
    <3>2. published' \in SUBSET Event /\ inbox' \in [Handler -> Seq(Event)] /\ InboxPublished'
      BY <2>1, <2>2, <3>1, HeadPublished, PublishTyping DEF Typing
    <3> QED BY <1>14, <3>2 DEF FinalizeBlock, Typing, TypeOK, miner, bridge, storage
  <2>4. CASE ~FinalizesAt(event.block_height)
    <3>1. inbox' = Taken("Finality") /\ published' = published
      BY <1>14, <2>4 DEF FinalizeBlock
    <3>2. inbox' \in [Handler -> Seq(Event)] /\ InboxPublished'
      BY <2>1, <3>1, TakeTyping
    <3> QED BY <1>14, <3>1, <3>2
            DEF FinalizeBlock, Typing, TypeOK, miner, bridge, storage
  <2> QED BY <2>3, <2>4
<1>15. CASE Tick
  BY <1>15 DEF Tick, Typing, TypeOK, InboxPublished, miner, bridge, storage
<1>16. CASE Restart
  <2>1. inbox' \in [Handler -> Seq(Event)] /\ InboxPublished'
    BY <1>16 DEF Restart, InboxPublished
  <2>2. DOMAIN pending' = {}
    BY <1>16 DEF Restart, NoAssemblies
  <2>3. subscribed' \in BOOLEAN
    BY <1>16 DEF Restart
  <2>4. bus' \in Seq(Block) /\ validated' \in SUBSET Block
        /\ gc_expired' \in SUBSET [hash : Block, missing : SUBSET Component]
    BY <1>16 DEF Restart
  <2> QED BY <1>0, <1>16, <2>1, <2>2, <2>3, <2>4 DEF Restart, Typing, TypeOK
<1>17. CASE UNCHANGED vars
  BY <1>17 DEF vars, Typing, TypeOK, InboxPublished, miner, bridge, storage
<1>18. CASE Handle
  <2>1. CASE ComputeMerkleRoot
    BY <2>1, <1>7 DEF ComputeMerkleRoot, Component
  <2>2. CASE ComputeStateRoot
    BY <2>2, <1>7 DEF ComputeStateRoot, Component
  <2>3. CASE StoreMerkleRoot
    BY <2>3, <1>10 DEF StoreMerkleRoot, Component
  <2>4. CASE StoreStateRoot
    BY <2>4, <1>10 DEF StoreStateRoot, Component
  <2> QED BY <1>5, <1>6, <1>8, <1>9, <1>11, <1>14, <1>18, <2>1, <2>2, <2>3, <2>4 DEF Handle
<1> QED BY <1>1, <1>2, <1>3, <1>4, <1>12, <1>13, <1>15, <1>16, <1>17, <1>18 DEF Next

-----------------------------------------------------------------------------
\* Publishing anything but BlockStored and BlockFinalized keeps the safety
\* properties, which are about those two and grow weaker with the history.
LEMMA PublishKeeps ==
    ASSUME IInv, NEW e, published' = published \cup {e},
           e.type \notin {"BlockStored", "BlockFinalized"},
           e.type # "AssemblyTimeout" => e.missing_components = {},
           e.type \in {"MerkleRootComputed", "StateRootComputed"} => e.block_height = 0
    PROVE  EventShape' /\ StoredOnlyWhenAssembled' /\ FinalizedOnlyIfStored'
<1>1. EventShape'
  BY DEF IInv, EventShape
<1>2. StoredOnlyWhenAssembled'
  BY DEF IInv, StoredOnlyWhenAssembled, OfType
<1>3. FinalizedOnlyIfStored'
  BY DEF IInv, FinalizedOnlyIfStored, OfType
<1> QED BY <1>1, <1>2, <1>3

\* An assembly stays backed when entries leave the buffer and events are added.
LEMMA BackedKeeps ==
    ASSUME PendingBacked, published \subseteq published', NEW gone,
           pending' = pending \/ pending' = Without(pending, gone)
    PROVE  PendingBacked'
<1>1. \A b \in DOMAIN pending' : b \in DOMAIN pending /\ pending'[b] = pending[b]
  BY DEF Without, Restrict
<1> QED BY <1>1 DEF PendingBacked

LEMMA SilentKeeps ==
    ASSUME IInv, published' = published
    PROVE  EventShape' /\ StoredOnlyWhenAssembled' /\ FinalizedOnlyIfStored'
  BY DEF IInv, EventShape, StoredOnlyWhenAssembled, FinalizedOnlyIfStored, OfType

\* An event of a type that has one form is determined by its fields.
LEMMA EventForm ==
    ASSUME Typing, EventShape, NEW e \in published
    PROVE  /\ e.type # "AssemblyTimeout"
                 => e = BlockEvent(e.type, e.block_hash, e.block_height)
           /\ e.type \in {"MerkleRootComputed", "StateRootComputed"}
                 => e = RootEvent(e.type, e.block_hash)
<1>1. e \in Event
  BY DEF Typing, TypeOK
<1>2. e.type # "AssemblyTimeout" => e = BlockEvent(e.type, e.block_hash, e.block_height)
  BY <1>1 DEF EventShape, Event, BlockEvent
<1>3. e.type \in {"MerkleRootComputed", "StateRootComputed"} => e.block_height = 0
  BY DEF EventShape
<1> QED BY <1>2, <1>3 DEF RootEvent

LEMMA IInvInit == Init => IInv
<1> SUFFICES ASSUME Init PROVE IInv
  OBVIOUS
<1>1. DOMAIN pending = {}
  BY DEF Init, NoAssemblies
<1>2. published = {}
  BY DEF Init
<1> QED BY <1>1, <1>2, TypingInit
        DEF IInv, EventShape, PendingBacked, StoredOnlyWhenAssembled,
            FinalizedOnlyIfStored, OfType

LEMMA IInvStep == IInv /\ [Next]_vars => IInv'
<1> SUFFICES ASSUME IInv, [Next]_vars PROVE IInv'
  OBVIOUS
<1>0. Typing' /\ Typing
  BY TypingStep DEF IInv
<1> USE HandlerNames DEF CoreHandler
\* Steps that leave the history and the buffer alone.
<1>1. ASSUME published' = published, pending' = pending
      PROVE  IInv'
  BY <1>0, <1>1, SilentKeeps, BackedKeeps DEF IInv
\* Steps that publish an event of another kind and leave the buffer alone.
<1>2. ASSUME NEW e, NEW queues, Publish(queues, e), pending' = pending,
             e.type \notin {"BlockStored", "BlockFinalized"},
             e.type # "AssemblyTimeout" => e.missing_components = {},
             e.type \in {"MerkleRootComputed", "StateRootComputed"} => e.block_height = 0
      PROVE  IInv'
  <2>1. published' = published \cup {e}
    BY <1>2 DEF Publish
  <2> QED BY <1>0, <1>2, <2>1, PublishKeeps, BackedKeeps DEF IInv
<1>3. CASE BridgeBlockProduced
  BY <1>2, <1>3 DEF BridgeBlockProduced, BlockEvent, storage
<1>4. CASE ConsensusBlockProduced
  <2> DEFINE hash == Head(inbox["Consensus"]).block_hash
  <2>1. CASE ValidBlock(hash)
    <3>1. Publish(Taken("Consensus"), BlockEvent("BlockValidated", hash, hash.height))
          /\ pending' = pending
      BY <1>4, <2>1 DEF ConsensusBlockProduced, storage
    <3> QED BY <1>2, <3>1 DEF BlockEvent
  <2>2. CASE ~ValidBlock(hash)
    BY <1>1, <1>4, <2>2 DEF ConsensusBlockProduced, storage
  <2> QED BY <2>1, <2>2
<1>5. ASSUME NEW h \in Handler, NEW type \in Component, ComputeRoot(h, type)
      PROVE  IInv'
  BY <1>2, <1>5 DEF ComputeRoot, RootEvent, BlockEvent, Component, storage
<1>6. CASE StoreBlockValidated
  <2> DEFINE event == Head(inbox["BlockStorage"])
  <2>1. inbox["BlockStorage"] # <<>> /\ event.type = "BlockValidated"
        /\ published' = published
    BY <1>6 DEF StoreBlockValidated, Received
  <2>2. BlockEvent("BlockValidated", event.block_hash, event.block_height) \in published
    <3>1. event \in published
      BY <1>0, <2>1, HeadPublished
    <3>2. event = BlockEvent(event.type, event.block_hash, event.block_height)
      BY <1>0, <2>1, <3>1, EventForm DEF IInv
    <3> QED BY <2>1, <3>1, <3>2
  <2>3. PICK purged \in OldestSets(pending) :
            pending' = AddBlockValidated(Without(pending, purged), event.block_hash,
                                         event.block_height, now)
    BY <1>6 DEF StoreBlockValidated
  <2>4. PendingBacked'
    <3> SUFFICES ASSUME NEW b \in DOMAIN pending'
                 PROVE  /\ "BlockValidated" \in pending'[b].have
                           => BlockEvent("BlockValidated", b, pending'[b].block_height)
                                 \in published
                        /\ \A type \in {"MerkleRootComputed", "StateRootComputed"} :
                              type \in pending'[b].have => RootEvent(type, b) \in published
      BY <2>1 DEF PendingBacked
    <3>1. CASE b = event.block_hash
      <4>1. pending'[b].block_height = event.block_height
            /\ \A type \in {"MerkleRootComputed", "StateRootComputed"} :
                  type \in pending'[b].have =>
                     b \in DOMAIN pending /\ type \in pending[b].have
        BY <1>0, <2>3, <3>1
           DEF AddBlockValidated, Store, Entry, NewAssembly, Without, Restrict,
               Typing, TypeOK, PendingBlockAssembly
      <4> QED BY <2>2, <3>1, <4>1 DEF IInv, PendingBacked
    <3>2. CASE b # event.block_hash
      <4>1. b \in DOMAIN pending /\ pending'[b] = pending[b]
        BY <2>3, <3>2 DEF AddBlockValidated, Store, Without, Restrict
      <4> QED BY <4>1 DEF IInv, PendingBacked
    <3> QED BY <3>1, <3>2
  <2> QED BY <1>0, <2>1, <2>4, SilentKeeps DEF IInv
<1>7. ASSUME NEW type \in {"MerkleRootComputed", "StateRootComputed"}, StoreRoot(type)
      PROVE  IInv'
  <2> DEFINE hash == Head(inbox["BlockStorage"]).block_hash
  <2>1. inbox["BlockStorage"] # <<>> /\ Head(inbox["BlockStorage"]).type = type
        /\ published' = published /\ pending' = AddRoot(pending, hash, type, now)
    BY <1>7 DEF StoreRoot, Received
  <2>2. RootEvent(type, hash) \in published
    BY <1>0, <2>1, HeadPublished, EventForm DEF IInv
  <2>3. PendingBacked'
    <3> SUFFICES ASSUME NEW b \in DOMAIN pending'
                 PROVE  /\ "BlockValidated" \in pending'[b].have
                           => BlockEvent("BlockValidated", b, pending'[b].block_height)
                                 \in published
                        /\ \A t \in {"MerkleRootComputed", "StateRootComputed"} :
                              t \in pending'[b].have => RootEvent(t, b) \in published
      BY <2>1 DEF PendingBacked
    <3>1. CASE b = hash
      <4>1. /\ "BlockValidated" \in pending'[b].have =>
                  /\ b \in DOMAIN pending /\ "BlockValidated" \in pending[b].have
                  /\ pending'[b].block_height = pending[b].block_height
            /\ \A t \in {"MerkleRootComputed", "StateRootComputed"} :
                  t \in pending'[b].have =>
                     t = type \/ (b \in DOMAIN pending /\ t \in pending[b].have)
        BY <1>0, <2>1, <3>1
           DEF AddRoot, Store, Entry, NewAssembly, Typing, TypeOK, PendingBlockAssembly
      <4> QED BY <2>2, <3>1, <4>1 DEF IInv, PendingBacked
    <3>2. CASE b # hash
      <4>1. b \in DOMAIN pending /\ pending'[b] = pending[b]
        BY <2>1, <3>2 DEF AddRoot, Store
      <4> QED BY <4>1 DEF IInv, PendingBacked
    <3> QED BY <3>1, <3>2
  <2> QED BY <1>0, <2>1, <2>3, SilentKeeps DEF IInv
<1>8. CASE TryCompleteAssembly
  <2>1. CASE IsComplete(pending, completing)
    <3> DEFINE stored == BlockEvent("BlockStored", completing, pending[completing].block_height)
    <3>1. pending' = Without(pending, {completing}) /\ published' = published \cup {stored}
      BY <1>8, <2>1 DEF TryCompleteAssembly, Publish
    <3>2. completing \in DOMAIN pending /\ Component \subseteq pending[completing].have
      BY <2>1 DEF IsComplete, Missing
    <3>3. /\ BlockEvent("BlockValidated", completing, pending[completing].block_height)
                \in published
          /\ RootEvent("MerkleRootComputed", completing) \in published
          /\ RootEvent("StateRootComputed", completing) \in published
      BY <3>2 DEF IInv, PendingBacked, Component
    <3>4. StoredOnlyWhenAssembled'
      <4>1. /\ stored.block_hash = completing
            /\ stored.block_height = pending[completing].block_height
        BY DEF BlockEvent
      <4> HIDE DEF stored
      <4> QED BY <3>1, <3>3, <4>1 DEF IInv, StoredOnlyWhenAssembled, OfType
    <3>5. EventShape' /\ FinalizedOnlyIfStored'
      BY <3>1 DEF IInv, EventShape, FinalizedOnlyIfStored, OfType, BlockEvent
    <3>6. PendingBacked'
      BY <3>1, BackedKeeps DEF IInv
    <3> QED BY <1>0, <3>4, <3>5, <3>6 DEF IInv
  <2>2. CASE ~IsComplete(pending, completing)
    BY <1>1, <1>8, <2>2 DEF TryCompleteAssembly
  <2> QED BY <2>1, <2>2
<1>9. CASE GcStaleAssemblies
  <2>1. published' = published /\ pending' = Without(pending, Expired(pending, now))
    BY <1>9 DEF GcStaleAssemblies
  <2> QED BY <1>0, <2>1, SilentKeeps, BackedKeeps DEF IInv
<1>10. CASE GcAnnounce
  BY <1>2, <1>10 DEF GcAnnounce, TimeoutEvent, BlockEvent
<1>11. CASE FinalizeBlock
  <2> DEFINE event == Head(inbox["Finality"])
             final == BlockEvent("BlockFinalized", event.block_hash, event.block_height)
  <2>1. inbox["Finality"] # <<>> /\ event.type = "BlockStored" /\ pending' = pending
    BY <1>11 DEF FinalizeBlock, Received, storage
  <2>2. CASE FinalizesAt(event.block_height)
    <3>1. published' = published \cup {final}
      BY <1>11, <2>2 DEF FinalizeBlock, Publish
    <3>2. BlockEvent("BlockStored", event.block_hash, event.block_height) \in published
      <4>1. event \in published
        BY <1>0, <2>1, HeadPublished
      <4>2. event = BlockEvent(event.type, event.block_hash, event.block_height)
        BY <1>0, <2>1, <4>1, EventForm DEF IInv
      <4> QED BY <2>1, <4>1, <4>2
    <3>3. FinalizedOnlyIfStored'
      <4>1. final.block_hash = event.block_hash /\ final.block_height = event.block_height
        BY DEF BlockEvent
      <4> HIDE DEF final, event
      <4> QED BY <3>1, <3>2, <4>1 DEF IInv, FinalizedOnlyIfStored, OfType
    <3>4. EventShape' /\ StoredOnlyWhenAssembled'
      BY <3>1 DEF IInv, EventShape, StoredOnlyWhenAssembled, OfType, BlockEvent
    <3> QED BY <1>0, <2>1, <3>1, <3>3, <3>4, BackedKeeps DEF IInv
  <2>3. CASE ~FinalizesAt(event.block_height)
    BY <1>1, <1>11, <2>1, <2>3 DEF FinalizeBlock
  <2> QED BY <2>2, <2>3
<1>12. CASE Restart
  <2>1. DOMAIN pending' = {} /\ published' = published
    BY <1>12 DEF Restart, NoAssemblies
  <2> QED BY <1>0, <2>1, SilentKeeps DEF IInv, PendingBacked
<1>13. CASE Handle
  <2>1. CASE ConsensusBlockStored \/ OrderTransactions
    BY <1>1, <2>1 DEF ConsensusBlockStored, OrderTransactions, storage
  <2>2. CASE ComputeMerkleRoot \/ ComputeStateRoot
    BY <1>5, <2>2 DEF ComputeMerkleRoot, ComputeStateRoot, Component
  <2>3. CASE StoreMerkleRoot \/ StoreStateRoot
    BY <1>7, <2>3 DEF StoreMerkleRoot, StoreStateRoot
  <2> QED BY <1>4, <1>6, <1>8, <1>11, <1>13, <2>1, <2>2, <2>3 DEF Handle
<1>14. CASE MineTemplate \/ MineBlock \/ BridgeSubscribe \/ Tick
  BY <1>1, <1>14 DEF MineTemplate, MineBlock, BridgeSubscribe, Tick, storage
<1>15. CASE UNCHANGED vars
  BY <1>1, <1>15 DEF vars, storage
<1> QED BY <1>3, <1>9, <1>10, <1>12, <1>13, <1>14, <1>15 DEF Next

-----------------------------------------------------------------------------
\* The pipeline is type correct, for every capacity, timeout and bound.
THEOREM TypeCorrect == Spec => []TypeOK
<1>1. IInv => TypeOK
  BY DEF IInv, Typing
<1> QED BY <1>1, IInvInit, IInvStep, PTL DEF Spec

\* A block is announced as stored only when Consensus validated it at that height
\* and both its roots were computed (try_complete_assembly), whatever the channel
\* loses and whenever the garbage collector, the purge or a restart strikes.
THEOREM StoredIsAssembled == Spec => []StoredOnlyWhenAssembled
<1>1. IInv => StoredOnlyWhenAssembled
  BY DEF IInv
<1> QED BY <1>1, IInvInit, IInvStep, PTL DEF Spec

\* A block is finalized only after it was announced as stored, at that height
\* (FinalityHandler::handle_block_stored).
THEOREM FinalizedIsStored == Spec => []FinalizedOnlyIfStored
<1>1. IInv => FinalizedOnlyIfStored
  BY DEF IInv
<1> QED BY <1>1, IInvInit, IInvStep, PTL DEF Spec

\* No stage of the choreography acts on a block before the stage it builds on
\* has announced it: storage after consensus and both roots, finality after
\* storage.
THEOREM StagesFollow == Spec => []OnlyAssembledGoesOn
<1>1. StoredOnlyWhenAssembled /\ FinalizedOnlyIfStored => OnlyAssembledGoesOn
  BY DEF OnlyAssembledGoesOn
<1> QED BY <1>1, StoredIsAssembled, FinalizedIsStored, PTL

-----------------------------------------------------------------------------
\* A step that publishes an event of a stage, on a block that the stages before
\* have announced, is a step of BlockLifecycle or repeats an announcement.
LEMMA StageStep ==
    ASSUME NEW type \in Lifecycle!Stage, NEW b, NEW height, NEW queues,
           Publish(queues, BlockEvent(type, b, height)),
           \A before \in Lifecycle!BuildsOn[type] :
               \E e \in published : e.type = before /\ e.block_hash = b
    PROVE  [Lifecycle!NextStage]_(Announcements)
<1> DEFINE e == BlockEvent(type, b, height)
<1>1. published' = published \cup {e} /\ e.type = type /\ e.block_hash = b
  BY DEF Publish, BlockEvent
<1>2. type # "AssemblyTimeout" /\ "AssemblyTimeout" \notin Lifecycle!BuildsOn[type]
  BY DEF Lifecycle!Stage, Lifecycle!BuildsOn
<1> HIDE DEF e
<1>3. Announcements' = Announcements \cup {<<type, b>>}
  BY <1>1, <1>2 DEF Announcements, OfType
<1>4. \A before \in Lifecycle!BuildsOn[type] : <<before, b>> \in Announcements
  BY <1>2 DEF Announcements, OfType
<1>5. CASE <<type, b>> \in Announcements
  BY <1>3, <1>5
<1>6. CASE <<type, b>> \notin Announcements
  <2>1. <<type, b>> \in Announcements' \ Announcements
    BY <1>3, <1>6
  <2>2. Lifecycle!Announce(type, b)
    BY <1>3, <1>4 DEF Lifecycle!Announce
  <2>3. Lifecycle!NextStage
    BY <2>1, <2>2 DEF Lifecycle!NextStage
  <2> QED BY <2>3
<1> QED BY <1>5, <1>6

\* Every step of the node is a step of BlockLifecycle, or leaves it as it is.
LEMMA LifecycleStep == IInv /\ [Next]_vars => [Lifecycle!NextStage]_(Announcements)
<1> SUFFICES ASSUME IInv, [Next]_vars
             PROVE  [Lifecycle!NextStage]_(Announcements)
  OBVIOUS
<1> USE HandlerNames DEF CoreHandler
<1>0. Typing
  BY DEF IInv
<1>1. ASSUME published' = published
      PROVE  [Lifecycle!NextStage]_(Announcements)
  BY <1>1 DEF Announcements, OfType
<1>2. ASSUME NEW h \in Handler, inbox[h] # <<>>
      PROVE  Head(inbox[h]) \in published
  BY <1>0, <1>2, HeadPublished
<1>3. CASE BridgeBlockProduced
  <2>1. Publish(inbox, BlockEvent("BlockProduced", Head(bus), Head(bus).height))
    BY <1>3 DEF BridgeBlockProduced
  <2> QED BY <2>1, StageStep DEF Lifecycle!Stage, Lifecycle!BuildsOn
<1>4. CASE ConsensusBlockProduced
  <2> DEFINE event == Head(inbox["Consensus"])
             hash == event.block_hash
  <2>1. event \in published /\ event.type = "BlockProduced"
    BY <1>2, <1>4 DEF ConsensusBlockProduced, Received
  <2>2. CASE ValidBlock(hash)
    <3>1. Publish(Taken("Consensus"), BlockEvent("BlockValidated", hash, hash.height))
      BY <1>4, <2>2 DEF ConsensusBlockProduced
    <3> QED BY <2>1, <3>1, StageStep DEF Lifecycle!Stage, Lifecycle!BuildsOn
  <2>3. CASE ~ValidBlock(hash)
    BY <1>1, <1>4, <2>3 DEF ConsensusBlockProduced
  <2> QED BY <2>2, <2>3
<1>5. ASSUME NEW h \in Handler, NEW type \in {"MerkleRootComputed", "StateRootComputed"},
             ComputeRoot(h, type)
      PROVE  [Lifecycle!NextStage]_(Announcements)
  <2> DEFINE event == Head(inbox[h])
  <2>1. event \in published /\ event.type = "BlockValidated"
    BY <1>2, <1>5 DEF ComputeRoot, Received
  <2>2. Publish(Taken(h), BlockEvent(type, event.block_hash, 0))
    BY <1>5 DEF ComputeRoot, RootEvent
  <2> QED BY <2>1, <2>2, StageStep DEF Lifecycle!Stage, Lifecycle!BuildsOn
<1>6. CASE TryCompleteAssembly
  <2>1. CASE IsComplete(pending, completing)
    <3>1. Publish(inbox, BlockEvent("BlockStored", completing, pending[completing].block_height))
      BY <1>6, <2>1 DEF TryCompleteAssembly
    <3>2. completing \in DOMAIN pending /\ Component \subseteq pending[completing].have
      BY <2>1 DEF IsComplete, Missing
    <3>3. /\ BlockEvent("BlockValidated", completing, pending[completing].block_height)
                \in published
          /\ RootEvent("MerkleRootComputed", completing) \in published
          /\ RootEvent("StateRootComputed", completing) \in published
      BY <3>2 DEF IInv, PendingBacked, Component
    <3>4. \A before \in Component :
              \E e \in published : e.type = before /\ e.block_hash = completing
      BY <3>3 DEF BlockEvent, RootEvent, Component
    <3> QED BY <3>1, <3>4, StageStep DEF Lifecycle!Stage, Lifecycle!BuildsOn, Component
  <2>2. CASE ~IsComplete(pending, completing)
    BY <1>1, <1>6, <2>2 DEF TryCompleteAssembly
  <2> QED BY <2>1, <2>2
<1>7. CASE GcAnnounce
  <2>1. PICK gone \in gc_expired : Publish(inbox, TimeoutEvent(gone.hash, gone.missing))
    BY <1>7 DEF GcAnnounce
  <2> DEFINE e == TimeoutEvent(gone.hash, gone.missing)
  <2>2. published' = published \cup {e} /\ e.type = "AssemblyTimeout"
    BY <2>1 DEF Publish, TimeoutEvent, BlockEvent
  <2> HIDE DEF e
  <2> QED BY <2>2 DEF Announcements, OfType
<1>8. CASE FinalizeBlock
  <2> DEFINE event == Head(inbox["Finality"])
  <2>1. event \in published /\ event.type = "BlockStored"
    BY <1>2, <1>8 DEF FinalizeBlock, Received
  <2>2. CASE FinalizesAt(event.block_height)
    <3>1. Publish(Taken("Finality"),
                  BlockEvent("BlockFinalized", event.block_hash, event.block_height))
      BY <1>8, <2>2 DEF FinalizeBlock
    <3> QED BY <2>1, <3>1, StageStep DEF Lifecycle!Stage, Lifecycle!BuildsOn
  <2>3. CASE ~FinalizesAt(event.block_height)
    BY <1>1, <1>8, <2>3 DEF FinalizeBlock
  <2> QED BY <2>2, <2>3
<1>9. CASE \/ MineTemplate \/ MineBlock \/ BridgeSubscribe \/ Tick \/ Restart
           \/ ConsensusBlockStored \/ OrderTransactions \/ StoreBlockValidated
           \/ StoreMerkleRoot \/ StoreStateRoot \/ GcStaleAssemblies \/ UNCHANGED vars
  <2>1. published' = published
    BY <1>9 DEF MineTemplate, MineBlock, BridgeSubscribe, Tick, Restart, ConsensusBlockStored,
                OrderTransactions, StoreBlockValidated, StoreMerkleRoot, StoreStateRoot,
                StoreRoot, GcStaleAssemblies, vars
  <2> QED BY <1>1, <2>1
<1>10. CASE ComputeMerkleRoot \/ ComputeStateRoot
  BY <1>5, <1>10 DEF ComputeMerkleRoot, ComputeStateRoot
<1> QED BY <1>3, <1>4, <1>6, <1>7, <1>8, <1>9, <1>10 DEF Next, Handle

\* The pipeline implements BlockLifecycle up to the order of heights: whatever is
\* lost, purged, collected or repeated, every announcement of a stage is about a
\* block that the stages before it have announced.
THEOREM Refinement == Spec => Lifecycle!StagedSpec
<1>1. Init => Lifecycle!Init
  BY DEF Init, Lifecycle!Init, Announcements, OfType
<1>2. IInv /\ [Next]_vars => [Lifecycle!NextStage]_(Announcements)
  BY LifecycleStep
<1> QED BY <1>1, <1>2, IInvInit, IInvStep, PTL DEF Spec, Lifecycle!StagedSpec
=============================================================================
