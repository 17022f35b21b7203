-------------------------- MODULE ConsensusProofs --------------------------
(***************************************************************************)
(* The head and the height index of the chain are right for every set of   *)
(* blocks, any number of concurrent calls and every max_blocks.            *)
(***************************************************************************)
EXTENDS Consensus, TLAPS

(* The blocks of the chain and of the calls have a height, and an empty    *)
(* chain has its head at height 0: the case is_new_head tests for.         *)
ChainInv ==
    /\ known_blocks \subseteq Block
    /\ DOMAIN height_index \subseteq Nat
    /\ head.height \in Nat
    /\ known_blocks = {} => head.height = 0
    /\ DOMAIN call = Task
    /\ \A t \in Task : call[t].pc # "idle" => call[t].block \in Block
    /\ ChainIsIndexed

(* Both constructors of the chain establish the invariant. *)
LEMMA InitInv == Init => ChainInv
<1> SUFFICES ASSUME Init PROVE ChainInv
    OBVIOUS
<1>1. DOMAIN call = Task /\ \A t \in Task : call[t].pc # "idle" => call[t].block \in Block
    BY DEF Init, Idle
<1>2. CASE EmptyChain
    BY <1>1, <1>2 DEF EmptyChain, ChainInv, ChainIsIndexed
<1>3. CASE ChainWithGenesis
    BY <1>1, <1>3, ChainAssumption DEF ChainWithGenesis, ChainInv, ChainIsIndexed
<1> QED BY <1>2, <1>3 DEF Init

(* The heights that are pruned lie below the head. *)
LEMMA PrunedBelowHead ==
    ASSUME NEW index, NEW newHead, newHead.height \in Nat, DOMAIN index \subseteq Nat
    PROVE  \A h \in PrunedHeights(index, newHead) : h \in DOMAIN index /\ h < newHead.height
BY ChainAssumption DEF PrunedHeights, SaturatingSub

(* A block that is added keeps the head on top and the index exact, whatever *)
(* is pruned: a pruned block is below the head, and each height has its own. *)
LEMMA AddBlockInv ==
    ASSUME ChainInv, NEW b \in Block, AddBlock(b)
    PROVE  /\ known_blocks' \subseteq Block
           /\ DOMAIN height_index' \subseteq Nat
           /\ head'.height \in Nat
           /\ known_blocks' # {}
           /\ ChainIsIndexed'
<1> DEFINE newHead == IF IsNewHead(b) THEN [hash |-> b.hash, height |-> b.height] ELSE head
           index == Store(height_index, b.height, b)
           known == known_blocks \cup {b}
           old == IF Cardinality(known) <= MaxBlocks THEN {} ELSE PrunedHeights(index, newHead)
<1>1. head' = newHead /\ height_index' = Without(index, old) /\ known_blocks' = known \ {index[h] : h \in old}
    BY DEF AddBlock
<1>2. b.height \in Nat /\ known_blocks \subseteq Block /\ \A k \in Block : k.height \in Nat
    BY ChainAssumption DEF ChainInv
<1>3. newHead.height \in Nat /\ \A k \in known : k.height <= newHead.height
    BY <1>2 DEF ChainInv, ChainIsIndexed, IsNewHead
<1>4. \E k \in known : k.hash = newHead.hash /\ k.height = newHead.height
    BY <1>2 DEF ChainInv, ChainIsIndexed, IsNewHead
<1>5. /\ DOMAIN index \subseteq Nat
      /\ \A h \in DOMAIN index : index[h] \in known /\ index[h].height = h
    BY <1>2 DEF ChainInv, ChainIsIndexed, Store
<1> HIDE DEF newHead, index, known
<1>6. \A h \in old : h \in DOMAIN index /\ h < newHead.height
    BY <1>3, <1>5, PrunedBelowHead
<1> HIDE DEF old
<1>7. DOMAIN height_index' = DOMAIN index \ old /\ \A h \in DOMAIN index \ old : height_index'[h] = index[h]
    BY <1>1 DEF Without
<1>8. \A h \in DOMAIN height_index' : height_index'[h] \in known_blocks' /\ height_index'[h].height = h
    BY <1>1, <1>5, <1>6, <1>7
<1>9. \E k \in known_blocks' : k.hash = head'.hash /\ k.height = head'.height
    BY <1>1, <1>3, <1>4, <1>5, <1>6
<1>10. known_blocks' \subseteq Block
    BY <1>1, <1>2 DEF known
<1> QED BY <1>1, <1>3, <1>5, <1>7, <1>8, <1>9, <1>10 DEF ChainIsIndexed

(* A check ends the call or moves it on, with the block it has. *)
LEMMA ProceedInv ==
    ASSUME ChainInv, NEW t \in Task, NEW ok, NEW next, call[t].pc # "idle", Proceed(t, ok, next)
    PROVE  DOMAIN call' = Task /\ \A u \in Task : call'[u].pc # "idle" => call'[u].block \in Block
BY DEF ChainInv, Proceed, Idle

(* Every step of every call keeps the invariant. *)
LEMMA NextInv == ChainInv /\ [Next]_vars => ChainInv'
<1> SUFFICES ASSUME ChainInv, [Next]_vars PROVE ChainInv'
    OBVIOUS
<1> DEFINE CallsOk == DOMAIN call = Task /\ \A u \in Task : call[u].pc # "idle" => call[u].block \in Block
<1>0. CallsOk' /\ UNCHANGED chain => ChainInv'
    BY DEF ChainInv, ChainIsIndexed, chain
<1>1. ASSUME NEW t \in Task, NEW b \in Block, CheckKnown(t, b) PROVE ChainInv'
    BY <1>0, <1>1 DEF CheckKnown, ChainInv
<1>2. ASSUME NEW t \in Task, ValidateParent(t) PROVE ChainInv'
    BY <1>0, <1>2, ProceedInv DEF ValidateParent
<1>3. ASSUME NEW t \in Task, ValidateHeight(t) PROVE ChainInv'
    BY <1>0, <1>3, ProceedInv DEF ValidateHeight
<1>4. ASSUME NEW t \in Task, ValidateTimestamp(t) PROVE ChainInv'
    BY <1>0, <1>4, ProceedInv DEF ValidateTimestamp
<1>5. ASSUME NEW t \in Task, ValidateProof(t) PROVE ChainInv'
    BY <1>0, <1>5, ProceedInv DEF ValidateProof
<1>6. ASSUME NEW t \in Task, AddToChain(t) PROVE ChainInv'
    <2>1. CallsOk'
        BY <1>6, ProceedInv DEF AddToChain
    <2>2. call[t].block \in Block
        BY <1>6 DEF AddToChain, ChainInv
    <2> QED BY <1>6, <2>1, <2>2, AddBlockInv DEF AddToChain, ChainInv
<1>7. ASSUME NEW t \in Task, Publish(t) PROVE ChainInv'
    BY <1>0, <1>7 DEF Publish, Idle, ChainInv
<1>8. CASE Tick \/ UNCHANGED vars
    BY <1>0, <1>8 DEF Tick, vars, ChainInv
<1> QED BY <1>1, <1>2, <1>3, <1>4, <1>5, <1>6, <1>7, <1>8 DEF Next

(* The head is a known block no other is above, and the height index leads to *)
(* known blocks of that height, in every reachable state of the service       *)
(* (ChainState::add_block and prune_if_needed under concurrent validate_block).*)
THEOREM ChainAlwaysIndexed == Spec => []ChainIsIndexed
<1>1. ChainInv => ChainIsIndexed
    BY DEF ChainInv
<1> QED BY <1>1, InitInv, NextInv, PTL DEF Spec

=============================================================================
