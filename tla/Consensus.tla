----------------------------- MODULE Consensus -----------------------------
(***************************************************************************)
(* ConsensusService of qc-08: validate_block and the ChainState it keeps.  *)
(* Calls run concurrently; a call takes the lock of the chain anew for     *)
(* every check and once more to add the block, and awaits the validator    *)
(* set and the event bus in between.  Hashes are names; a signature is     *)
(* genuine or not; the limits of a block's size are one Boolean of it.     *)
(***************************************************************************)
EXTENDS Integers, Sequences, FiniteSets, FiniteSetsExt, SequencesExt, PartialMaps

CONSTANTS
    Block,              \* records: hash, parent, height, timestamp, proposer, sound, proof
    GenesisBlock,       \* the one of with_genesis
    ZeroHash,
    Validator,          \* of every epoch
    Task,               \* concurrent callers of validate_block
    MinAttestationPercent, ByzantineThreshold, MaxDrift,
    MaxBlocks,          \* max_blocks of ChainState
    MaxTime             \* bound of the model

ASSUME ChainAssumption ==
    /\ MaxBlocks \in Nat
    /\ \A b \in Block : b.height \in Nat
    /\ GenesisBlock \in Block /\ GenesisBlock.height = 0

VARIABLES
    known_blocks,       \* a set of blocks
    height_index,       \* height -> block
    head,               \* hash and height
    call,               \* task -> pc, block
    now,
    published           \* blocks announced by BlockValidated

chain == <<known_blocks, height_index, head>>
vars == <<chain, call, now, published>>

Idle == [pc |-> "idle"]
CurrentView == 0        \* set_view has no caller

HasBlock(hash) == \E b \in known_blocks : b.hash = hash
GetBlock(hash) == CHOOSE b \in known_blocks : b.hash = hash
IsGenesis(b) == b.height = 0 /\ b.parent = ZeroHash

-----------------------------------------------------------------------------
(* ChainState *)

\* Variant: the rule for height 0 extended to the first height.
IsNewHeadEarly(b) == b.height > head.height \/ head.height <= 1

IsNewHead(b) == b.height > head.height \/ head.height = 0

SaturatingSub(a, b) == IF a > b THEN a - b ELSE 0

PrunedHeights(index, newHead) ==
    {h \in DOMAIN index : h < SaturatingSub(newHead.height, MaxBlocks)}

\* add_block with prune_if_needed: only blocks the index points to are pruned.
AddBlock(b) ==
    LET newHead == IF IsNewHead(b) THEN [hash |-> b.hash, height |-> b.height] ELSE head
        index == Store(height_index, b.height, b)
        known == known_blocks \cup {b}
        old == IF Cardinality(known) <= MaxBlocks THEN {} ELSE PrunedHeights(index, newHead)
    IN /\ head' = newHead
       /\ height_index' = Without(index, old)
       /\ known_blocks' = known \ {index[h] : h \in old}

EmptyChain ==
    /\ known_blocks = {} /\ height_index = [h \in {} |-> GenesisBlock]
    /\ head = [hash |-> ZeroHash, height |-> 0]

ChainWithGenesis ==
    /\ known_blocks = {GenesisBlock} /\ height_index = [h \in {0} |-> GenesisBlock]
    /\ head = [hash |-> GenesisBlock.hash, height |-> 0]

Init ==
    /\ EmptyChain \/ ChainWithGenesis
    /\ call = [t \in Task |-> Idle]
    /\ now = 0 /\ published = {}

-----------------------------------------------------------------------------
(* The checks *)

\* Genesis is accepted by an empty chain only.
ParentOk(b) == IF IsGenesis(b) THEN known_blocks = {} ELSE HasBlock(b.parent)

\* A parent that is no longer there when the lock is taken again passes.
HeightOk(b) ==
    ~IsGenesis(b) /\ HasBlock(b.parent) => b.height = GetBlock(b.parent).height + 1

\* Variant: a child may carry the time of its parent.
TimestampOkEqual(b) ==
    /\ b.timestamp <= now + MaxDrift
    /\ ~IsGenesis(b) /\ HasBlock(b.parent) => b.timestamp >= GetBlock(b.parent).timestamp

TimestampOk(b) ==
    /\ b.timestamp <= now + MaxDrift
    /\ ~IsGenesis(b) /\ HasBlock(b.parent) => b.timestamp > GetBlock(b.parent).timestamp

Signers(signed) == {signed[i].validator : i \in DOMAIN signed}

ProposerOk(b) ==
    \/ IsGenesis(b)
    \/ /\ b.proposer \in Validator
       /\ b.proof.kind = "PoS" => b.proposer \in Signers(b.proof.attestations)

SignaturesOk(signed) ==
    \A i \in DOMAIN signed : signed[i].validator \in Validator /\ signed[i].genuine

RequiredAttestations ==
    LET share == (Cardinality(Validator) * MinAttestationPercent) \div 100
    IN IF share > 1 THEN share ELSE 1

PoSProofOk(proof) ==
    /\ IsInjective([i \in DOMAIN proof.attestations |-> proof.attestations[i].validator])
    /\ SignaturesOk(proof.attestations)
    /\ Len(proof.attestations) >= RequiredAttestations

\* The messages count one by one, whoever signed them and for whichever block.
PBFTProofOk(proof) ==
    /\ proof.view = CurrentView
    /\ Len(proof.prepares) >= 2 * ByzantineThreshold + 1
    /\ Len(proof.commits) >= 2 * ByzantineThreshold + 1
    /\ SignaturesOk(proof.prepares) /\ SignaturesOk(proof.commits)

ProofOk(b) == IF b.proof.kind = "PoS" THEN PoSProofOk(b.proof) ELSE PBFTProofOk(b.proof)

-----------------------------------------------------------------------------
(* validate_block *)

Proceed(t, ok, next) ==
    call' = [call EXCEPT ![t] = IF ok THEN [@ EXCEPT !.pc = next] ELSE Idle]

\* An error leaves the caller where it started: AlreadyValidated.
CheckKnown(t, b) ==
    /\ call[t] = Idle
    /\ ~HasBlock(b.hash)
    /\ call' = [call EXCEPT ![t] = [pc |-> "parent", block |-> b]]
    /\ UNCHANGED <<chain, now, published>>

ValidateParent(t) ==
    /\ call[t].pc = "parent"
    /\ Proceed(t, call[t].block.sound /\ ParentOk(call[t].block), "height")
    /\ UNCHANGED <<chain, now, published>>

ValidateHeight(t) ==
    /\ call[t].pc = "height"
    /\ Proceed(t, HeightOk(call[t].block), "timestamp")
    /\ UNCHANGED <<chain, now, published>>

ValidateTimestamp(t) ==
    /\ call[t].pc = "timestamp"
    /\ Proceed(t, TimestampOk(call[t].block), "proof")
    /\ UNCHANGED <<chain, now, published>>

\* The provider of the validator set may fail.
ValidateProof(t) ==
    /\ call[t].pc = "proof"
    /\ \E available \in BOOLEAN :
          Proceed(t, available /\ ProposerOk(call[t].block) /\ ProofOk(call[t].block), "add")
    /\ UNCHANGED <<chain, now, published>>

AddToChain(t) ==
    /\ call[t].pc = "add"
    /\ AddBlock(call[t].block)
    /\ Proceed(t, TRUE, "publish")
    /\ UNCHANGED <<now, published>>

\* An error of the bus is returned, and the block stays in the chain.
Publish(t) ==
    /\ call[t].pc = "publish"
    /\ published' \in {published, published \cup {call[t].block}}
    /\ call' = [call EXCEPT ![t] = Idle]
    /\ UNCHANGED <<chain, now>>

Tick ==
    /\ now < MaxTime
    /\ now' = now + 1
    /\ UNCHANGED <<chain, call, published>>

Next ==
    \/ \E t \in Task :
          \/ \E b \in Block : CheckKnown(t, b)
          \/ ValidateParent(t) \/ ValidateHeight(t) \/ ValidateTimestamp(t)
          \/ ValidateProof(t) \/ AddToChain(t) \/ Publish(t)
    \/ Tick

Spec == Init /\ [][Next]_vars

-----------------------------------------------------------------------------
\* The head of the chain is a known block no known block is above, and every
\* entry of the height index leads to a known block of that height: calls add
\* siblings, older blocks and a second genesis block in any order, and pruning
\* follows the index and not the blocks (ChainState::add_block).
ChainIsIndexed ==
    /\ known_blocks # {} => \E b \in known_blocks : b.hash = head.hash /\ b.height = head.height
    /\ \A b \in known_blocks : b.height <= head.height
    /\ \A h \in DOMAIN height_index : height_index[h] \in known_blocks /\ height_index[h].height = h

\* INVARIANT-4 and INVARIANT-5 of chain.rs for every block next to its parent.
KnownAreLinked ==
    \A b, p \in known_blocks :
        ~IsGenesis(b) /\ b.parent = p.hash =>
            b.height = p.height + 1 /\ b.timestamp > p.timestamp

-----------------------------------------------------------------------------
(* What the comments say, and the code does not do. *)

\* INVARIANT-2 of the service: at least two thirds of the validators attest.
\* The percentage of the number of validators is rounded down: 67 percent of
\* the four validators of the node are two (required_attestations).
TwoThirdsAttest ==
    \A b \in known_blocks :
        ~IsGenesis(b) /\ b.proof.kind = "PoS" =>
            3 * Cardinality(Signers(b.proof.attestations)) >= 2 * Cardinality(Validator)

\* INVARIANT-4: a block is added one above its parent.  A parent that is pruned
\* between two checks of its child is not looked at again.
AddedAboveParent ==
    [][\A b \in known_blocks' \ known_blocks :
          IsGenesis(b) \/ \E p \in known_blocks : p.hash = b.parent /\ b.height = p.height + 1]_vars

\* A block is announced after its parent.  Two calls may announce theirs in any
\* order, and the bus may have refused the parent.
AnnouncedInOrder ==
    \A b \in published : IsGenesis(b) \/ \E p \in published : p.hash = b.parent

=============================================================================
