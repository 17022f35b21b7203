---------------------------- MODULE ForkChoice -----------------------------
(***************************************************************************)
(* LMDGhostStore of qc-08: the block tree, the latest vote of every        *)
(* validator, and the head get_head finds from cached weights.             *)
(***************************************************************************)
EXTENDS Integers, Sequences, FiniteSets, FiniteSetsExt, SequencesExt, Relation, PartialMaps

CONSTANTS
    Tree,               \* hash -> hash of the parent, for every block there may be
    Voter,
    Stakes,             \* validator sets get_head is called with: voter -> stake
    MaxChildren         \* bound of the model: entries among the children of a block

VARIABLES
    blocks,             \* hashes of the blocks of the store
    children,           \* hash -> its children, oldest first
    latest_votes,       \* voter -> hash
    weight_cache, cache_valid,
    justified_checkpoint,    \* a set of at most one hash
    built_for,          \* history: the validator set the cache was built for
    answer              \* what get_head returned, until the store changes

tree == <<blocks, children>>
cache == <<weight_cache, built_for>>
vars == <<tree, latest_votes, cache, cache_valid, justified_checkpoint, answer>>

Hash == DOMAIN Tree
Parent == {Tree[b] : b \in Hash}
NoAnswer == {}

Init ==
    /\ blocks = {} /\ children = [p \in Hash \cup Parent |-> <<>>]
    /\ latest_votes = [v \in {} |-> 0]
    /\ weight_cache = [b \in Hash |-> 0] /\ cache_valid = FALSE
    /\ justified_checkpoint = {}
    /\ built_for \in Stakes /\ answer = NoAnswer

InvalidateCache == cache_valid' = FALSE /\ answer' = NoAnswer

\* A block that is added again is entered among the children again.
AddBlock(b) ==
    /\ Len(children[Tree[b]]) < MaxChildren
    /\ children' = [children EXCEPT ![Tree[b]] = Append(@, b)]
    /\ blocks' = blocks \cup {b}
    /\ InvalidateCache
    /\ UNCHANGED <<latest_votes, cache, justified_checkpoint>>

\* Variant: a changed vote leaves the cache as it is.
OnAttestationFirst(v, target) ==
    /\ latest_votes' = Store(latest_votes, v, target)
    /\ IF v \in DOMAIN latest_votes THEN UNCHANGED cache_valid ELSE cache_valid' = FALSE
    /\ answer' = NoAnswer
    /\ UNCHANGED <<tree, cache, justified_checkpoint>>

OnAttestation(v, target) ==
    /\ latest_votes' = Store(latest_votes, v, target)
    /\ InvalidateCache
    /\ UNCHANGED <<tree, cache, justified_checkpoint>>

SetJustified(b) ==
    /\ justified_checkpoint' = {b}
    /\ InvalidateCache
    /\ UNCHANGED <<tree, latest_votes, cache>>

(* add_weight_to_ancestors: from the target upwards, up to the first block   *)
(* that is missing.                                                          *)
Ancestors(target) ==
    LET walk[n \in Nat, b \in Hash \cup Parent] ==
            IF n = 0 \/ b \notin blocks THEN {} ELSE {b} \cup walk[n - 1, Tree[b]]
    IN walk[Cardinality(Hash), target]

Weights(stake) ==
    [b \in Hash |->
        MapThenSumSet(LAMBDA v : stake[v],
                      {v \in DOMAIN latest_votes \cap DOMAIN stake : b \in Ancestors(latest_votes[v])})]

(* max_by_key: the last one of the heaviest children.                        *)
BestChild(b, weight) ==
    LET c == children[b]
        best == {i \in DOMAIN c : \A j \in DOMAIN c : weight[c[j]] <= weight[c[i]]}
    IN c[Max(best)]

Descend(b, weight) ==
    LET down[n \in Nat, c \in Hash] ==
            IF n = 0 \/ children[c] = <<>> THEN c ELSE down[n - 1, BestChild(c, weight)]
    IN down[Cardinality(Hash), b]

\* The cache does not remember the validator set it was built for.
GetHead(stake) ==
    LET weight == IF cache_valid THEN weight_cache ELSE Weights(stake)
    IN /\ justified_checkpoint # {} /\ justified_checkpoint \subseteq blocks
       /\ weight_cache' = weight /\ cache_valid' = TRUE
       /\ built_for' = IF cache_valid THEN built_for ELSE stake
       /\ answer' = {Descend(b, weight) : b \in justified_checkpoint}
       /\ UNCHANGED <<tree, latest_votes, justified_checkpoint>>

Next ==
    \/ \E b \in Hash : AddBlock(b) \/ SetJustified(b)
    \/ \E v \in Voter, target \in Hash : OnAttestation(v, target)
    \/ \E stake \in Stakes : GetHead(stake)

Spec == Init /\ [][Next]_vars

-----------------------------------------------------------------------------
(* The rule, from the leaves: the weight of a block is the stake behind its  *)
(* subtree.                                                                  *)
Descends ==
    ReflexiveTransitiveClosure([x, y \in blocks |-> Tree[y] = x], blocks)

SubtreeStake(b) ==
    MapThenSumSet(LAMBDA v : built_for[v],
        {v \in DOMAIN latest_votes \cap DOMAIN built_for :
            latest_votes[v] \in blocks /\ Descends[b, latest_votes[v]]})

\* get_head returns a block without children, and on the way from the justified
\* checkpoint to it no block has a sibling with more stake behind its subtree,
\* counted by the latest votes and for the validator set of the first call since
\* the store changed, whichever of its operations came in between (get_head,
\* rebuild_weight_cache).
HeadIsHeaviest ==
    \A h \in answer, j \in justified_checkpoint :
        /\ Descends[j, h] /\ ~\E b \in blocks : Tree[b] = h
        /\ \A b, s \in blocks :
              b # j /\ Descends[j, b] /\ Descends[b, h] /\ Tree[s] = Tree[b]
                  => SubtreeStake(s) <= SubtreeStake(b)

=============================================================================
