-------------------------- MODULE FinalityGuards --------------------------
(***************************************************************************)
(* The parts of qc-09's domain that stand beside the gadget of Finality:    *)
(* the shield that refuses blocks off the finalized chain                   *)
(* (reversion_shield.rs), the database of votes with its two highest epochs *)
(* (slashing_db.rs), the inactivity leak (inactivity_leak.rs), the          *)
(* committees drawn from the RANDAO mix and their cache (randao.rs,         *)
(* committee_cache.rs) and the rewards for timely inclusion (inclusion.rs). *)
(* They share no state.  A block is its place in a tree, a seed is the      *)
(* sequence of indices that the shuffle derives from it, stakes and rewards *)
(* are small integers.                                                      *)
(***************************************************************************)
EXTENDS Integers, Sequences, SequencesExt, FiniteSetsExt, PartialMaps

CONSTANTS
    Block, ParentOf, HeightOf,  \* a tree of blocks; the root is its own parent
    MaxDepth,        \* max_depth of is_descendant
    Epoch, VotedBlock,   \* epochs of votes, and blocks voted for
    MaxVotes,        \* bound: votes
    Validator, Stake,
    LeakThreshold, BasePenaltyBps, QuadraticFactor,   \* InactivityLeakConfig
    BpsUnit,         \* 10_000
    MaxRecords,      \* bound: participation records
    CommitteeSize, CommitteeCount,
    MaxDelay, Halflife, Threshold, Base      \* InclusionDelayTracker, base reward

VARIABLES
    last_finalized,      \* a block, or <<>> before there is one
    finalized_ancestors, \* the blocks ever finalized
    block_tree,          \* recorded block -> its parent
    record,              \* VoteRecord of one validator
    votes,               \* the votes recorded
    evidence,            \* the evidence that the last check returned, if any
    leak_active, scores, \* InactivityLeakTracker
    missed,              \* epochs each validator missed in a row during the leak
    charged,             \* the penalties applied last
    members,             \* validators in the order of the set
    committees,          \* compute_committees
    cache                \* CommitteeKeyCache: validator -> committee

shieldVars == <<last_finalized, finalized_ancestors, block_tree>>
voteVars == <<record, votes, evidence>>
leakVars == <<leak_active, scores, missed, charged>>
committeeVars == <<members, committees, cache>>

Init ==
    /\ last_finalized = <<>> /\ finalized_ancestors = {} /\ block_tree = <<>>
    /\ record = [highest_source |-> 0, highest_target |-> 0, target_votes |-> <<>>]
    /\ votes = {} /\ evidence = {}
    /\ leak_active = FALSE /\ scores = <<>> /\ missed = [v \in Validator |-> 0] /\ charged = <<>>
    /\ members = <<>> /\ committees = <<>> /\ cache = <<>>

-----------------------------------------------------------------------------
(* ReversionShield.  Blocks are recorded in any order.                      *)

RecordBlock(b) ==
    /\ b \notin DOMAIN block_tree
    /\ block_tree' = Store(block_tree, b, ParentOf[b])
    /\ UNCHANGED <<last_finalized, finalized_ancestors>>

(* Any block at any time: set_finalized does not look at what was final.    *)
SetFinalized(b) ==
    /\ last_finalized' = <<b>>
    /\ finalized_ancestors' = finalized_ancestors \cup {b}
    /\ UNCHANGED block_tree

(* The blocks the walk of is_descendant meets above a, in at most n steps.  *)
Walk(a, n) ==
    FoldLeft(LAMBDA path, k : IF Last(path) \in DOMAIN block_tree THEN Append(path, block_tree[Last(path)]) ELSE path,
             <<a>>, [k \in 1..n |-> k])
IsDescendant(a, b) == b \in ToSet(Walk(a, MaxDepth))

(* Variant: any recorded block above the finalized one will do.             *)
IsValidBlockByHeight(b) ==
    \/ last_finalized = <<>>
    \/ last_finalized = <<b>>
    \/ LET finalized == last_finalized[1]
       IN  IF HeightOf[b] <= HeightOf[finalized] THEN b \in finalized_ancestors
           ELSE b \in DOMAIN block_tree

IsValidBlock(b) ==
    \/ last_finalized = <<>>
    \/ last_finalized = <<b>>
    \/ LET finalized == last_finalized[1]
       IN  IF HeightOf[b] <= HeightOf[finalized] THEN b \in finalized_ancestors
           ELSE IsDescendant(b, finalized)

WouldReorgConflict(b) == last_finalized # <<>> /\ ~IsDescendant(last_finalized[1], b)

ShieldNext ==
    /\ \E b \in Block : RecordBlock(b) \/ SetFinalized(b)
    /\ UNCHANGED <<voteVars, leakVars, committeeVars>>

-----------------------------------------------------------------------------
(* SlashingDb, for one validator: records of validators are independent.    *)

Surrounds(outer, inner) == outer.source < inner.source /\ outer.target > inner.target
Highest == [source |-> record.highest_source, target |-> record.highest_target]
Larger(a, b) == IF a > b THEN a ELSE b

(* Variant: only a vote around the highest one is refused.                  *)
IsSurroundOuter(vote) == Surrounds(vote, Highest)
IsSurround(vote) == Surrounds(vote, Highest) \/ Surrounds(Highest, vote)

(* check_and_record: a double vote, the same vote again, a surround vote, a *)
(* valid vote.  A vote that is evidence is not recorded.                    *)
CheckAndRecord(vote) ==
    /\ Cardinality(votes) < MaxVotes
    /\ LET known == vote.target \in DOMAIN record.target_votes
           conflict == IF known THEN record.target_votes[vote.target] # vote.block ELSE IsSurround(vote)
           found == IF known THEN [source |-> -1, target |-> vote.target] ELSE Highest
       IN  /\ evidence' = IF conflict THEN {[new |-> vote, old |-> found]} ELSE {}
           /\ IF known \/ conflict THEN UNCHANGED <<record, votes>>
              ELSE /\ record' = [highest_source |-> Larger(record.highest_source, vote.source),
                                 highest_target |-> Larger(record.highest_target, vote.target),
                                 target_votes |-> Store(record.target_votes, vote.target, vote.block)]
                   /\ votes' = votes \cup {vote}

PruneBefore(epoch) ==
    /\ record' = [record EXCEPT !.target_votes = Without(@, {e \in DOMAIN @ : e < epoch})]
    /\ evidence' = {}
    /\ UNCHANGED votes

VoteNext ==
    /\ \/ \E s, t \in Epoch, b \in VotedBlock : s < t /\ CheckAndRecord([source |-> s, target |-> t, block |-> b])
       \/ \E e \in Epoch : PruneBefore(e)
    /\ UNCHANGED <<shieldVars, leakVars, committeeVars>>

-----------------------------------------------------------------------------
(* InactivityLeakTracker.                                                   *)

(* Variant: the scores outlive the leak.                                    *)
UpdateFinalityLagKeeps(lag) ==
    /\ leak_active' = (lag > LeakThreshold)
    /\ missed' = IF lag > LeakThreshold THEN missed ELSE [v \in Validator |-> 0]
    /\ charged' = <<>>
    /\ UNCHANGED scores

UpdateFinalityLag(lag) ==
    /\ leak_active' = (lag > LeakThreshold)
    /\ scores' = IF lag > LeakThreshold THEN scores ELSE <<>>
    /\ missed' = IF lag > LeakThreshold THEN missed ELSE [v \in Validator |-> 0]
    /\ charged' = <<>>

RecordParticipation(v, participated) ==
    /\ missed[v] < MaxRecords
    /\ scores' = IF leak_active
                   THEN Store(scores, v, IF participated THEN 0 ELSE 1 + (IF v \in DOMAIN scores THEN scores[v] ELSE 0))
                   ELSE scores
    /\ missed' = [missed EXCEPT ![v] = IF leak_active /\ ~participated THEN @ + 1 ELSE 0]
    /\ charged' = <<>>
    /\ UNCHANGED leak_active

Penalty(v) ==
    IF ~leak_active \/ v \notin DOMAIN scores \/ scores[v] = 0 THEN 0
    ELSE (Stake[v] * BasePenaltyBps) \div BpsUnit + scores[v] * scores[v] * QuadraticFactor

(* The total of a score, which nothing reads, is left out.                  *)
ApplyPenalties ==
    /\ leak_active
    /\ charged' = [v \in {v \in Validator : Penalty(v) # 0} |-> Penalty(v)]
    /\ UNCHANGED <<leak_active, scores, missed>>

LeakNext ==
    /\ \/ \E lag \in 0..(LeakThreshold + 1) : UpdateFinalityLag(lag)
       \/ \E v \in Validator, participated \in BOOLEAN : RecordParticipation(v, participated)
       \/ ApplyPenalties
    /\ UNCHANGED <<shieldVars, voteVars, committeeVars>>

-----------------------------------------------------------------------------
(* The committees of an epoch.                                              *)

DivCeil(a, b) == (a + b - 1) \div b

(* Variant: the remainder is left for further committees.                   *)
PerCommitteeFloor(n) == Larger(1, n \div CommitteeCount)
PerCommittee(n) == DivCeil(n, CommitteeCount)

Swap(list, i, j) == [list EXCEPT ![i] = list[j], ![j] = list[i]]
(* shuffle_with_seed: for i from the last down to the second, swap with an  *)
(* index up to i that the seed gives.                                       *)
ShuffleWithSeed(list, seed) ==
    FoldLeft(LAMBDA shuffled, k : LET i == Len(list) + 1 - k IN Swap(shuffled, i, seed[k]),
             list, [k \in 1..(Len(list) - 1) |-> k])
Seeds(n) == {seed \in [1..(n - 1) -> 1..n] : \A k \in 1..(n - 1) : seed[k] <= n + 1 - k}

(* slice::chunks                                                            *)
Chunks(list, size) ==
    [k \in 1..DivCeil(Len(list), size) |-> SubSeq(list, (k - 1) * size + 1, IF k * size < Len(list) THEN k * size ELSE Len(list))]
ComputeCommittees(list, seed) == Chunks(ShuffleWithSeed(list, seed), PerCommittee(Len(list)))

(* CommitteeKeyCache::build: committees numbered from 0.                    *)
BuildCache(list) == [v \in ToSet(list) |-> (CHOOSE i \in 1..Len(list) : list[i] = v) - 1]
NumCommittees(list) == DivCeil(Len(list), CommitteeSize)
Committee(list) == [v \in ToSet(list) |-> BuildCache(list)[v] \div CommitteeSize]

(* analyze_participation: committees_with_absences.                         *)
CommitteesWithAbsences(list, absent) ==
    LET size == Len(list) \div Larger(NumCommittees(list), 1)
    IN  Cardinality({(i - 1) \div size : i \in {i \in 1..Len(list) : list[i] \in absent}})

(* The set is drawn non-empty: chunks of length zero panic.                 *)
DrawCommittees(list) ==
    \E seed \in Seeds(Len(list)) :
        /\ members' = list
        /\ committees' = ComputeCommittees(list, seed)
        /\ cache' = Committee(list)

CommitteeNext ==
    /\ \E set \in SUBSET Validator \ {{}} : DrawCommittees(SetToSeq(set))
    /\ UNCHANGED <<shieldVars, voteVars, leakVars>>

-----------------------------------------------------------------------------
(* InclusionDelayTracker.                                                   *)

CalculateReward(curve, delay) ==
    CASE delay = 0 -> Base
      [] delay > MaxDelay -> 0
      [] OTHER -> CASE curve = "Linear" -> (Base * (MaxDelay - delay)) \div MaxDelay
                    [] curve = "Exponential" -> Base \div 2^(delay \div Halflife)
                    [] curve = "Step" -> IF delay <= Threshold THEN Base ELSE 0

CalculatePenalty(delay) ==
    LET half == MaxDelay \div 2
    IN  CASE delay <= half -> 0
          [] delay - half >= half -> Base
          [] OTHER -> (Base * (delay - half)) \div half

-----------------------------------------------------------------------------
(* The chain a block hangs on, in the whole tree.                           *)
AncestorsOf(b) == FoldLeft(LAMBDA set, k : set \cup {ParentOf[a] : a \in set}, {b}, [k \in 1..HeightOf[b] |-> k])

(* Finality is not reverted: whatever was recorded and finalized, and in    *)
(* whatever order, a block the shield accepts, once there is a finalized    *)
(* block, descends from that block or was finalized itself; when only       *)
(* blocks of one chain were finalized it lies on that chain.  A             *)
(* reorganisation to a point off the chain of the finalized block is a      *)
(* conflict (reversion_shield.rs, is_valid_block).                          *)
AcceptedKeepFinality ==
    last_finalized # <<>> => \A b \in Block :
        /\ IsValidBlock(b) => last_finalized[1] \in AncestorsOf(b) \/ b \in finalized_ancestors
        /\ ~WouldReorgConflict(b) => b \in AncestorsOf(last_finalized[1])

(* Nobody is accused without cause: each piece of evidence names the new    *)
(* vote and one vote that was recorded before, and the two conflict, also   *)
(* after old epochs were pruned (slashing_db.rs, whose highest source and   *)
(* target could belong to two different votes).                             *)
EvidenceIsJust ==
    \A e \in evidence : \E vote \in votes :
        \/ vote.source = e.old.source /\ vote.target = e.old.target
           /\ (Surrounds(vote, e.new) \/ Surrounds(e.new, vote))
        \/ e.old.source = -1 /\ vote.target = e.new.target /\ vote.block # e.new.block

(* Only the absent pay, and only while finality is overdue: a penalty is    *)
(* charged to exactly the validators that missed the last epochs of this    *)
(* leak (inactivity_leak.rs).                                               *)
OnlyAbsentPay == \A v \in Validator : (v \in DOMAIN charged /\ charged[v] > 0) => missed[v] > 0

(* The committees of an epoch are disjoint, hold every validator and are no *)
(* more than asked for; the cache knows no more committees than it counts;  *)
(* rewards fall and penalties rise with the delay (randao.rs,               *)
(* committee_cache.rs, inclusion.rs).                                       *)
CommitteesPartition ==
    /\ members # <<>> => /\ ToSet(FlattenSeq(committees)) = ToSet(members)
                         /\ Len(FlattenSeq(committees)) = Len(members)
                         /\ Len(committees) <= CommitteeCount
                         /\ \A v \in DOMAIN cache : cache[v] < NumCommittees(members)
    /\ \A delay \in 0..MaxDelay :
           /\ CalculatePenalty(delay) <= CalculatePenalty(delay + 1)
           /\ \A curve \in {"Linear", "Exponential", "Step"} :
                  CalculateReward(curve, delay + 1) <= CalculateReward(curve, delay)

GuardsHold == AcceptedKeepFinality /\ OnlyAbsentPay /\ CommitteesPartition

-----------------------------------------------------------------------------
(* What the comments say, and the code does not do.                         *)

(* reversion_shield.rs:78 "Could be an ancestor of finalized, which is      *)
(* valid".  Only blocks that were finalized themselves are known as such.   *)
AncestorsAreValid ==
    last_finalized # <<>> /\ DOMAIN block_tree = Block =>
        \A b \in AncestorsOf(last_finalized[1]) : IsValidBlock(b)

(* slashing_db.rs:99 "Check if new vote surrounds any existing vote".  Only *)
(* the highest epochs are compared.                                         *)
RecordedDoNotSurround == \A v, w \in votes : ~Surrounds(v, w)

(* committee_cache.rs:119 "Number of committees with at least one absence". *)
(* The committee of an index is computed with another size than in build.   *)
AbsencesPerCommittee ==
    members # <<>> => \A absent \in SUBSET ToSet(members) :
        CommitteesWithAbsences(members, absent) = Cardinality({cache[v] : v \in absent})

=============================================================================
