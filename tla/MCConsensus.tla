---------------------------- MODULE MCConsensus ----------------------------
(***************************************************************************)
(* What needs the agreement of several parties: the three state machines   *)
(* of qc-08 (the service with its chain, the fork choice store and the     *)
(* slashing database), the cross-shard transactions of qc-14 and the       *)
(* atomic swaps of qc-15.  They share no state: a behaviour is one of a    *)
(* single part, and the others stay as they are.                           *)
(***************************************************************************)
EXTENDS Consensus

CONSTANTS c1, c2, MaxChildren, MaxSlashings

VARIABLES
    part,
    blocks, children, latest_votes, weight_cache, cache_valid, justified_checkpoint,
    built_for, answer,
    votes, pending_slashings, total_slashings, drained, cast, remembered,
    coord, timed_out, late, lock, acquiring, balance, state_root, rooting, shards, weight,
    htlcs, current_time, swap, record, known, revealed_at

Vote(v, genuine) == [validator |-> v, genuine |-> genuine]
PoS(signed) == [kind |-> "PoS", attestations |-> signed]
PBFT(view, prepares, commits) ==
    [kind |-> "PBFT", view |-> view, prepares |-> prepares, commits |-> commits]

Attested(n) == PoS([i \in 1..n |-> Vote(i, TRUE)])
Voted(n) == [i \in 1..n |-> Vote(i, TRUE)]

MCBlockOf(hash, parent, height, timestamp, proof) ==
    [hash |-> hash, parent |-> parent, height |-> height, timestamp |-> timestamp,
     proposer |-> 1, sound |-> TRUE, proof |-> proof]

MCGenesis == MCBlockOf("g", "0", 0, 0, Attested(2))

(* A chain of three blocks, a second genesis block, a sibling, and blocks    *)
(* with a skipped height, the time of their parent, and each kind of proof   *)
(* that is refused.                                                          *)
MCBlock ==
    {MCGenesis, MCBlockOf("f", "0", 0, 1, Attested(2)),
     MCBlockOf("a", "g", 1, 1, Attested(2)), MCBlockOf("b", "g", 1, 1, PBFT(0, Voted(3), Voted(3))),
     MCBlockOf("c", "a", 2, 2, Attested(3)), MCBlockOf("d", "c", 3, 3, Attested(2)),
     MCBlockOf("i", "b", 2, 2, Attested(4)),
     MCBlockOf("s", "g", 3, 2, Attested(2)), MCBlockOf("t", "a", 2, 1, Attested(2)),
     MCBlockOf("u", "a", 2, 3, PBFT(1, Voted(3), Voted(3))),
     MCBlockOf("v", "a", 2, 3, PoS(<<Vote(1, TRUE), Vote(1, TRUE)>>)),
     [MCGenesis EXCEPT !.sound = FALSE]}

(* A fork below the genesis block, one branch of two blocks; the stakes      *)
(* change so that another branch is the heavier one, and a voter leaves.     *)
MCTree == [b \in {"g", "a", "b", "c"} |-> CASE b = "g" -> "0" [] b = "c" -> "a" [] OTHER -> "g"]
MCStakes == {[v \in 1..2 |-> v], [v \in {1} |-> 3]}

Ghost == INSTANCE ForkChoice WITH Tree <- MCTree, Voter <- 1..2, Stakes <- MCStakes
Slashing == INSTANCE SlashingDB WITH Voter <- 1..2, Epoch <- 1..2, Candidate <- {"a", "b"}

(* A transaction between three shards; an account whose hashes with them are *)
(* any three numbers below four.                                             *)
Shards == INSTANCE Sharding
    WITH Sender <- 0, Recipients <- {1, 2, 3}, ShardCount <- 3, Task <- {1, 2}, Hash <- 0..3,
         MaxProofs <- 4, MaxBalance <- 1

(* Both chains are final after one second, and the margin is two.            *)
Swaps == INSTANCE CrossChain
    WITH Finality <- [leg \in {"source", "target"} |-> 1], Buffer <- 1, Margin <- 2, MaxTime <- 6

ghostVars ==
    <<blocks, children, latest_votes, weight_cache, cache_valid, justified_checkpoint, built_for, answer>>
slashingVars == <<votes, pending_slashings, total_slashings, drained, cast, remembered>>
shardVars == <<coord, timed_out, late, lock, acquiring, balance, state_root, rooting, shards, weight>>
swapVars == <<htlcs, current_time, swap, record, known, revealed_at>>

MCInit ==
    /\ part \in {"service", "ghost", "slashing", "locks", "balances", "assignment", "swap"}
    /\ Init /\ Ghost!Init /\ Slashing!Init /\ Shards!Init /\ Swaps!Init
    /\ part # "assignment" => weight = [s \in Shards!Shard |-> 0]

MCNext ==
    /\ UNCHANGED part
    /\ \/ /\ part = "service" /\ Next
          /\ UNCHANGED <<ghostVars, slashingVars, shardVars, swapVars>>
       \/ /\ part = "ghost" /\ Ghost!Next
          /\ UNCHANGED <<vars, slashingVars, shardVars, swapVars>>
       \/ /\ part = "slashing" /\ Slashing!Next
          /\ UNCHANGED <<vars, ghostVars, shardVars, swapVars>>
       \/ /\ part = "locks" /\ Shards!LockingNext
          /\ UNCHANGED <<vars, ghostVars, slashingVars, swapVars>>
       \/ /\ part = "balances" /\ Shards!BalancesNext
          /\ UNCHANGED <<vars, ghostVars, slashingVars, swapVars>>
       \/ /\ part = "assignment" /\ Shards!AssignmentNext
          /\ UNCHANGED <<vars, ghostVars, slashingVars, swapVars>>
       \/ /\ part = "swap" /\ Swaps!Next
          /\ UNCHANGED <<vars, ghostVars, slashingVars, shardVars>>

MCSpec == MCInit /\ [][MCNext]_<<part, vars, ghostVars, slashingVars, shardVars, swapVars>>

Symmetry == Permutations({c1, c2})

(* No step and no property of the run reads the announcements, or the        *)
(* weights once they are invalid.                                            *)
WhatIsRead ==
    <<part, chain, call, now, slashingVars, shardVars, swapVars,
      blocks, children, latest_votes, cache_valid, justified_checkpoint, answer,
      IF cache_valid THEN <<weight_cache, built_for>> ELSE <<>> >>

(* get_head returns the head of the heaviest branch (see ForkChoice), and    *)
(* the slashing database has evidence of the conflicting votes it can know   *)
(* of and of no others (see SlashingDB).                                     *)
VotesAreWeighed == Ghost!HeadIsHeaviest /\ Slashing!EvidenceIsExact

(* A transaction that is not locked in time never is, an account stays or    *)
(* moves to the shard that joins, and the global root is of these shard      *)
(* roots alone (see Sharding).                                               *)
ShardsAreConsistent ==
    /\ Shards!NeverLockedLate /\ Shards!ReassignmentIsMinimal
    /\ part = "assignment" => Shards!GlobalRootBinds

(* No swap is one-sided (see CrossChain).                                    *)
NeverOneSided == Swaps!NeverOneSided
=============================================================================
