------------------------------ MODULE Sharding ------------------------------
(***************************************************************************)
(* qc-14: the coordinator of one cross-shard transaction, the lock table   *)
(* and the balances it works on, and the functions that assign accounts to *)
(* shards and combine shard roots.  Callers of the coordinator are         *)
(* external and may call anything at any time; tasks interleave where an   *)
(* adapter lets go of its lock.  A hash is a number: the weight of a shard *)
(* for an account, and the root of a shard, is any number; a pair stands   *)
(* for the hash of two.                                                    *)
(***************************************************************************)
EXTENDS Integers, Sequences, FiniteSets, FiniteSetsExt, SequencesExt

CONSTANTS
    Sender, Recipients,     \* of the transaction, as the hashes of their addresses
    ShardCount,
    Task,                   \* callers of the adapters
    Hash,                   \* values of keccak(address, shard), 0 the smallest
    MaxProofs, MaxBalance   \* bounds of the model

AssignShard(hash) == IF ShardCount = 0 THEN 0 ELSE hash % ShardCount

Source == AssignShard(Sender)
Targets == {AssignShard(r) : r \in Recipients} \ {Source}
Shard == {Source} \cup Targets          \* get_involved_shards

VARIABLES
    coord,          \* TwoPhaseCoordinator: state, lock_proofs
    timed_out,      \* is_timeout
    late,           \* it was not locked when the time was over (history)
    lock,           \* EventBusShardConsensus.locks of the transaction: the shard, or none
    acquiring,      \* task -> the shard it asks the lock for, or none
    balance,        \* InMemoryPartitionedState: one account of one shard
    state_root,     \* of that shard: the balance it was computed from
    rooting,        \* task -> step of update_state_root and the balance it has read
    shards,         \* the list shards are assigned from
    weight          \* shard -> keccak of an account and the shard, and its state root

locking == <<coord, timed_out, late, lock, acquiring>>
state == <<balance, state_root, rooting>>
assignment == <<shards, weight>>
vars == <<locking, state, assignment>>

none == -1
Resting == [pc |-> "idle", read |-> 0]

Init ==
    /\ coord = [state |-> "Pending", lock_proofs |-> <<>>]
    /\ timed_out = FALSE /\ late = FALSE
    /\ lock = none /\ acquiring = [t \in Task |-> none]
    /\ balance = 0 /\ state_root = 0 /\ rooting = [t \in Task |-> Resting]
    /\ shards = <<Source>> /\ weight \in [Shard -> Hash]

-----------------------------------------------------------------------------
(* EventBusShardConsensus: the table is read under one lock and written     *)
(* under another.  It has one entry per transaction, whichever shard asks.  *)

AcquireCheck(t, s) ==
    /\ acquiring[t] = none
    /\ lock = none
    /\ acquiring' = [acquiring EXCEPT ![t] = s]
    /\ UNCHANGED <<coord, timed_out, late, lock, state, assignment>>

\* acquire_lock and add_lock_proof: a late proof is refused.
AcquireInsert(t) ==
    /\ acquiring[t] # none
    /\ Len(coord.lock_proofs) < MaxProofs
    /\ lock' = acquiring[t]
    /\ coord' = IF ~timed_out /\ coord.state = "Pending"
                THEN [coord EXCEPT !.lock_proofs = Append(@, acquiring[t])]
                ELSE coord
    /\ acquiring' = [acquiring EXCEPT ![t] = none]
    /\ UNCHANGED <<timed_out, late, state, assignment>>

ReleaseLock ==
    /\ lock # none
    /\ lock' = none
    /\ UNCHANGED <<coord, timed_out, late, acquiring, state, assignment>>

-----------------------------------------------------------------------------
(* TwoPhaseCoordinator *)

\* Proofs are counted, whichever shard each is of.
AllLocksAcquired == Len(coord.lock_proofs) > Cardinality(Targets)

MoveTo(new) ==
    /\ coord' = [coord EXCEPT !.state = new]
    /\ UNCHANGED <<timed_out, late, lock, acquiring, state, assignment>>

IsLocked == coord.state \in {"Locked", "Committed"}

\* Variant: the proofs are looked at before the time.
TryLockFirst ==
    \/ AllLocksAcquired /\ MoveTo("Locked")
    \/ timed_out /\ ~AllLocksAcquired /\ MoveTo("Aborted")

\* The state it is called in does not matter.
TryLock ==
    \/ timed_out /\ MoveTo("Aborted")
    \/ ~timed_out /\ AllLocksAcquired /\ MoveTo("Locked")

Commit == coord.state = "Locked" /\ MoveTo("Committed")

IsTerminal == coord.state \in {"Committed", "Aborted"}

Abort == ~IsTerminal /\ MoveTo("Aborted")

Timeout ==
    /\ ~timed_out
    /\ timed_out' = TRUE /\ late' = ~IsLocked
    /\ UNCHANGED <<coord, lock, acquiring, state, assignment>>

-----------------------------------------------------------------------------
(* InMemoryPartitionedState: apply_change writes the balance under one      *)
(* lock, update_state_root reads it under a second and writes the root      *)
(* under a third.                                                           *)

ApplyChange(t, delta) ==
    /\ rooting[t].pc = "idle"
    /\ balance + delta \in 0..MaxBalance
    /\ balance' = balance + delta
    /\ rooting' = [rooting EXCEPT ![t].pc = "read"]
    /\ UNCHANGED <<locking, state_root, assignment>>

ReadBalances(t) ==
    /\ rooting[t].pc = "read"
    /\ rooting' = [rooting EXCEPT ![t] = [pc |-> "write", read |-> balance]]
    /\ UNCHANGED <<locking, balance, state_root, assignment>>

WriteRoot(t) ==
    /\ rooting[t].pc = "write"
    /\ state_root' = rooting[t].read
    /\ rooting' = [rooting EXCEPT ![t] = Resting]
    /\ UNCHANGED <<locking, balance, assignment>>

-----------------------------------------------------------------------------
(* Assignment *)

\* Variant: the weights are taken modulo the number of shards.
RendezvousModulo(list) == list[1 + (weight[list[1]] % Len(list))]

\* The first of the shards with the best weight.
RendezvousAssign(list) ==
    LET best == Max({weight[list[i]] : i \in DOMAIN list})
    IN list[Min({i \in DOMAIN list : weight[list[i]] = best})]

AddShard(s) ==
    /\ \A i \in DOMAIN shards : shards[i] # s
    /\ shards' = Append(shards, s)
    /\ UNCHANGED <<locking, state, weight>>

(* Global state root *)

HashConcat(left, right) == <<left, right>>

\* Variant: the last root of an odd number is left out.
MerkleLevelOfPairs(level) ==
    IF Len(level) = 1 THEN level
    ELSE [i \in 1..(Len(level) \div 2) |-> HashConcat(level[2 * i - 1], level[2 * i])]

MerkleLevel(level) ==
    IF Len(level) = 1 THEN level
    ELSE [i \in 1..((Len(level) + 1) \div 2) |->
             HashConcat(level[2 * i - 1], IF 2 * i <= Len(level) THEN level[2 * i] ELSE level[2 * i - 1])]

ComputeMerkleRoot(roots) ==
    LET level[n \in 0..Len(roots)] == IF n = 0 THEN roots ELSE MerkleLevel(level[n - 1])
    IN IF roots = <<>> THEN 0 ELSE level[Len(roots)][1]

ComputeGlobalStateRoot(list, root) ==
    LET sorted == SortSeq(list, LAMBDA a, b : a < b)
    IN ComputeMerkleRoot([i \in DOMAIN sorted |-> root[sorted[i]]])

VerifyShardInclusion(root, sibling, global) ==
    (IF root < sibling THEN HashConcat(root, sibling) ELSE HashConcat(sibling, root)) = global

-----------------------------------------------------------------------------
LockingNext ==
    \/ \E t \in Task : AcquireInsert(t) \/ \E s \in Shard : AcquireCheck(t, s)
    \/ ReleaseLock \/ TryLock \/ Commit \/ Abort \/ Timeout

BalancesNext ==
    \E t \in Task :
        \/ \E delta \in {-1, 1} : ApplyChange(t, delta)
        \/ ReadBalances(t) \/ WriteRoot(t)

AssignmentNext == \E s \in Shard : AddShard(s)

Next == LockingNext \/ BalancesNext \/ AssignmentNext

Spec == Init /\ [][Next]_vars

-----------------------------------------------------------------------------
\* A transaction that was not locked when its time was over is never locked or
\* committed, however many proofs it has by then and in whatever order the
\* coordinator is called (add_lock_proof, try_lock, commit, abort).
NeverLockedLate == late => ~IsLocked

\* When a shard joins, an account stays where it is or moves to the new shard,
\* also when weights are equal (rendezvous_assign).
ReassignmentIsMinimal ==
    \A n \in 2..Len(shards) :
        RendezvousAssign(SubSeq(shards, 1, n)) \in
            {RendezvousAssign(SubSeq(shards, 1, n - 1)), shards[n]}

\* The global root is of these shard roots and of no others: another root of any
\* shard gives another global root, whatever the number of shards
\* (compute_global_state_root).
GlobalRootBinds ==
    \A root \in [Shard -> Hash] :
        (\E i \in DOMAIN shards : root[shards[i]] # weight[shards[i]]) =>
            ComputeGlobalStateRoot(shards, root) # ComputeGlobalStateRoot(shards, weight)

(* What the comments say, and the code does not do. *)

\* "Need locks from source + all targets": proofs are counted, so that several of
\* one shard stand for the others.
LockedByEveryShard == IsLocked => Shard \subseteq Range(coord.lock_proofs)

\* A terminal state is left by a late try_lock.
TerminalIsFinal == [][IsTerminal => coord'.state = coord.state]_vars

\* The root follows the last change; of two concurrent changes the earlier may
\* write its root last.
RootIsCurrent == (\A t \in Task : rooting[t].pc = "idle") => state_root = balance

\* A proof stands for a lock that is held; two tasks may both find none.
ProofIsExclusive == coord.state = "Pending" => Len(coord.lock_proofs) <= 1

\* A root that is part of the global root is verified; the tree hashes its nodes
\* by position, verify_shard_inclusion by value.
InclusionVerifies ==
    \A a, b \in Hash \ {0} : VerifyShardInclusion(a, b, ComputeMerkleRoot(<<a, b>>))

=============================================================================
