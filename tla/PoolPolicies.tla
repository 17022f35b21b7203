---------------------------- MODULE PoolPolicies ----------------------------
(***************************************************************************)
(* What qc-06 offers beside the pool of Mempool, each with an owner of its *)
(* own and a next-state relation of its own: the families of transactions  *)
(* for child-pays-for-parent (domain/cpfp.rs), the cache of rejections     *)
(* (domain/dos_protection.rs), the dynamic minimum fee (domain/dmmf.rs),   *)
(* the type-state pool (domain/typestate.rs) and the file a pool is kept   *)
(* in over a restart (domain/persistence.rs).  Durations are ages that     *)
(* stop growing where no comparison can tell them apart.                   *)
(***************************************************************************)
EXTENDS Integers, Sequences, FiniteSets, SequencesExt, PartialMaps

CONSTANTS
    Tx, SenderOf, NonceOf,
    MaxAncestors, MaxDescendants,         \* the limits of a family
    RollInterval, MaxEntries,             \* of the rejection cache
    Rate, PoolSize, BaseFee, FeeBump, DecayInterval, MaxIntervals,
    DecayFixed, FixedOne,                 \* the decay factor is DecayFixed / FixedOne
    MaxProposed,                          \* bound of the model: proposals of one transaction
    Heights, MaxReorgDepth

VARIABLES
    children, parents, sender_nonces,     \* TransactionFamily
    registered,                           \* the transactions of the caller
    current, previous, since_roll,        \* RejectionCache
    rejections,                           \* history: hash -> age and later rejections
    min_fee, since_decay,                 \* DynamicMinFee
    pooled,                               \* the caller's pool: rate -> number of transactions
    pending, sender_counts,               \* TypeStatePool
    proposed                              \* what its callers own: transaction -> proposals

familyVars == <<children, parents, sender_nonces, registered>>
rejectionVars == <<current, previous, since_roll, rejections>>
feeVars == <<min_fee, since_decay, pooled>>
typeStateVars == <<pending, sender_counts, proposed>>

Init ==
    /\ children = <<>> /\ parents = <<>> /\ sender_nonces = <<>> /\ registered = {}
    /\ current = {} /\ previous = {} /\ since_roll = 0 /\ rejections = <<>>
    /\ min_fee = BaseFee /\ since_decay = 0 /\ pooled = [r \in Rate |-> 0]
    /\ pending = {} /\ sender_counts = <<>> /\ proposed = [t \in Tx |-> 0]

Capped(n, bound) == IF n < bound THEN n ELSE bound

\* Enough turns for a loop that visits every transaction once.
Turns == [i \in 1..Cardinality(Tx) |-> i]

-----------------------------------------------------------------------------
(* TransactionFamily.  A parent is the transaction with the preceding nonce. *)

Key(t) == <<SenderOf[t], NonceOf[t]>>
PrecedingKey(t) == <<SenderOf[t], NonceOf[t] - 1>>
ChildrenOf(t) == IF t \in DOMAIN children THEN children[t] ELSE {}

(* One turn of the loop of get_ancestors.  The caller knows the fees of the  *)
(* transactions it has registered.                                           *)
Climb(walk) ==
    IF \/ walk.at \notin DOMAIN parents
       \/ parents[walk.at] \in walk.seen
       \/ Cardinality(walk.found) >= MaxAncestors
    THEN walk
    ELSE LET p == parents[walk.at] IN
         [at |-> p, seen |-> walk.seen \cup {p}, found |-> walk.found \cup ({p} \cap registered)]

Climbed(t) ==
    FoldLeft(LAMBDA walk, i : Climb(walk), [at |-> t, seen |-> {}, found |-> {}], Turns)
GetAncestors(t) == Climbed(t).found

(* Everything below t.  The code stops counting at the limit.                *)
Below(t) ==
    FoldLeft(LAMBDA found, i : found \cup UNION {ChildrenOf(u) : u \in found}, ChildrenOf(t), Turns)
DescendantCount(t) == Capped(Cardinality(Below(t) \ {t}), MaxDescendants)

(* The chain of parents from t up, t included.                               *)
ChainLength(t) ==
    FoldLeft(LAMBDA walk, i : IF walk.at \in DOMAIN parents
                                    THEN [at |-> parents[walk.at], n |-> walk.n + 1] ELSE walk,
                   [at |-> t, n |-> 1], Turns).n

WouldExceedLimits(t) ==
    /\ NonceOf[t] > 0 /\ PrecedingKey(t) \in DOMAIN sender_nonces
    /\ LET parent == sender_nonces[PrecedingKey(t)] IN
       ChainLength(parent) > MaxAncestors \/ DescendantCount(parent) >= MaxDescendants

(* The caller asks for the limits first, and registers what it does not have *)
(* yet.                                                                      *)
Register(t) ==
    /\ t \notin registered /\ ~WouldExceedLimits(t)
    /\ IF NonceOf[t] > 0 /\ PrecedingKey(t) \in DOMAIN sender_nonces
       THEN LET p == sender_nonces[PrecedingKey(t)] IN
            /\ parents' = Store(parents, t, p)
            /\ children' = Store(children, p, ChildrenOf(p) \cup {t})
       ELSE UNCHANGED <<parents, children>>
    /\ sender_nonces' = Store(sender_nonces, Key(t), t)
    /\ registered' = registered \cup {t}

(* The parent's entry without the child that leaves.                         *)
(* Variant: only the child forgets.                                          *)
LeftByItself(t) == children

LeftBy(t) ==
    IF t \in DOMAIN parents /\ parents[t] \in DOMAIN children
    THEN [children EXCEPT ![parents[t]] = @ \ {t}] ELSE children

Unregister(t) ==
    /\ t \in registered
    /\ sender_nonces' = Without(sender_nonces, {Key(t)})
    /\ parents' = Without(parents, {t})
    /\ children' = Without(LeftBy(t), {t})
    /\ registered' = registered \ {t}

FamilyNext ==
    /\ \E t \in Tx : Register(t) \/ Unregister(t)
    /\ UNCHANGED <<rejectionVars, feeVars, typeStateVars>>

-----------------------------------------------------------------------------
(* RejectionCache: two generations.  The history counts, for each rejection, *)
(* the other transactions rejected after it.                                 *)

IsRejected(t) == t \in current \cup previous

(* Variant: what was current is dropped.                                     *)
RolledAway == [current |-> {}, previous |-> {}, since_roll |-> 0]

Rolled == [current |-> {}, previous |-> current, since_roll |-> 0]

(* maybe_roll, and a second roll when the generation is full.  After a roll   *)
(* by time the new generation is empty.                                      *)
Generations ==
    IF since_roll >= RollInterval \/ Cardinality(current) >= MaxEntries THEN Rolled
    ELSE [current |-> current, previous |-> previous, since_roll |-> since_roll]

MarkRejected(t) ==
    /\ current' = Generations.current \cup {t}
    /\ previous' = Generations.previous
    /\ since_roll' = Generations.since_roll
    /\ rejections' =
        Store([u \in DOMAIN rejections |-> [rejections[u] EXCEPT !.later = @ \cup {t}]],
              t, [age |-> 0, later |-> {}])

(* A roll somebody asks for drops what was in the older generation.          *)
Roll ==
    /\ current' = Rolled.current /\ previous' = Rolled.previous /\ since_roll' = 0
    /\ rejections' = Without(rejections, previous \ current)

Clear ==
    /\ current' = {} /\ previous' = {} /\ rejections' = <<>>
    /\ UNCHANGED since_roll

RejectionTick ==
    /\ since_roll' = Capped(since_roll + 1, RollInterval)
    /\ rejections' =
        [t \in DOMAIN rejections |-> [rejections[t] EXCEPT !.age = Capped(@ + 1, RollInterval)]]
    /\ UNCHANGED <<current, previous>>

RejectionNext ==
    /\ (\E t \in Tx : MarkRejected(t)) \/ Roll \/ Clear \/ RejectionTick
    /\ UNCHANGED <<familyVars, feeVars, typeStateVars>>

-----------------------------------------------------------------------------
(* DynamicMinFee, and the pool of its caller: what meets the floor comes in,  *)
(* and when the pool is over its size the lowest rate goes and raises it.    *)

MeetsMinimum(r) == r >= min_fee
Held(pool) == {r \in Rate : pool[r] > 0}
Lowest(pool) == CHOOSE r \in Held(pool) : \A q \in Held(pool) : r <= q
Size(pool) == FoldFunction(LAMBDA n, m : n + m, 0, pool)

RaiseFloor(evicted) == evicted + FeeBump

Admit(r) ==
    LET pool == [pooled EXCEPT ![r] = @ + 1] IN
    /\ MeetsMinimum(r)
    /\ IF Size(pool) <= PoolSize
       THEN pooled' = pool /\ UNCHANGED <<min_fee, since_decay>>
       ELSE /\ pooled' = [pool EXCEPT ![Lowest(pool)] = @ - 1]
            /\ min_fee' = RaiseFloor(Lowest(pool))
            /\ since_decay' = 0

Leave(r) ==
    /\ pooled[r] > 0
    /\ pooled' = [pooled EXCEPT ![r] = @ - 1]
    /\ UNCHANGED <<min_fee, since_decay>>

(* Variant: the floor decays to nothing.                                     *)
DecayedFreely(fee, intervals) ==
    FoldLeft(LAMBDA f, i : (f * DecayFixed) \div FixedOne, fee, [i \in 1..Capped(intervals, 10) |-> i])

Decayed(fee, intervals) ==
    LET low == FoldLeft(LAMBDA f, i : (f * DecayFixed) \div FixedOne, fee,
                        [i \in 1..Capped(intervals, 10) |-> i])
    IN  IF low < BaseFee THEN BaseFee ELSE low

ApplyDecay ==
    /\ since_decay >= DecayInterval
    /\ min_fee' = Decayed(min_fee, since_decay \div DecayInterval)
    /\ since_decay' = 0
    /\ UNCHANGED pooled

ResetFloor == min_fee' = BaseFee /\ since_decay' = 0 /\ UNCHANGED pooled

FeeTick ==
    /\ since_decay' = Capped(since_decay + 1, MaxIntervals * DecayInterval)
    /\ UNCHANGED <<min_fee, pooled>>

FeeNext ==
    /\ (\E r \in Rate : Admit(r) \/ Leave(r)) \/ ApplyDecay \/ ResetFloor \/ FeeTick
    /\ UNCHANGED <<familyVars, rejectionVars, typeStateVars>>

-----------------------------------------------------------------------------
(* TypeStatePool.  A proposed transaction belongs to the caller until it     *)
(* confirms it or rolls it back; the pool may meanwhile get the same one     *)
(* again from elsewhere.                                                     *)

CountOf(counts, s) == IF s \in DOMAIN counts THEN counts[s] ELSE 0

(* Variant: a duplicate is counted before it is refused.                     *)
AddPendingCounting(t) ==
    /\ pending' = pending \cup {t}
    /\ sender_counts' = Store(sender_counts, SenderOf[t], CountOf(sender_counts, SenderOf[t]) + 1)

AddPending(t) ==
    IF t \in pending THEN UNCHANGED <<pending, sender_counts>>
    ELSE /\ pending' = pending \cup {t}
         /\ sender_counts' = Store(sender_counts, SenderOf[t], CountOf(sender_counts, SenderOf[t]) + 1)

Submit(t) == AddPending(t) /\ UNCHANGED proposed

ProposeBatch(hashes) ==
    LET taken == hashes \cap pending
        From(s) == Cardinality({t \in taken : SenderOf[t] = s}) IN
    /\ \A t \in taken : proposed[t] < MaxProposed
    /\ pending' = pending \ taken
    /\ sender_counts' = [s \in DOMAIN sender_counts |-> sender_counts[s] - From(s)]
    /\ proposed' = [t \in Tx |-> IF t \in taken THEN proposed[t] + 1 ELSE proposed[t]]

Confirm(t) ==
    /\ proposed[t] > 0
    /\ proposed' = [proposed EXCEPT ![t] = @ - 1]
    /\ UNCHANGED <<pending, sender_counts>>

Rollback(t) ==
    /\ proposed[t] > 0
    /\ proposed' = [proposed EXCEPT ![t] = @ - 1]
    /\ AddPending(t)

TypeStateNext ==
    /\ \/ \E t \in Tx : Submit(t) \/ Confirm(t) \/ Rollback(t)
       \/ \E hashes \in SUBSET Tx : ProposeBatch(hashes)
    /\ UNCHANGED <<familyVars, rejectionVars, feeVars>>

-----------------------------------------------------------------------------
(* MempoolPersistence: a file is the sequence of its fields, and a crash     *)
(* while it is written leaves a prefix of it.                                *)

Magic == "QCMPOOL"
Serialize(txs, height) == <<Magic, height, Len(txs)>> \o txs

Failed == [ok |-> FALSE, txs |-> <<>>]
Restored(txs) == [ok |-> TRUE, txs |-> txs]
TooDeep(saved, height) == height - saved > MaxReorgDepth
\* The count, or a transaction of those it announces, is missing or cut off.
Torn(data) == Len(data) < 3 \/ Len(data) < 3 + data[3]

(* Variant: the transactions that are there are taken.                       *)
DeserializeLenient(data, height) ==
    IF Len(data) < 2 \/ data[1] # Magic THEN Failed
    ELSE IF TooDeep(data[2], height) THEN Restored(<<>>)
    ELSE Restored(SubSeq(data, 4, Len(data)))

Deserialize(data, height) ==
    IF Len(data) < 2 \/ data[1] # Magic THEN Failed
    ELSE IF TooDeep(data[2], height) THEN Restored(<<>>)
    ELSE IF Torn(data) THEN Failed
    ELSE Restored(SubSeq(data, 4, 3 + data[3]))

-----------------------------------------------------------------------------
(* However transactions come, leave and replace each other, a link joins two *)
(* consecutive nonces of one sender, a child listed under a parent names     *)
(* that parent, and the ancestors whose fees are added up are transactions   *)
(* the pool has, of the same sender and with lower nonces (register,         *)
(* unregister, get_ancestors).                                               *)
FamiliesAreLinked ==
    /\ \A c \in DOMAIN parents : Key(parents[c]) = PrecedingKey(c)
    /\ \A p \in DOMAIN children : \A c \in children[p] : c \in DOMAIN parents /\ parents[c] = p
    /\ \A t \in registered : \A a \in GetAncestors(t) :
        a \in registered /\ SenderOf[a] = SenderOf[t] /\ NonceOf[a] < NonceOf[t]

(* A transaction rejected less than a roll interval ago is still known, as   *)
(* long as fewer others than a generation holds were rejected after it, in   *)
(* whatever order the rolls by time, by size and by hand come                *)
(* (mark_rejected, roll); no generation outgrows its size.                   *)
RejectedAreRemembered ==
    /\ \A t \in DOMAIN rejections :
        rejections[t].age < RollInterval /\ Cardinality(rejections[t].later \ {t}) < MaxEntries
            => IsRejected(t)
    /\ Cardinality(current) <= MaxEntries /\ Cardinality(previous) <= MaxEntries

(* The floor is never below the base fee, and at most the bump above what    *)
(* the pool holds, so that raise_floor never lowers it: the next transaction *)
(* to be evicted was admitted under an older floor (raise_floor,             *)
(* apply_decay, reset).                                                      *)
FloorIsFair ==
    min_fee >= BaseFee /\ \A r \in Held(pooled) : RaiseFloor(r) >= min_fee

(* The counters per sender are the numbers of pending transactions, whatever *)
(* was proposed, returned or submitted twice (add_pending, propose_batch).   *)
CountsArePending ==
    \A t \in Tx :
        CountOf(sender_counts, SenderOf[t]) = Cardinality({u \in pending : SenderOf[u] = SenderOf[t]})

(* Saved at any moment, the pending transactions are restored as they were   *)
(* or not at all: a file that was cut off anywhere, and one from too far     *)
(* below the tip, restore nothing (serialize, deserialize).                  *)
RestoredAsSaved ==
    LET txs == SetToSeq(pending) IN
    \A saved \in Heights, now \in Heights, n \in 0..(Len(txs) + 3) :
        Deserialize(SubSeq(Serialize(txs, saved), 1, n), now).txs =
            IF n = Len(txs) + 3 /\ ~TooDeep(saved, now) THEN txs ELSE <<>>

-----------------------------------------------------------------------------
(* What the comments say, and the code does not do.                          *)

(* "Remove children links (orphan them)": a child keeps its link to the      *)
(* parent that was removed (unregister).                                     *)
ChildrenAreOrphaned == \A c \in DOMAIN parents : parents[c] \in registered

(* "effective fee rate considering the entire ancestor chain": a parent that *)
(* comes after its child is not linked to it (register).                     *)
AncestorsAreComplete ==
    \A t \in registered : \A p \in registered : Key(p) = PrecedingKey(t) => p \in GetAncestors(t)
=============================================================================
