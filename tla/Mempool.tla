------------------------------ MODULE Mempool ------------------------------
(***************************************************************************)
(* The transaction pool of qc-06 (domain/pool.rs): three indexes over the  *)
(* same transactions, replace-by-fee, eviction, and the two-phase removal  *)
(* of transactions that were proposed for a block.  A transaction is its   *)
(* hash; its fields are functions of it.  A refused IPC envelope changes   *)
(* nothing and is left out.                                                *)
(***************************************************************************)
EXTENDS Integers, FiniteSets, Sequences, SequencesExt, PartialMaps

CONSTANTS
    Tx,                        \* transaction hashes, numbers: their order is the hash order
    SenderOf, NonceOf, PriceOf, GasOf,
    MaxTransactions, MaxPerAccount, MinGasPrice, MaxGasPerTx,
    InclusionTimeout,          \* pending_inclusion_timeout_ms
    EnableRbf, MinBumpPercent,
    MaxCount, MaxGas,          \* the limits of a block request
    MaxTime, MaxBatches        \* bounds of the model

ASSUME MempoolAssumption ==
    /\ Tx \subseteq Nat
    /\ NonceOf \in [Tx -> Nat] /\ PriceOf \in [Tx -> Nat] /\ GasOf \in [Tx -> Nat]
    /\ MaxTransactions \in Nat \ {0} /\ MaxPerAccount \in Nat \ {0}
    /\ {MinGasPrice, MaxGasPerTx, InclusionTimeout, MinBumpPercent,
        MaxCount, MaxGas, MaxTime, MaxBatches} \subseteq Nat
    /\ EnableRbf \in BOOLEAN

VARIABLES
    now,
    by_hash,           \* hash -> state, added_at, proposed_at
    by_price,          \* the PricedTransactions, as hashes
    by_sender,         \* <<sender, nonce>> -> hash
    pending_batches,   \* sequence of sets of hashes
    chosen             \* what Consensus read and has yet to propose

vars == <<now, by_hash, by_price, by_sender, pending_batches, chosen>>
indexes == <<by_hash, by_price, by_sender>>

Slot(t) == <<SenderOf[t], NonceOf[t]>>

IsPendingInclusion(t) == by_hash[t].state = "PendingInclusion"
Fresh(time) == [state |-> "Pending", added_at |-> time, proposed_at |-> 0]

Init ==
    /\ now = 0
    /\ by_hash = [t \in {} |-> Fresh(0)]
    /\ by_price = {}
    /\ by_sender = [s \in {} |-> 0]
    /\ pending_batches = <<>>
    /\ chosen = <<>>

\* PricedTransaction::cmp over transactions of the pool.
Before(t, u) ==
    \/ PriceOf[t] > PriceOf[u]
    \/ PriceOf[t] = PriceOf[u] /\ by_hash[t].added_at < by_hash[u].added_at
    \/ PriceOf[t] = PriceOf[u] /\ by_hash[t].added_at = by_hash[u].added_at /\ t < u

\* remove_internal of the victims and add_internal(t), as one change of the
\* three indexes.  The sender slot of a victim is cleared whoever fills it.
Exchange(victims, t) ==
    /\ by_hash' = Store(Without(by_hash, victims), t, Fresh(now))
    /\ by_price' = (by_price \ victims) \cup {t}
    /\ by_sender' = Store(Without(by_sender, {Slot(v) : v \in victims}), Slot(t), t)

\* Variant: the sender index keeps the victims.
RemoveAllButSender(victims) ==
    /\ by_hash' = Without(by_hash, victims)
    /\ by_price' = by_price \ victims
    /\ UNCHANGED by_sender

RemoveAll(victims) ==
    /\ by_hash' = Without(by_hash, victims)
    /\ by_price' = by_price \ victims
    /\ by_sender' = Without(by_sender, {Slot(v) : v \in victims \cap DOMAIN by_hash})

\* Variant: a transaction that was proposed may be replaced.
CanReplaceProposed(old, new) ==
    PriceOf[new] >= (PriceOf[old] * (100 + MinBumpPercent)) \div 100

\* can_replace: an error and a refusal are the same to the pool.
CanReplace(old, new) ==
    /\ ~IsPendingInclusion(old)
    /\ PriceOf[new] >= (PriceOf[old] * (100 + MinBumpPercent)) \div 100

\* try_evict_for: the last of the price index, when t pays more.  A newcomer
\* is never older than a transaction of the pool.
Evictable(t) ==
    {low \in by_price : /\ \A u \in by_price \ {low} : Before(u, low)
                       /\ PriceOf[t] > PriceOf[low]}

SenderCount(s) == Cardinality({k \in DOMAIN by_sender : k[1] = s})

AtAccountLimit(t) == SenderCount(SenderOf[t]) >= MaxPerAccount

TryRbfAtLimit(t) ==
    IF /\ EnableRbf
       /\ Slot(t) \in DOMAIN by_sender
       /\ CanReplace(by_sender[Slot(t)], t)
    THEN Exchange({by_sender[Slot(t)]}, t)
    ELSE UNCHANGED indexes

\* Variant: the victim stays when the newcomer has a free slot.
TryRbfOrAddKeeping(evicted, t) ==
    IF Slot(t) \notin DOMAIN by_sender THEN Exchange({}, t) ELSE RemoveAll(evicted)

\* Eviction comes first and is not undone when the replacement is refused
\* afterwards.  The victim may be the transaction that would be replaced.
TryRbfOrAdd(evicted, t) ==
    LET occupied == Slot(t) \in DOMAIN by_sender /\ by_sender[Slot(t)] \notin evicted
        old == by_sender[Slot(t)]
    IN  IF ~occupied THEN Exchange(evicted, t)
        ELSE IF EnableRbf /\ CanReplace(old, t) THEN Exchange(evicted \cup {old}, t)
        ELSE RemoveAll(evicted)

AddTransaction(t) ==
    /\ t \notin DOMAIN by_hash
    /\ PriceOf[t] >= MinGasPrice /\ GasOf[t] <= MaxGasPerTx
    /\ IF AtAccountLimit(t) THEN TryRbfAtLimit(t)
       ELSE IF Cardinality(DOMAIN by_hash) < MaxTransactions THEN TryRbfOrAdd({}, t)
       ELSE IF Evictable(t) = {} THEN UNCHANGED indexes
       ELSE \E low \in Evictable(t) : TryRbfOrAdd({low}, t)
    /\ UNCHANGED <<now, pending_batches, chosen>>

(***************************************************************************)
(* get_for_block: one pass over by_price.                                  *)
(***************************************************************************)
SenderNonces(s) == {k[2] : k \in {x \in DOMAIN by_sender : x[1] = s}}

\* Variant: the lowest nonce that is still available for proposals.
MinNoncePending(s) ==
    CHOOSE n \in {NonceOf[t] : t \in {u \in by_price : SenderOf[u] = s}} :
        \A u \in by_price : SenderOf[u] = s => n <= NonceOf[u]

MinNonce(s) == CHOOSE n \in SenderNonces(s) : \A k \in SenderNonces(s) : n <= k

GasUsed(s) == FoldLeft(LAMBDA sum, t : sum + GasOf[t], 0, s)
OfSender(s, sender) == SelectSeq(s, LAMBDA t : SenderOf[t] = sender)

ExpectedNonce(s, sender) ==
    IF OfSender(s, sender) = <<>>
    THEN MinNonce(sender)
    ELSE NonceOf[Last(OfSender(s, sender))] + 1

Consider(s, t) ==
    IF /\ Len(s) < MaxCount
       /\ GasUsed(s) + GasOf[t] <= MaxGas
       /\ NonceOf[t] = ExpectedNonce(s, SenderOf[t])
    THEN Append(s, t)
    ELSE s

GetForBlock == FoldLeft(Consider, <<>>, SetToSortSeq(by_price, Before))

\* propose: what is gone or already proposed is skipped.
Propose(hashes) ==
    LET moved == {t \in hashes \cap DOMAIN by_hash : ~IsPendingInclusion(t)}
    IN  /\ by_hash' = [t \in DOMAIN by_hash |->
                         IF t \in moved
                         THEN [by_hash[t] EXCEPT !.state = "PendingInclusion", !.proposed_at = now]
                         ELSE by_hash[t]]
        /\ by_price' = by_price \ moved
        /\ pending_batches' = IF moved = {} THEN pending_batches
                                            ELSE Append(pending_batches, moved)
        /\ UNCHANGED by_sender

\* The IPC handler reads and proposes in one call.
GetTransactions ==
    /\ Len(pending_batches) < MaxBatches
    /\ Propose(ToSet(GetForBlock))
    /\ UNCHANGED <<now, chosen>>

\* The runtime's gateway reads under one lock and proposes under another.
ReadForBlock ==
    /\ chosen = <<>>
    /\ chosen' = GetForBlock
    /\ UNCHANGED <<now, by_hash, by_price, by_sender, pending_batches>>

ProposeChosen ==
    /\ chosen /= <<>>
    /\ Len(pending_batches) < MaxBatches
    /\ Propose(ToSet(chosen))
    /\ chosen' = <<>>
    /\ UNCHANGED now

\* Phase 2a.  A block of another node may hold any of our transactions.
Confirm(hashes) ==
    /\ RemoveAll(hashes)
    /\ pending_batches' = SelectSeq(pending_batches,
                             LAMBDA b : ~(b \subseteq (hashes \cap DOMAIN by_hash)))
    /\ UNCHANGED <<now, chosen>>

RolledBack(hashes) ==
    LET back == {t \in hashes \cap DOMAIN by_hash : IsPendingInclusion(t)}
    IN  /\ by_hash' = [t \in DOMAIN by_hash |->
                         IF t \in back
                         THEN [by_hash[t] EXCEPT !.state = "Pending", !.proposed_at = 0]
                         ELSE by_hash[t]]
        /\ by_price' = by_price \cup back
        /\ pending_batches' = SelectSeq(pending_batches, LAMBDA b : b \cap hashes = {})
        /\ UNCHANGED by_sender

\* Phase 2b.
BlockRejected(hashes) == RolledBack(hashes) /\ UNCHANGED <<now, chosen>>

TimedOut ==
    {t \in DOMAIN by_hash : IsPendingInclusion(t) /\ now - by_hash[t].proposed_at >= InclusionTimeout}

CleanupTimeouts ==
    /\ TimedOut /= {}
    /\ RolledBack(TimedOut)
    /\ UNCHANGED <<now, chosen>>

\* Consensus withdraws invalid transactions, whatever their state.
RemoveTransactions(hashes) == RemoveAll(hashes) /\ UNCHANGED <<now, pending_batches, chosen>>

Tick ==
    /\ now < MaxTime
    /\ now' = now + 1
    /\ UNCHANGED <<by_hash, by_price, by_sender, pending_batches, chosen>>

Next ==
    \/ \E t \in Tx : AddTransaction(t)
    \/ GetTransactions \/ ReadForBlock \/ ProposeChosen
    \/ \E hashes \in SUBSET Tx \ {{}} : Confirm(hashes)
    \/ \E hashes \in SUBSET Tx \ {{}} : BlockRejected(hashes)
    \/ \E t \in Tx : RemoveTransactions({t})
    \/ CleanupTimeouts \/ Tick

Spec == Init /\ [][Next]_vars

-----------------------------------------------------------------------------
\* The three indexes describe one pool: the price index holds exactly the
\* pending transactions (INVARIANT-3 of SPEC-06: what is proposed is not
\* offered again), and the sender index has each transaction in its slot and
\* nothing else, whatever was replaced, evicted, confirmed or rolled back.
IndexesAgree ==
    /\ by_price = {t \in DOMAIN by_hash : ~IsPendingInclusion(t)}
    /\ DOMAIN by_sender = {Slot(t) : t \in DOMAIN by_hash}
    /\ \A t \in DOMAIN by_hash : by_sender[Slot(t)] = t

\* Neither replacement nor eviction lets the pool or an account outgrow its
\* limit (max_transactions, max_per_account).
LimitsRespected ==
    /\ Cardinality(DOMAIN by_hash) <= MaxTransactions
    /\ \A t \in DOMAIN by_hash :
          Cardinality({u \in DOMAIN by_hash : SenderOf[u] = SenderOf[t]}) <= MaxPerAccount

\* The pool keeps its indexes in step and its limits, through every operation.
PoolIsSound == IndexesAgree /\ LimitsRespected

\* get_for_block never selects a transaction ahead of one of the same sender
\* with a lower nonce: all of those in the pool, the ones proposed for an
\* earlier block included, are selected before it.
SelectionInNonceOrder ==
    LET s == GetForBlock IN
    \A i \in DOMAIN s : \A t \in DOMAIN by_hash :
        SenderOf[t] = SenderOf[s[i]] /\ NonceOf[t] < NonceOf[s[i]]
            => \E j \in 1..(i - 1) : s[j] = t

\* A transaction that waits for its block to be stored is neither evicted nor
\* replaced by a transaction that arrives meanwhile.
ProposedNotDisplaced ==
    [][\A t \in DOMAIN by_hash :
          IsPendingInclusion(t) /\ (\E u \in Tx : AddTransaction(u)) => t \in DOMAIN by_hash']_vars

-----------------------------------------------------------------------------
(* What the documents say of the pool.                                     *)

\* SPEC-06 INVARIANT-2: the nonces of a sender in the pool have no gap.
NoNonceGap ==
    \A t \in DOMAIN by_hash : \A u \in DOMAIN by_hash :
        SenderOf[t] = SenderOf[u] /\ NonceOf[t] < NonceOf[u]
            => <<SenderOf[t], NonceOf[t] + 1>> \in DOMAIN by_sender

\* pool.rs: the pool evicts "to make room": what leaves when a transaction is
\* added leaves in favour of that transaction.
EvictionMakesRoom ==
    [][\A t \in Tx : AddTransaction(t) /\ t \notin DOMAIN by_hash' => UNCHANGED by_hash]_vars

\* value_objects.rs: a batch tracks transactions proposed for a block, so one
\* of its transactions still waits for that block.
BatchesTrackProposals ==
    \A i \in DOMAIN pending_batches :
        \E t \in pending_batches[i] : t \in DOMAIN by_hash /\ IsPendingInclusion(t)
=============================================================================
