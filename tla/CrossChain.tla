----------------------------- MODULE CrossChain -----------------------------
(***************************************************************************)
(* Atomic swaps of qc-15: the hash time-locked contracts of the two legs,  *)
(* the swap that refers to them, and the record of an HTLC the adapter of  *)
(* the runtime keeps.  A contract is identified by the hash of its         *)
(* parameters, so by its leg: source or target.  The parties are external: *)
(* they may send a deployment again while the leg is locked, but not once  *)
(* it is claimed or refunded, and whoever knows the secret may claim.      *)
(***************************************************************************)
EXTENDS Integers, PartialMaps

CONSTANTS
    Finality,       \* leg -> required_confirmations * block_time_secs of its chain
    Buffer,         \* six hours, added to the target's timeout
    Margin,         \* MIN_TIMELOCK_MARGIN_SECS
    MaxTime         \* bound of the model

Leg == {"source", "target"}

VARIABLES
    htlcs,          \* leg -> state, time_lock
    current_time,
    swap,           \* the AtomicSwap and the time locks agreed on
    record,         \* the HTLC of the adapter
    known,          \* the secret is known to both parties
    revealed_at     \* when it became known

vars == <<htlcs, current_time, swap, record, known, revealed_at>>

-----------------------------------------------------------------------------
(* Time locks *)

\* Variant: the margin is left out.
CalculateTimelocksEqual(now) ==
    LET target == now + Finality["target"] + Buffer
    IN [source |-> target, target |-> target]

CalculateTimelocks(now) ==
    LET target == now + Finality["target"] + Buffer
    IN [source |-> target + Margin, target |-> target]

\* invariant_timelock_ordering
TimelocksOrdered(locks) == locks.source > locks.target + Margin

(* HTLCState and SwapState *)

HTLCMoves(from, to, now, lock) ==
    \/ from = "Pending" /\ to = "Locked"
    \/ from = "Locked" /\ to = "Claimed" /\ now <= lock
    \/ from = "Locked" /\ to = "Expired" /\ now > lock
    \/ from = "Expired" /\ to = "Refunded"

SwapMoves(from, to) ==
    \/ from = "Initiated" /\ to \in {"SourceLocked", "Refunded"}
    \/ from = "SourceLocked" /\ to \in {"TargetLocked", "Refunded"}
    \/ from = "TargetLocked" /\ to \in {"Completed", "Refunded"}

IsTerminal(state) == state \in {"Claimed", "Refunded"}

-----------------------------------------------------------------------------
\* create_atomic_swap at some time; the record of the adapter is created with it.
Init ==
    /\ current_time = 0
    /\ swap = [state |-> "Initiated", htlc |-> {}, locks |-> CalculateTimelocks(current_time)]
    /\ htlcs = [leg \in {} |-> {}]
    /\ record = [state |-> "Pending", secret |-> FALSE]
    /\ known = FALSE /\ revealed_at = 0

IsLocked(leg) == leg \in DOMAIN htlcs /\ htlcs[leg].state = "Locked"

\* The parties: the target is locked after the source.  deploy asks for none
\* of this; sent again for a leg that is over, it would overwrite the contract.
MayDeploy(leg) ==
    /\ leg \in DOMAIN htlcs => IsLocked(leg)
    /\ leg = "target" => "source" \in DOMAIN htlcs

\* deploy and set_source_htlc or set_target_htlc: whatever is stored under the
\* id is replaced by a locked contract, and the id is set even if the swap has
\* meanwhile moved to a state it cannot leave that way.
Deploy(leg) ==
    LET locked == IF leg = "source" THEN "SourceLocked" ELSE "TargetLocked"
    IN /\ htlcs' = Store(htlcs, leg, [state |-> "Locked", time_lock |-> swap.locks[leg]])
       /\ swap' = [swap EXCEPT !.htlc = @ \cup {leg},
                               !.state = IF SwapMoves(@, locked) THEN locked ELSE @]
       /\ UNCHANGED <<current_time, record, known, revealed_at>>

\* The initiator has the secret; claiming tells it to everyone.
Claim(leg) ==
    /\ IsLocked(leg)
    /\ current_time <= htlcs[leg].time_lock
    /\ htlcs' = [htlcs EXCEPT ![leg].state = "Claimed"]
    /\ known' = TRUE
    /\ revealed_at' = IF known THEN revealed_at ELSE current_time
    /\ UNCHANGED <<current_time, swap, record>>

\* Variant: the time lock itself counts as expired.
RefundEarly(leg) ==
    /\ IsLocked(leg)
    /\ current_time >= htlcs[leg].time_lock
    /\ htlcs' = [htlcs EXCEPT ![leg].state = "Refunded"]
    /\ UNCHANGED <<current_time, swap, record, known, revealed_at>>

Refund(leg) ==
    /\ IsLocked(leg)
    /\ current_time > htlcs[leg].time_lock
    /\ htlcs' = [htlcs EXCEPT ![leg].state = "Refunded"]
    /\ UNCHANGED <<current_time, swap, record, known, revealed_at>>

SwapTransition(to) ==
    /\ SwapMoves(swap.state, to)
    /\ swap' = [swap EXCEPT !.state = to]
    /\ UNCHANGED <<htlcs, current_time, record, known, revealed_at>>

(* The record of the source leg, changed through get_htlc_mut *)

RecordTransition(to) ==
    /\ HTLCMoves(record.state, to, current_time, swap.locks["source"])
    /\ record' = [record EXCEPT !.state = to]
    /\ UNCHANGED <<htlcs, current_time, swap, known, revealed_at>>

\* claim and refund look at the time and not at the state.
RecordClaim ==
    /\ current_time <= swap.locks["source"]
    /\ record' = [state |-> "Claimed", secret |-> TRUE]
    /\ UNCHANGED <<htlcs, current_time, swap, known, revealed_at>>

RecordRefund ==
    /\ current_time > swap.locks["source"]
    /\ record' = [record EXCEPT !.state = "Refunded"]
    /\ UNCHANGED <<htlcs, current_time, swap, known, revealed_at>>

\* advance_time.  The counterparty reacts to the secret within the margin.
AdvanceTime ==
    /\ current_time < MaxTime
    /\ ~(known /\ IsLocked("source") /\ current_time >= revealed_at + Margin)
    /\ current_time' = current_time + 1
    /\ UNCHANGED <<htlcs, swap, record, known, revealed_at>>

Next ==
    \/ \E leg \in Leg : (MayDeploy(leg) /\ Deploy(leg)) \/ Claim(leg) \/ Refund(leg)
    \/ \E to \in {"Completed", "Refunded"} : SwapTransition(to)
    \/ \E to \in {"Locked", "Claimed", "Expired", "Refunded"} : RecordTransition(to)
    \/ RecordClaim \/ RecordRefund
    \/ AdvanceTime

Spec == Init /\ [][Next]_vars

-----------------------------------------------------------------------------
\* A swap is never one-sided: when the initiator has claimed the target, which
\* reveals the secret, the source is not refunded to them, although they may
\* claim in the last moment and refund in the first one.  The counterparty
\* needs no more than the margin to react (claim and refund of the contract,
\* with the time locks of calculate_timelocks).
NeverOneSided ==
    ~ /\ DOMAIN htlcs = Leg
      /\ htlcs["target"].state = "Claimed" /\ htlcs["source"].state = "Refunded"

(* What the comments say, and the code does not do. *)

\* "Source HTLC MUST timeout AFTER target HTLC + margin": the recommended time
\* locks lie exactly the margin apart, and are refused by the check.
RecommendedLocksAreValid == TimelocksOrdered(swap.locks)

\* A terminal HTLC stays as it is.  refund accepts a claimed record once its
\* time lock is over.
TerminalIsFinal == [][IsTerminal(record.state) => record'.state = record.state]_vars

=============================================================================
