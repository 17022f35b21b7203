---------------------------- MODULE TxSelection ----------------------------
(***************************************************************************)
(* TransactionSelector::select_transactions of qc-17 (domain/services.rs): *)
(* a priority queue holds the next transaction of every sender, and each   *)
(* iteration takes one of the highest price.  The simulation of a          *)
(* transaction is a constant of it.                                        *)
(***************************************************************************)
EXTENDS Integers, Sequences, FiniteSets, FiniteSetsExt, SequencesExt

CONSTANTS
    Candidate,           \* records: id, from, nonce, gas_price, gas_limit, success, gas_used
    MinGasPrice, GasLimit,
    Wrap,                \* 2^64: u64 addition wraps here
    MaxCandidates        \* bound of the model

VARIABLES
    sender_txs,          \* sender -> its transactions by nonce
    pq,                  \* sender -> index of the transaction of it in the queue, 0 for none
    selected, total_gas

vars == <<sender_txs, pq, selected, total_gas>>

Sender == {c.from : c \in Candidate}

(* sort_by_key is stable: equal nonces stay in the order of arrival, which   *)
(* is any.                                                                   *)
SortedByNonce(txs) ==
    {s \in SetToSeqs(txs) : \A i, j \in 1..Len(s) : i < j => s[i].nonce <= s[j].nonce}

Init ==
    /\ \E pool \in SUBSET Candidate :
        /\ Cardinality(pool) <= MaxCandidates
        /\ LET offered(s) == {c \in pool : c.from = s /\ c.gas_price >= MinGasPrice} IN
           sender_txs \in {f \in [Sender -> UNION {SortedByNonce(offered(s)) : s \in Sender}] :
                               \A s \in Sender : f[s] \in SortedByNonce(offered(s))}
    /\ pq = [s \in Sender |-> IF sender_txs[s] = <<>> THEN 0 ELSE 1]
    /\ selected = <<>> /\ total_gas = 0

NextOf(s) == sender_txs[s][pq[s]]

Queued == {s \in Sender : pq[s] # 0}

\* Variant: the first sender that is found.
AnyHead == Queued

BestHeads == {s \in Queued : \A other \in Queued : NextOf(s).gas_price >= NextOf(other).gas_price}

\* Variant: a block is not filled to its limit.
FitsBelow(tx) == tx.success /\ total_gas + tx.gas_limit < GasLimit

Fits(tx) ==
    /\ (total_gas + tx.gas_limit) % Wrap <= GasLimit
    /\ tx.success /\ total_gas + tx.gas_used <= GasLimit

\* Variant: a gap in the nonces is not noticed.
FollowsAnyhow(s) == pq[s] < Len(sender_txs[s])

Follows(s) ==
    /\ pq[s] < Len(sender_txs[s])
    /\ sender_txs[s][pq[s] + 1].nonce = NextOf(s).nonce + 1

Select(s) ==
    /\ s \in BestHeads /\ Fits(NextOf(s))
    /\ selected' = Append(selected, NextOf(s))
    /\ total_gas' = total_gas + NextOf(s).gas_used
    /\ pq' = [pq EXCEPT ![s] = IF Follows(s) THEN @ + 1 ELSE 0]
    /\ UNCHANGED sender_txs

(* A transaction that does not fit or fails ends the turn of its sender. *)
Skip(s) ==
    /\ s \in BestHeads /\ ~Fits(NextOf(s))
    /\ pq' = [pq EXCEPT ![s] = 0]
    /\ UNCHANGED <<sender_txs, selected, total_gas>>

Next == \E s \in Sender : Select(s) \/ Skip(s)

Spec == Init /\ [][Next]_vars

-----------------------------------------------------------------------------

Of(s) == SelectSeq(selected, LAMBDA tx : tx.from = s)

(* The selected transactions fit in a block, although the sum of the limits  *)
(* may wrap around, and those of a sender are taken in the order of their    *)
(* nonces, without a gap and without a repetition, from the lowest one the   *)
(* price filter left of it.  Whether that is the nonce the account expects   *)
(* is not looked at: a lower one may have been too cheap.                    *)
SelectionIsSequential ==
    /\ MapThenSumSet(LAMBDA i : selected[i].gas_used, 1..Len(selected)) <= GasLimit
    /\ \A s \in Sender : \A i \in 1..Len(Of(s)) : Of(s)[i].nonce = sender_txs[s][1].nonce + i - 1

(* The selection is maximal: when the queue is empty, the transaction that   *)
(* would continue a sender fails, or does not fit in what is left of the     *)
(* block, or its nonce does not follow.  Whatever was passed over while the  *)
(* block was emptier could not be added to the full one.                     *)
NothingLeftOut ==
    Queued = {} =>
        \A s \in Sender :
            LET n == Len(Of(s)) IN
            n < Len(sender_txs[s]) =>
                LET tx == sender_txs[s][n + 1] IN
                \/ n > 0 /\ tx.nonce # Of(s)[n].nonce + 1
                \/ ~tx.success
                \/ total_gas + Max({tx.gas_limit, tx.gas_used}) > GasLimit

(* A transaction comes after a cheaper one only if an earlier transaction of *)
(* its own sender held it back until then.                                   *)
FeePriority ==
    \A i, j \in 1..Len(selected) :
        i < j /\ selected[j].gas_price > selected[i].gas_price =>
            \E k \in i..j-1 : /\ selected[k].from = selected[j].from
                              /\ selected[k].gas_price <= selected[i].gas_price

(* Transactions are ordered by price alone. *)
FeeOrder ==
    \A i \in 2..Len(selected) : selected[i].gas_price <= selected[i-1].gas_price

=============================================================================
