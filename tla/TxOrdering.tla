----------------------------- MODULE TxOrdering -----------------------------
(***************************************************************************)
(* qc-12: a batch of transactions becomes a schedule of groups that may    *)
(* execute in parallel.  A batch is a sequence of entries; the graph and   *)
(* the schedule know a transaction by its hash, and nothing rejects a hash *)
(* that a batch repeats.  The order of the hashes, which orders a group,   *)
(* is left out: a group is a set.                                          *)
(***************************************************************************)
EXTENDS Integers, Sequences, FiniteSets, SequencesExt

CONSTANTS
    Request,            \* senders and requests a handler may get
    AuthorizedSender,
    MaxBatchSize, MaxEdgeCount, ConflictThresholdPercent

VARIABLES
    batch,              \* the annotated transactions that are ordered
    phase,              \* "idle", "sorting", "done" or the error
    in_degree, queue,   \* of kahns_topological_sort
    groups              \* sequence of sets of hashes

vars == <<batch, phase, in_degree, queue, groups>>

Init ==
    /\ batch = <<>> /\ phase = "idle"
    /\ in_degree = <<>> /\ queue = {} /\ groups = <<>>

-----------------------------------------------------------------------------
(* The parts of a request are parallel lists, and the later ones may be      *)
(* shorter than the list of hashes.                                          *)
At(list, i, default) == IF i \in DOMAIN list THEN list[i] ELSE default

ToAnnotated(request) ==
    [i \in DOMAIN request.hashes |->
        [hash |-> request.hashes[i], sender |-> At(request.senders, i, 0),
         nonce |-> At(request.nonces, i, 0), reads |-> At(request.read_sets, i, {}), writes |-> At(request.write_sets, i, {})]]

DataConflict(t, u) ==
    \/ t.writes \cap u.writes # {}
    \/ t.writes \cap u.reads # {}
    \/ t.reads \cap u.writes # {}

Pairs(txs) == {<<i, j>> \in (DOMAIN txs) \X (DOMAIN txs) : i < j}

DetectConflicts(txs) ==
    {p \in Pairs(txs) : \/ txs[p[1]].sender = txs[p[2]].sender
                        \/ DataConflict(txs[p[1]], txs[p[2]])}

ConflictPercentage(conflicts, count) ==
    IF count <= 1 THEN 0 ELSE (conflicts * 100) \div ((count * (count - 1)) \div 2)

ShouldFallback(txs) ==
    ConflictPercentage(Cardinality(DetectConflicts(txs)), Len(txs)) > ConflictThresholdPercent

(* sort_by_key is stable: equal nonces stay in the order of the batch.       *)
NonceBefore(txs, i, j) ==
    /\ txs[i].sender = txs[j].sender
    /\ \/ txs[i].nonce < txs[j].nonce
       \/ txs[i].nonce = txs[j].nonce /\ i < j

NonceEdges(txs) ==
    {p \in (DOMAIN txs) \X (DOMAIN txs) :
        /\ NonceBefore(txs, p[1], p[2])
        /\ ~\E k \in DOMAIN txs : NonceBefore(txs, p[1], k) /\ NonceBefore(txs, k, p[2])}

(* Variant: edges between neighbours of the batch instead of all pairs.      *)
DataEdgesNeighbours(txs) ==
    {p \in Pairs(txs) : /\ txs[p[1]].sender # txs[p[2]].sender
                        /\ DataConflict(txs[p[1]], txs[p[2]]) /\ p[2] = p[1] + 1}

DataEdges(txs) ==
    {p \in Pairs(txs) : /\ txs[p[1]].sender # txs[p[2]].sender
                        /\ DataConflict(txs[p[1]], txs[p[2]])}

(* Edges join entries; the graph counts them at the hashes of the entries.   *)
Edges(txs) == NonceEdges(txs) \cup DataEdges(txs)

Nodes(txs) == {txs[i].hash : i \in DOMAIN txs}

EdgesInto(txs, h) == {e \in Edges(txs) : txs[e[2]].hash = h}

InDegree(txs) == [h \in Nodes(txs) |-> Cardinality(EdgesInto(txs, h))]

Sequential(txs) == [i \in DOMAIN txs |-> {txs[i].hash}]

-----------------------------------------------------------------------------
(* handle_order_transactions and order_transactions up to the sort; nothing  *)
(* is kept from one batch to the next, so a behaviour orders one.            *)
Order(sender_id, request) ==
    LET txs == ToAnnotated(request) IN
    /\ phase = "idle"
    /\ batch' = txs
    /\ phase' = CASE sender_id # AuthorizedSender -> "Unauthorized"
                  [] Len(txs) > MaxBatchSize -> "BatchTooLarge"
                  [] txs = <<>> -> "EmptyBatch"
                  [] ShouldFallback(txs) -> "done"
                  [] Cardinality(Edges(txs)) > MaxEdgeCount -> "TooManyEdges"
                  [] OTHER -> "sorting"
    /\ in_degree' = IF phase' = "sorting" THEN InDegree(txs) ELSE <<>>
    /\ queue' = IF phase' = "sorting" THEN {h \in Nodes(txs) : in_degree'[h] = 0} ELSE {}
    /\ groups' = IF phase' = "done" THEN Sequential(txs) ELSE <<>>

(* One round of the loop: the queue is the next group, and what its          *)
(* transactions were the last to block is the next queue.                    *)
ScheduleGroup ==
    /\ phase = "sorting" /\ queue # {}
    /\ groups' = Append(groups, queue)
    /\ in_degree' = [h \in Nodes(batch) |->
                        in_degree[h] - Cardinality({e \in EdgesInto(batch, h) : batch[e[1]].hash \in queue})]
    /\ queue' = {h \in Nodes(batch) : in_degree[h] > 0 /\ in_degree'[h] = 0}
    /\ UNCHANGED <<batch, phase>>

Scheduled == UNION Range(groups)

FinishSort ==
    /\ phase = "sorting" /\ queue = {}
    /\ phase' = IF Cardinality(Scheduled) < Cardinality(Nodes(batch)) THEN "CycleDetected" ELSE "done"
    /\ UNCHANGED <<batch, in_degree, queue, groups>>

Next == (\E r \in Request : Order(r.sender_id, r)) \/ ScheduleGroup \/ FinishSort

Spec == Init /\ [][Next]_vars

-----------------------------------------------------------------------------
(* Wherever the schedule has entry i, it is before where it has entry j.     *)
Precedes(i, j) ==
    \A g, h \in DOMAIN groups : (batch[i].hash \in groups[g] /\ batch[j].hash \in groups[h]) => g < h

(* What may execute concurrently is independent: a schedule has every        *)
(* transaction of its batch, no two transactions of a group have a sender or *)
(* a written location in common, and, unless the batch repeats a hash, a     *)
(* transaction is in one group only and transactions of different senders    *)
(* that conflict keep the order of the batch (kahns_topological_sort,        *)
(* ExecutionSchedule::sequential).                                           *)
GroupsAreIndependent ==
    phase = "done" =>
        /\ Scheduled = Nodes(batch)
        /\ \A g \in DOMAIN groups : \A p \in DetectConflicts(batch) :
               LET pair == {batch[p[1]].hash, batch[p[2]].hash}
               IN  Cardinality(pair) = 2 => ~(pair \subseteq groups[g])
        /\ Cardinality(Nodes(batch)) = Len(batch) =>
               /\ \A g, h \in DOMAIN groups : g # h => groups[g] \cap groups[h] = {}
               /\ \A p \in Pairs(batch) :
                      /\ batch[p[1]].sender # batch[p[2]].sender
                      /\ DataConflict(batch[p[1]], batch[p[2]])
                      => Precedes(p[1], p[2])

-----------------------------------------------------------------------------
(* What the comments say, and the code does not do.                          *)

(* "Nonce Order: same sender, must respect nonce ordering": the fallback     *)
(* keeps the order of the batch.                                             *)
NoncesInOrder ==
    phase = "done" =>
        \A i, j \in DOMAIN batch :
            (batch[i].sender = batch[j].sender /\ batch[i].nonce < batch[j].nonce) => Precedes(i, j)

(* "All transactions are scheduled exactly once" (domain/invariants.rs:104): *)
(* the fallback schedules a repeated hash as often as the batch has it.      *)
ScheduledOnce ==
    phase = "done" => \A g, h \in DOMAIN groups : g # h => groups[g] \cap groups[h] = {}

(* "The dependency graph must be a DAG": edges between senders follow the    *)
(* batch, edges of a sender its nonces, and together they may form a cycle.  *)
NeverCyclic == phase # "CycleDetected"
=============================================================================
