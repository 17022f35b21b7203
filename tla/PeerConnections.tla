-------------------------- MODULE PeerConnections --------------------------
(***************************************************************************)
(* qc-01: the address manager with its New and Tried tables, and the       *)
(* connection slots.  Each is owned by one caller and works on its own, so *)
(* each has a next-state relation of its own.  A unit of time is the ten   *)
(* minutes of uptime that add one to an eviction score, a unit of traffic  *)
(* the megabyte that does.                                                 *)
(***************************************************************************)
EXTENDS Integers, Sequences, FiniteSets, SequencesExt, PartialMaps

CONSTANTS
    Address, SubnetOf, Subnet, Source,   \* node ids, their /16, and who reports them
    Buckets, NewBucket, TriedBucket,     \* the two keyed hashes (external)
    BucketSize, MaxPerSubnetPerBucket, MaxPerSubnetTotal,
    MaxOutbound, MaxInbound, ProtectionUptime, ProtectionScore,
    Score, MaxTraffic, MaxPingFailures, MaxTime

VARIABLES
    new_table, tried_table,
    connections, clock

addressVars == <<new_table, tried_table>>
slotVars == <<connections, clock>>

EmptyTable == [entries |-> [b \in Buckets |-> <<>>],
               subnet_counts |-> [b \in Buckets |-> [s \in Subnet |-> 0]],
               subnet_totals |-> [s \in Subnet |-> 0],
               node_to_bucket |-> <<>>]

Init ==
    /\ new_table = EmptyTable /\ tried_table = EmptyTable
    /\ connections = <<>> /\ clock = 0

-----------------------------------------------------------------------------
(* AddressTable and AddressBucket.                                           *)

InTable(t, n) == n \in DOMAIN t.node_to_bucket

CanAccept(t, b, n) ==
    /\ Len(t.entries[b]) < BucketSize
    /\ t.subnet_counts[b][SubnetOf[n]] < MaxPerSubnetPerBucket

AddEntry(t, b, n) ==
    [entries |-> [t.entries EXCEPT ![b] = Append(@, n)],
     subnet_counts |-> [t.subnet_counts EXCEPT ![b][SubnetOf[n]] = @ + 1],
     subnet_totals |-> [t.subnet_totals EXCEPT ![SubnetOf[n]] = @ + 1],
     node_to_bucket |-> Store(t.node_to_bucket, n, b)]

(* Variant: the index keeps the address that left.                           *)
RemoveEntryKeepsIndex(t, b, n) ==
    [entries |-> [t.entries EXCEPT ![b] = SelectSeq(@, LAMBDA e : e # n)],
     subnet_counts |-> [t.subnet_counts EXCEPT ![b][SubnetOf[n]] = @ - 1],
     subnet_totals |-> [t.subnet_totals EXCEPT ![SubnetOf[n]] = @ - 1],
     node_to_bucket |-> t.node_to_bucket]

RemoveEntry(t, b, n) ==
    [entries |-> [t.entries EXCEPT ![b] = SelectSeq(@, LAMBDA e : e # n)],
     subnet_counts |-> [t.subnet_counts EXCEPT ![b][SubnetOf[n]] = @ - 1],
     subnet_totals |-> [t.subnet_totals EXCEPT ![SubnetOf[n]] = @ - 1],
     node_to_bucket |-> Without(t.node_to_bucket, {n})]

AddNew(n, source) ==
    LET b == NewBucket[source, SubnetOf[n]] IN
    /\ ~InTable(tried_table, n) /\ ~InTable(new_table, n)
    /\ new_table.subnet_totals[SubnetOf[n]] + tried_table.subnet_totals[SubnetOf[n]] < MaxPerSubnetTotal
    /\ CanAccept(new_table, b, n)
    /\ new_table' = AddEntry(new_table, b, n)
    /\ UNCHANGED <<tried_table, connections, clock>>

(* Entries are promoted in the order of their last_success, so the oldest    *)
(* entry of a Tried bucket is its first.                                     *)
PromoteToTried(n) ==
    LET b == TriedBucket[SubnetOf[n]]
        entries == tried_table.entries[b]
        accepted == CanAccept(tried_table, b, n)
        room == IF accepted \/ entries = <<>> THEN tried_table
                ELSE RemoveEntry(tried_table, b, Head(entries))
    IN  /\ InTable(new_table, n)
        /\ new_table' = RemoveEntry(new_table, new_table.node_to_bucket[n], n)
        /\ tried_table' = IF accepted \/ entries # <<>> THEN AddEntry(room, b, n) ELSE tried_table
        /\ UNCHANGED <<connections, clock>>

AddressNext ==
    \/ \E n \in Address, s \in Source : AddNew(n, s)
    \/ \E n \in Address : PromoteToTried(n)

-----------------------------------------------------------------------------
(* ConnectionSlots.                                                          *)

Connected == DOMAIN connections
Of(direction) == {n \in Connected : connections[n].direction = direction}

Connection(direction, score) ==
    [direction |-> direction, connected_at |-> clock, score |-> score, traffic |-> 0, ping_failures |-> 0]

IsProtected(c) == clock - c.connected_at >= ProtectionUptime \/ c.score >= ProtectionScore
EvictionScore(c) == c.score + (clock - c.connected_at) + c.traffic - 2 * c.ping_failures

(* Variant: a connection we dialled is a candidate like any other.           *)
EvictionCandidatesAny == {n \in Connected : ~IsProtected(connections[n])}

EvictionCandidates == {n \in Of("Inbound") : ~IsProtected(connections[n])}

(* Which of several worst ones goes is the order of a hash map.              *)
FindEvictionCandidate(score) ==
    {n \in EvictionCandidates :
        /\ \A m \in EvictionCandidates : EvictionScore(connections[n]) <= EvictionScore(connections[m])
        /\ score > EvictionScore(connections[n])}

ReserveOutbound(n) ==
    /\ n \notin Connected
    /\ Cardinality(Of("Outbound")) < MaxOutbound
    /\ connections' = Store(connections, n, Connection("Outbound", 0))
    /\ UNCHANGED <<clock, new_table, tried_table>>

TryAcceptInbound(n, score) ==
    /\ n \notin Connected
    /\ IF Cardinality(Of("Inbound")) < MaxInbound
       THEN connections' = Store(connections, n, Connection("Inbound", score))
       ELSE \E victim \in FindEvictionCandidate(score) :
                connections' = Store(Without(connections, {victim}), n, Connection("Inbound", score))
    /\ UNCHANGED <<clock, new_table, tried_table>>

Disconnect(n) ==
    /\ n \in Connected
    /\ connections' = Without(connections, {n})
    /\ UNCHANGED <<clock, new_table, tried_table>>

UpdateScore(n, score) ==
    /\ n \in Connected
    /\ connections' = [connections EXCEPT ![n].score = score]
    /\ UNCHANGED <<clock, new_table, tried_table>>

RecordBytes(n) ==
    /\ n \in Connected /\ connections[n].traffic < MaxTraffic
    /\ connections' = [connections EXCEPT ![n].traffic = @ + 1]
    /\ UNCHANGED <<clock, new_table, tried_table>>

RecordPingFailure(n) ==
    /\ n \in Connected /\ connections[n].ping_failures < MaxPingFailures
    /\ connections' = [connections EXCEPT ![n].ping_failures = @ + 1]
    /\ UNCHANGED <<clock, new_table, tried_table>>

Tick ==
    /\ clock < MaxTime
    /\ clock' = clock + 1
    /\ UNCHANGED <<connections, new_table, tried_table>>

SlotNext ==
    \/ \E n \in Address : ReserveOutbound(n) \/ Disconnect(n) \/ RecordBytes(n) \/ RecordPingFailure(n)
    \/ \E n \in Address, s \in Score : TryAcceptInbound(n, s) \/ UpdateScore(n, s)
    \/ Tick

-----------------------------------------------------------------------------
CountsAgree(t) ==
    LET nodes == UNION {Range(t.entries[b]) : b \in Buckets}
        From(s, b) == {n \in Range(t.entries[b]) : SubnetOf[n] = s} IN
    /\ DOMAIN t.node_to_bucket = nodes
    /\ \A n \in nodes : n \in Range(t.entries[t.node_to_bucket[n]])
    /\ \A b \in Buckets :
        /\ Cardinality(Range(t.entries[b])) = Len(t.entries[b]) /\ Len(t.entries[b]) <= BucketSize
        /\ \A s \in Subnet : t.subnet_counts[b][s] = Cardinality(From(s, b))
    /\ \A s \in Subnet : t.subnet_totals[s] = Cardinality({n \in nodes : SubnetOf[n] = s})

(* An address is in one bucket of one table, and the index and the counters  *)
(* the limits are read from describe the buckets, whatever was promoted or   *)
(* evicted (add_new, promote_to_tried).                                      *)
AddressesAgree ==
    /\ CountsAgree(new_table) /\ CountsAgree(tried_table)
    /\ \A n \in Address : ~(InTable(new_table, n) /\ InTable(tried_table, n))
    /\ \A s \in Subnet : new_table.subnet_totals[s] + tried_table.subnet_totals[s] <= MaxPerSubnetTotal

(* "Outbound slots are SACRED - never displaced by inbound": when somebody   *)
(* connects, whoever loses a slot was an inbound peer without protection,    *)
(* and neither kind of slot is overrun (try_accept_inbound).                 *)
OutboundIsSacred == [][
    /\ Connected' \ Connected # {} =>
           \A n \in Connected \ Connected' :
               connections[n].direction = "Inbound" /\ ~IsProtected(connections[n])
    /\ Cardinality(Of("Outbound")') <= MaxOutbound
    /\ Cardinality(Of("Inbound")') <= MaxInbound]_slotVars

-----------------------------------------------------------------------------
(* What the comments say, and the code does not do.                          *)

(* "Maximum entries from same /16 subnet per bucket": a promotion into a     *)
(* bucket at that limit evicts the oldest entry, of whichever subnet.        *)
SubnetLimitPerBucket ==
    \A b \in Buckets, s \in Subnet : tried_table.subnet_counts[b][s] <= MaxPerSubnetPerBucket
=============================================================================
