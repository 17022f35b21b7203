----------------------------- MODULE MCNetwork ------------------------------
(***************************************************************************)
(* What a node has towards its peers: the routing table, the address       *)
(* tables and the connection slots of qc-01, the relay of blocks of qc-05, *)
(* the light client of qc-13 and the filters of qc-07 that light clients   *)
(* use.  They share no state: a behaviour is one of a single part.         *)
(***************************************************************************)
EXTENDS Integers, Sequences, TLC

VARIABLES
    part, now,
    buckets, pending_insertion, pending_verification, banned_until, requested, verified,
    new_table, tried_table, connections, clock,
    cache, insertion_order, peer_states, call, submitted, propagated,
    chain, synced, network_height, request, responses, faulty, height, included,
    filter, inserted, retweaked, counters, added, saturated, coded, scripts,
    active_filters, watched, rate_limits, current_block, last_update

tableVars ==
    <<buckets, pending_insertion, pending_verification, banned_until, requested, verified>>
addressVars == <<new_table, tried_table>>
slotVars == <<connections, clock>>
relayVars == <<cache, insertion_order, peer_states, call, submitted, propagated>>
lightVars == <<chain, synced, network_height, request, responses, faulty, height, included>>
filterVars ==
    <<filter, inserted, retweaked, counters, added, saturated, coded, scripts,
      active_filters, watched, rate_limits, current_block, last_update>>

(* Three remote nodes for a bucket of one; two of them in one subnet.        *)
Table == INSTANCE RoutingTable
    WITH Node <- 0..3, Local <- 0, Bucket <- {0}, BucketOf <- [n \in 0..3 |-> 0],
         SubnetOf <- [n \in 0..3 |-> n % 2], K <- 1, MaxPendingPeers <- 2, MaxPeersPerSubnet <- 2,
         VerificationTimeout <- 1, ChallengeTimeout <- 1, BanDuration <- 1, MaxTime <- 1

(* Addresses: four, three of them in one subnet, which may have two; two     *)
(* buckets of two.  One outbound slot and two inbound ones.                  *)
Addresses == INSTANCE PeerConnections
    WITH Address <- 1..4, SubnetOf <- [n \in 1..4 |-> IF n = 4 THEN "y" ELSE "x"],
         Subnet <- {"x", "y"}, Source <- {"r", "s"}, Buckets <- {0, 1},
         NewBucket <- [p \in {"r", "s"} \X {"x", "y"} |-> IF p[1] = "r" THEN 0 ELSE 1],
         TriedBucket <- [s \in {"x", "y"} |-> 0],
         BucketSize <- 2, MaxPerSubnetPerBucket <- 1, MaxPerSubnetTotal <- 2,
         MaxOutbound <- 1, MaxInbound <- 2, ProtectionUptime <- 1, ProtectionScore <- 2,
         Score <- {0, 2}, MaxTraffic <- 1, MaxPingFailures <- 1, MaxTime <- 1

(* Announcements of one block, a block that is not genuine, one that cannot  *)
(* be parsed; two calls at a time and a cache of one.                        *)
Sent(kind, hash, parses, genuine) ==
    [kind |-> kind, hash |-> hash, fits |-> TRUE, parses |-> parses, genuine |-> genuine]
Messages ==
    {Sent("announcement", "a", TRUE, TRUE), Sent("compact", "a", TRUE, TRUE),
     Sent("full", "a", TRUE, TRUE), Sent("full", "b", TRUE, FALSE),
     Sent("compact", "b", FALSE, TRUE)}

Blocks == INSTANCE BlockPropagation
    WITH Hash <- {"a", "b"}, Peer <- {"p"}, Task <- {1, 2}, Message <- Messages,
         MaxAnnouncements <- 2, SeenCacheSize <- 1, MaxTime <- 1

(* Four full nodes, of which one or all are faulty and three have to answer; *)
(* a chain of three blocks with three and one transactions, and a header     *)
(* beside it at each height.                                                 *)
BlockTxs == [b \in {"g", "m1", "m2", "f1", "f2"} |->
    CASE b = "m1" -> <<<<"t">>, <<"u">>, <<"v">>>> [] b = "m2" -> <<<<"w">>>> [] OTHER -> <<>>]

Trees == INSTANCE LightClient
    WITH NodeCount <- 3, FaultySets <- {}, MinFullNodes <- 3, HeaderBatchSize <- 2,
         RequiredConfirmations <- 1, Main <- <<>>, Forged <- {}, Txs <- BlockTxs, Checkpoints <- {},
         call <- request, verified <- included

HeaderOf(hash, parent, number, timestamp) ==
    [hash |-> hash, parent |-> parent, height |-> number, timestamp |-> timestamp,
     merkle_root |-> Trees!ComputeMerkleRoot(BlockTxs[hash])]
MainChain == <<HeaderOf("g", "0", 0, 0), HeaderOf("m1", "g", 1, 1), HeaderOf("m2", "m1", 2, 2)>>
Others == {HeaderOf("f1", "g", 1, 1), HeaderOf("f2", "m1", 2, 1)}

Light == INSTANCE LightClient
    WITH NodeCount <- 4, FaultySets <- {{4}, {1, 2, 3, 4}}, MinFullNodes <- 3, HeaderBatchSize <- 2,
         RequiredConfirmations <- 1, Main <- MainChain, Forged <- Others, Txs <- BlockTxs,
         Checkpoints <- {[height |-> 1, hash |-> "f1"]},
         call <- request, verified <- included

(* Four elements over five positions: b hashes twice to one position, and    *)
(* the others overlap.  b and c have one hash in the Golomb-coded set.  One  *)
(* transaction of the block creates the contract c, the other logs d.        *)
ElementPositions ==
    [t \in {0, 1} |-> ("a" :> <<t, (3 + t) % 5>>) @@ ("b" :> <<2 + t, 2 + t>>)
                      @@ ("c" :> <<(3 + t) % 5, 1 + t>>) @@ ("d" :> <<4, 0>>)]
BlockTransactions ==
    {[from |-> "c", to |-> "b", created |-> "none", logs |-> {"d"}],
     [from |-> "b", to |-> "none", created |-> "c", logs |-> {}]}
Membership == INSTANCE MembershipFilters
    WITH Element <- {"a", "b", "c", "d"}, Tweak <- {0, 1}, Positions <- ElementPositions, Size <- 5,
         MaxCounter <- 2, MaxRun <- 2, MaxAdds <- 3, GolombP <- 2,
         HashOf <- ("a" :> 3) @@ ("b" :> 11) @@ ("c" :> 11) @@ ("d" :> 6),
         Client <- {"x"}, Transaction <- BlockTransactions, Noise <- {"a"}, MaxElements <- 2,
         RateLimitBlocks <- 3, MaxHeight <- 7

MCInit ==
    /\ part \in {"table", "addresses", "slots", "relay", "light",
                 "bloom", "counting", "coded", "clients"}
    /\ Table!Init /\ Addresses!Init /\ Blocks!Init /\ Light!Init /\ Membership!Init
    /\ part # "light" => faulty = {4}
    /\ part # "bloom" => \A w \in DOMAIN filter : filter[w].tweak = 0

MCNext ==
    /\ UNCHANGED part
    /\ \/ /\ part = "table" /\ Table!Next
          /\ UNCHANGED <<addressVars, slotVars, relayVars, lightVars, filterVars>>
       \/ /\ part = "addresses" /\ Addresses!AddressNext
          /\ UNCHANGED <<now, tableVars, relayVars, lightVars, filterVars>>
       \/ /\ part = "slots" /\ Addresses!SlotNext
          /\ UNCHANGED <<now, tableVars, relayVars, lightVars, filterVars>>
       \/ /\ part = "relay" /\ Blocks!Next
          /\ UNCHANGED <<tableVars, addressVars, slotVars, lightVars, filterVars>>
       \/ /\ part = "light" /\ Light!Next
          /\ UNCHANGED <<now, tableVars, addressVars, slotVars, relayVars, filterVars>>
       \/ /\ \/ part = "bloom" /\ Membership!BloomNext
             \/ part = "counting" /\ Membership!CountingNext
             \/ part = "coded" /\ Membership!CodedNext
             \/ part = "clients" /\ Membership!ClientNext
          /\ UNCHANGED <<now, tableVars, addressVars, slotVars, relayVars, lightVars>>

MCSpec ==
    MCInit /\ [][MCNext]_<<part, now, tableVars, addressVars, slotVars, relayVars, lightVars,
                           filterVars>>

(* No step and no property of the run reads how often a block was submitted, *)
(* or the order of the answers to a light client.                            *)
WhatIsRead ==
    <<part, now, tableVars, addressVars, slotVars, cache, insertion_order, peer_states, call,
      {h \in DOMAIN submitted : submitted[h] > 0}, propagated, filterVars, chain, synced,
      network_height, request, faulty, height, included,
      responses.asked, [a \in Light!Given |-> Light!Count(responses.answers, a)]>>

(* A listed peer has had its identity verified (see RoutingTable), the      *)
(* address tables and their index agree (see PeerConnections), and so do    *)
(* the cache of seen blocks and its order (see BlockPropagation).           *)
TablesAgree == Table!ListedAreVerified /\ Addresses!AddressesAgree /\ Blocks!SeenCacheIsBounded

(* No inbound connection displaces an outbound one (see PeerConnections).   *)
OutboundIsSacred == Addresses!OutboundIsSacred


(* With fewer faulty nodes than have to agree when the fewest nodes answer,  *)
(* the headers of a light client are those of the chain; and a transaction   *)
(* it calls verified is one of its block (see LightClient).                  *)
LightIsRight == Light!HeadersAreOnChain /\ Light!VerifiedIsIncluded

(* No filter of qc-07 forgets a member, unless its tweak changed or one of  *)
(* its counters was full, and updates that pass are blocks apart (see       *)
(* MembershipFilters).  In the other parts the filters stay as they were at *)
(* first.                                                                   *)
FiltersAreSound ==
    part \in {"bloom", "counting", "coded", "clients"} =>
        Membership!FiltersKeepMembers /\ Membership!WindowsFollowUpdates
=============================================================================
