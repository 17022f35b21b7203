---------------------------- MODULE RoutingTable ----------------------------
(***************************************************************************)
(* qc-01: the Kademlia routing table.  A peer that asks to join is staged, *)
(* its identity is verified by another subsystem, and it enters its        *)
(* bucket, or challenges the oldest peer of a full one.  Answers come late *)
(* or never, and maintenance calls come at any time.  The distance to the  *)
(* local node appears as the bucket of a node.                             *)
(***************************************************************************)
EXTENDS Integers, Sequences, FiniteSets, SequencesExt

CONSTANTS
    Node, Local,                    \* node ids, and the local one among them
    Bucket, BucketOf,               \* calculate_bucket_index
    SubnetOf,                       \* is_same_subnet: equal subnets
    K, MaxPendingPeers, MaxPeersPerSubnet,
    VerificationTimeout, ChallengeTimeout, BanDuration,
    MaxTime

VARIABLES
    buckets,                        \* bucket -> peers, the oldest first
    pending_insertion,              \* bucket -> the challenge, or NoChallenge
    pending_verification,           \* staged node -> deadline
    banned_until,                   \* node -> end of its ban, 0 without one
    requested,                      \* nodes whose verification was requested (external)
    verified,                       \* nodes whose identity was found valid (history)
    now

vars == <<buckets, pending_insertion, pending_verification, banned_until, requested, verified, now>>

NoChallenge == [candidate |-> Local, challenged |-> Local, deadline |-> 0]

Init ==
    /\ buckets = [b \in Bucket |-> <<>>]
    /\ pending_insertion = [b \in Bucket |-> NoChallenge]
    /\ pending_verification = [n \in {} |-> 0]
    /\ banned_until = [n \in Node |-> 0]
    /\ requested = {} /\ verified = {}
    /\ now = 0

Staged == DOMAIN pending_verification
InTable(n) == n \in Range(buckets[BucketOf[n]])
IsBanned(n) == banned_until[n] > now
Unstage(n) == [m \in Staged \ {n} |-> pending_verification[m]]
\* remove_peer takes out the first entry of the node.
Without(peers, n) == RemoveFirst(peers, n)

-----------------------------------------------------------------------------
(* BootstrapHandler::handle: the proof of work is valid, the peer is staged, *)
(* and its verification is requested unless the bus refuses.                 *)
MayStage(n) ==
    /\ Cardinality(Staged) < MaxPendingPeers
    /\ n # Local
    /\ ~IsBanned(n)
    /\ n \notin Staged
    /\ ~InTable(n)

StagePeer(n) ==
    /\ MayStage(n)
    /\ pending_verification' = [m \in Staged \cup {n} |->
                                   IF m = n THEN now + VerificationTimeout ELSE pending_verification[m]]
    /\ requested' \in {requested, requested \cup {n}}
    /\ UNCHANGED <<buckets, pending_insertion, banned_until, verified, now>>

(* Variant: the answer of the verifier is not looked at.                     *)
AcceptsAny(n, identity_valid) == n \in Staged

Accepts(n, identity_valid) == identity_valid /\ n \in Staged

SubnetIsFull(n) ==
    Cardinality({i \in DOMAIN buckets[BucketOf[n]] :
                    SubnetOf[buckets[BucketOf[n]][i]] = SubnetOf[n]}) >= MaxPeersPerSubnet

(* The answer of the verifier, also for a node that is no longer staged.     *)
OnVerificationResult(n, identity_valid) ==
    LET b == BucketOf[n]
        enters == Accepts(n, identity_valid) /\ ~SubnetIsFull(n)
        room == Len(buckets[b]) < K
        challenge == pending_insertion[b] = NoChallenge /\ buckets[b] # <<>>
    IN  /\ n \in requested
        /\ requested' = requested \ {n}
        /\ pending_verification' = Unstage(n)
        /\ buckets' = IF enters /\ room THEN [buckets EXCEPT ![b] = Append(@, n)] ELSE buckets
        /\ pending_insertion' =
               IF enters /\ ~room /\ challenge
               THEN [pending_insertion EXCEPT ![b] =
                        [candidate |-> n, challenged |-> Head(buckets[b]), deadline |-> now + ChallengeTimeout]]
               ELSE pending_insertion
        /\ verified' = IF identity_valid THEN verified \cup {n} ELSE verified
        /\ UNCHANGED <<banned_until, now>>

-----------------------------------------------------------------------------
(* The challenged peer answers, or does not in time.                         *)

Replaced(peers, challenge) == Append(Without(peers, challenge.challenged), challenge.candidate)

OnChallengeResponse(b, is_alive) ==
    LET challenge == pending_insertion[b] IN
    /\ challenge # NoChallenge
    /\ buckets' = [buckets EXCEPT ![b] =
           IF ~is_alive THEN Replaced(@, challenge)
           ELSE IF challenge.challenged \in Range(@)
           THEN Append(Without(@, challenge.challenged), challenge.challenged)
           ELSE @]
    /\ pending_insertion' = [pending_insertion EXCEPT ![b] = NoChallenge]
    /\ UNCHANGED <<pending_verification, banned_until, requested, verified, now>>

Expired(b) == pending_insertion[b] # NoChallenge /\ now >= pending_insertion[b].deadline

CheckExpiredChallenges ==
    /\ \E b \in Bucket : Expired(b)
    /\ buckets' = [b \in Bucket |-> IF Expired(b) THEN Replaced(buckets[b], pending_insertion[b]) ELSE buckets[b]]
    /\ pending_insertion' = [b \in Bucket |-> IF Expired(b) THEN NoChallenge ELSE pending_insertion[b]]
    /\ UNCHANGED <<pending_verification, banned_until, requested, verified, now>>

-----------------------------------------------------------------------------
GcExpired ==
    /\ pending_verification' =
           [n \in {m \in Staged : pending_verification[m] > now} |-> pending_verification[n]]
    /\ banned_until' = [n \in Node |-> IF IsBanned(n) THEN banned_until[n] ELSE 0]
    /\ UNCHANGED <<buckets, pending_insertion, requested, verified, now>>

BanPeer(n) ==
    /\ buckets' = [buckets EXCEPT ![BucketOf[n]] = Without(@, n)]
    /\ pending_verification' = Unstage(n)
    /\ banned_until' = [banned_until EXCEPT ![n] = now + BanDuration]
    /\ UNCHANGED <<pending_insertion, requested, verified, now>>

RemovePeer(n) ==
    /\ InTable(n)
    /\ buckets' = [buckets EXCEPT ![BucketOf[n]] = Without(@, n)]
    /\ UNCHANGED <<pending_insertion, pending_verification, banned_until, requested, verified, now>>

Tick ==
    /\ now < MaxTime
    /\ now' = now + 1
    /\ UNCHANGED <<buckets, pending_insertion, pending_verification, banned_until, requested, verified>>

Next ==
    \/ \E n \in Node : StagePeer(n) \/ BanPeer(n) \/ RemovePeer(n)
    \/ \E n \in Node, valid \in BOOLEAN : OnVerificationResult(n, valid)
    \/ \E b \in Bucket, alive \in BOOLEAN : OnChallengeResponse(b, alive)
    \/ CheckExpiredChallenges \/ GcExpired \/ Tick

Spec == Init /\ [][Next]_vars

Listed == UNION {Range(buckets[b]) : b \in Bucket}
Candidates == {pending_insertion[b].candidate : b \in {c \in Bucket : pending_insertion[c] # NoChallenge}}

(* Nobody skips the queue: the peers in the table, and those that challenge  *)
(* one, were verified and are not the local node, and the staging area stays *)
(* in its bound (stage_peer, on_verification_result).                        *)
ListedAreVerified ==
    /\ Listed \cup Candidates \subseteq verified \ {Local}
    /\ Cardinality(Staged) <= MaxPendingPeers

-----------------------------------------------------------------------------
(* What the comments say, and the code does not do.                          *)

(* "INVARIANT-1: Check bucket capacity": a peer that leaves while it is      *)
(* challenged makes room for another one, and the candidate still follows.   *)
BucketsAreBounded == \A b \in Bucket : Len(buckets[b]) <= K

(* "INVARIANT-4: Cannot add banned peer": a ban does not end the challenge   *)
(* the banned peer waits on.                                                 *)
BannedAreNotListed == \A n \in Listed : ~IsBanned(n)

(* A candidate that is staged again may enter its bucket twice; stage_peer   *)
(* looks for duplicates in the staging area and the bucket only.             *)
ListedOnce == \A b \in Bucket : IsInjective(buckets[b])
=============================================================================
