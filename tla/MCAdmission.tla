---------------------------- MODULE MCAdmission ----------------------------
(***************************************************************************)
(* What messages and requests pass on their way in: the nonce caches of    *)
(* the bus and of the message verifier, the cuckoo filter with deletions,  *)
(* the replay cache made of two such filters, the request path, the        *)
(* WebSocket sessions and the rate limiter of the API gateway.  They share *)
(* no state: a behaviour is one of a single part, and the others stay as   *)
(* they are.                                                               *)
(***************************************************************************)
EXTENDS ReplayProtection

CONSTANTS
    n1, n2, x1, x2, x3, x4,
    FingerprintOf, HomeOf, FingerprintHash, BucketCount, EntriesPerBucket, MaxKicks,
    MaxHeld, MaxRefused, MaxOverflowed, WindowDuration, CacheMaxTime,
    r1, r2, Timeout, OpenTimeout, FailureThreshold, SuccessThreshold

VARIABLES
    part,
    filter, held, refused,
    current, previous, window_start, clock, recorded, readmitted, overflowed,
    caller, timer, response, pending, outstanding, sent, circuit, streak,
    session, subscriptions, by_connection, id_counter, budget, time, buckets, unforgotten, tick

(* n1 is used by a message of second 7 and again by one of second 12; a     *)
(* message with n2 has a bad signature, another one a good one.             *)
MCMessage ==
    {[nonce |-> n1, timestamp |-> 7, authentic |-> TRUE],
     [nonce |-> n1, timestamp |-> 12, authentic |-> TRUE],
     [nonce |-> n2, timestamp |-> 8, authentic |-> FALSE],
     [nonce |-> n2, timestamp |-> 9, authentic |-> TRUE]}

(* x1 and x2 share a fingerprint and the same pair of buckets, x3 meets      *)
(* them in bucket 1, x4 is alone in its pair.  The nonces n1 and n2 of the   *)
(* replay cache meet in the buckets 0 and 2.                                 *)
Known == {x1, x2, x3, x4, n1, n2}
MCFingerprint ==
    [x \in Known |-> CASE x \in {x1, x2} -> 2 [] x = x3 -> 3 [] x = x4 -> 5 [] x = n1 -> 1 [] OTHER -> 4]
MCHome == [x \in Known |-> CASE x \in {x1, n1} -> 0 [] x \in {x2, x3} -> 1 [] OTHER -> 2]
MCHash == [fp \in 0..5 |-> CASE fp \in {0, 3} -> 3 [] fp \in {1, 4} -> 2 [] OTHER -> 1]

Filter == INSTANCE CuckooFilter WITH
    Item <- {x1, x2, x3, x4}, Nonce <- {n1, n2}, MaxTime <- CacheMaxTime, now <- clock
Requests == INSTANCE Gateway WITH Request <- {r1, r2}

(* Two connections, on which a text may carry a subscription; three          *)
(* subscriptions in all, three messages in a window of one second.           *)
Periods == [kind \in {"read", "write"} |-> IF kind = "read" THEN 1 ELSE 2]
Sessions == INSTANCE GatewayGuards
    WITH Connection <- {"c1", "c2"}, MaxPerConnection <- 2, RateLimit <- 3, Window <- 1,
         IdleTimeout <- 0, MaxIds <- 3, Client <- {"a", "w"}, Whitelist <- {"w"}, BurstSize <- 3,
         WriteShare <- 2, DefaultWriteBurst <- 5, Period <- Periods, MaxAge <- 3, MaxTime <- 2

(* A client and one on the white list; the limiter forgets the idle after 3  *)
(* seconds, and a write token takes 2 seconds to come back.                  *)
Limiter == INSTANCE GatewayGuards
    WITH Connection <- {"c1", "c2"}, MaxPerConnection <- 2, RateLimit <- 3, Window <- 1,
         IdleTimeout <- 0, MaxIds <- 3, Client <- {"a", "w"}, Whitelist <- {"w"}, BurstSize <- 3,
         WriteShare <- 2, DefaultWriteBurst <- 5, Period <- Periods, MaxAge <- 3, MaxTime <- 9

filterVars == <<filter, held, refused>>
cacheVars == <<current, previous, window_start, clock, recorded, readmitted, overflowed>>
requestVars == <<caller, timer, response, pending, outstanding, sent, circuit, streak>>

sessionVars == <<session, subscriptions, by_connection, id_counter, budget, time>>
limiterVars == <<buckets, unforgotten, tick>>

MCInit ==
    /\ part \in {"nonces", "filter", "cache", "requests", "sessions", "limiter"}
    /\ Init /\ Filter!FilterInit /\ Filter!CacheInit /\ Requests!Init /\ Sessions!Init

MCNext ==
    /\ UNCHANGED part
    /\ \/ part = "nonces" /\ Next /\ UNCHANGED <<filterVars, cacheVars, requestVars, sessionVars, limiterVars>>
       \/ part = "filter" /\ Filter!FilterNext /\ UNCHANGED <<vars, cacheVars, requestVars, sessionVars, limiterVars>>
       \/ part = "cache" /\ Filter!CacheNext /\ UNCHANGED <<vars, filterVars, requestVars, sessionVars, limiterVars>>
       \/ part = "requests" /\ Requests!Next /\ UNCHANGED <<vars, filterVars, cacheVars, sessionVars, limiterVars>>
       \/ part = "sessions" /\ Sessions!SessionNext /\ UNCHANGED <<vars, filterVars, cacheVars, requestVars>>
       \/ part = "limiter" /\ Limiter!LimiterNext /\ UNCHANGED <<vars, filterVars, cacheVars, requestVars>>

(* The fairness of the gateway, where it is the gateway that runs.           *)
MCSpec ==
    /\ MCInit /\ [][MCNext]_<<part, vars, filterVars, cacheVars, requestVars, sessionVars, limiterVars>>
    /\ part = "requests" => Requests!Fairness

(* The cuckoo filter forgets at most one entry for each insertion it        *)
(* refuses, as long as no fingerprint is 0, and its count is what its       *)
(* buckets hold, whatever was relocated or deleted; a nonce that            *)
(* NonceReplayCache recorded at most a window ago is still seen, but for    *)
(* one at most for each insertion that failed (see CuckooFilter).           *)
FiltersAreExact == Filter!CountIsOccupancy /\ Filter!InsertedIsContained /\ Filter!RecentIsSeen

(* The circuit breaker opens and closes at its thresholds (see Gateway).     *)
ThresholdsHonoured == Requests!ThresholdsHonoured

(* Every request ends and leaves the store (see Gateway).                    *)
RequestsEnd == Requests!RequestsEnd

(* The subscriptions and the lists of the connections agree, forgetting an  *)
(* idle client changes no answer of the rate limiter (see GatewayGuards),   *)
(* and the counters of the pending request store account for every request  *)
(* once (see Gateway).                                                       *)
GatewayIsAccounted ==
    Sessions!SubscriptionsAgree /\ Limiter!CleanupIsInvisible /\ Requests!StatsBalance
=============================================================================
