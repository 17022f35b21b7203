-------------------------- MODULE GatewayGuards --------------------------
(***************************************************************************)
(* What the API gateway keeps per client (qc-16-api-gateway):               *)
(*  - the WebSocket sessions (ws/handler.rs), one task per connection, and  *)
(*    the SubscriptionManager they share (ws/subscriptions.rs), two         *)
(*    concurrent maps that no lock covers together;                         *)
(*  - the token buckets of the rate limiter, one pair per address, and the  *)
(*    cleanup that forgets the idle ones (middleware/rate_limit.rs).        *)
(* The two parts share no state: SessionNext and LimiterNext.               *)
(*                                                                         *)
(* A text and a binary message take the same branches and are one kind of   *)
(* message here.  What a notification says is left out: no code sends one   *)
(* (the channel of WebSocketHandler::handle has no user).                   *)
(***************************************************************************)
EXTENDS Integers, Sequences, SequencesExt, PartialMaps

CONSTANTS
    Connection,          \* connections a client opens
    MaxPerConnection,    \* max_per_connection
    RateLimit,           \* WebSocketConfig::rate_limit, messages per window
    Window,              \* the second of check_rate_limit, in ticks
    IdleTimeout,         \* WebSocketConfig::idle_timeout, in ticks
    MaxIds,              \* bound: subscriptions made in a behaviour
    Client,              \* addresses the rate limiter knows
    Whitelist,           \* RateLimitConfig::whitelist, a subset of Client
    BurstSize,           \* RateLimitConfig::burst_size
    WriteShare,          \* the 10 of burst_size / 10
    DefaultWriteBurst,   \* the 20 a share of 0 is replaced by
    Period,              \* Period[kind]: ticks in which one token comes back
    MaxAge,              \* max_age of the cleanup
    MaxTime              \* bound: the clock stops

VARIABLES
    session,        \* where the task of a connection is
    subscriptions,  \* SubscriptionManager::subscriptions: id -> connection
    by_connection,  \* SubscriptionManager::by_connection: connection -> ids
    id_counter,     \* SubscriptionManager::id_counter
    budget,         \* message_count, rate_limit_window and last_activity
    time,           \* Instant::now() of the sessions
    buckets,        \* RateLimitState::buckets
    unforgotten,    \* the buckets as they were if none was ever cleaned up
    tick            \* Instant::now() of the rate limiter

sessionVars == <<session, subscriptions, by_connection, id_counter, budget, time>>
limiterVars == <<buckets, unforgotten, tick>>
vars == <<sessionVars, limiterVars>>

Id == 1..MaxIds
Kind == {"read", "write"}

(* A task waits for a message, is between the two steps of subscribe or of  *)
(* unsubscribe on an id, or removes the ids it took out of by_connection.   *)
At(pc, ids) == [pc |-> pc, ids |-> ids]
Unopened == At("unopened", <<>>)
Waiting == At("waiting", <<>>)
Ended == At("ended", <<>>)

Init ==
    /\ session = [c \in Connection |-> Unopened]
    /\ subscriptions = <<>>
    /\ by_connection = <<>>
    /\ id_counter = 1
    /\ budget = [c \in Connection |-> [count |-> 0, window |-> 0, active |-> 0]]
    /\ time = 0
    /\ buckets = <<>>
    /\ unforgotten = <<>>
    /\ tick = 0

-----------------------------------------------------------------------------
(* Sessions and subscriptions.                                              *)

Open(c) ==
    /\ session[c] = Unopened
    /\ session' = [session EXCEPT ![c] = Waiting]
    /\ budget' = [budget EXCEPT ![c] = [count |-> 0, window |-> time, active |-> time]]
    /\ UNCHANGED <<subscriptions, by_connection, id_counter, time>>

Idle(c) == time - budget[c].active > IdleTimeout

MaxOf(a, b) == IF a > b THEN a ELSE b
MinOf(a, b) == IF a < b THEN a ELSE b

(* check_rate_limit: the window restarts when it is over, and every message *)
(* counts, the refused ones too.  Past the limit all counts are alike: they *)
(* are one count here.                                                      *)
Counted(c) ==
    LET b == budget[c]
        fresh == time - b.window >= Window
    IN  [count |-> MinOf((IF fresh THEN 0 ELSE b.count) + 1, RateLimit + 1),
         window |-> IF fresh THEN time ELSE b.window,
         active |-> time]

(* A message of acceptable size arrives in time and within the rate.        *)
Handled(c) ==
    /\ session[c] = Waiting /\ ~Idle(c)
    /\ Counted(c).count <= RateLimit
    /\ budget' = [budget EXCEPT ![c] = Counted(c)]

(* Pings, pongs and messages that are too large are answered before the     *)
(* rate is looked at; what has no known method, or bad parameters, is       *)
(* answered with an error after it.                                         *)
Answered(c) ==
    /\ session[c] = Waiting /\ ~Idle(c)
    /\ \E b \in {[budget[c] EXCEPT !.active = time], Counted(c)} :
           budget' = [budget EXCEPT ![c] = b]
    /\ UNCHANGED <<session, subscriptions, by_connection, id_counter, time>>

(* subscribe up to the insertion; the guard of the entry of by_connection   *)
(* is held until SubscribePush.  A connection at its limit gets an error.   *)
Subscribe(c) ==
    /\ id_counter \in Id
    /\ Handled(c)
    /\ LET listed == IF c \in DOMAIN by_connection THEN by_connection[c] ELSE <<>>
       IN  /\ by_connection' = Store(by_connection, c, listed)
           /\ IF Len(listed) >= MaxPerConnection
                THEN UNCHANGED <<session, subscriptions, id_counter>>
                ELSE /\ session' = [session EXCEPT ![c] = At("pushing", <<id_counter>>)]
                     /\ subscriptions' = Store(subscriptions, id_counter, c)
                     /\ id_counter' = id_counter + 1
    /\ UNCHANGED time

SubscribePush(c) ==
    /\ session[c].pc = "pushing"
    /\ by_connection' = [by_connection EXCEPT ![c] = @ \o session[c].ids]
    /\ session' = [session EXCEPT ![c] = Waiting]
    /\ UNCHANGED <<subscriptions, id_counter, budget, time>>

(* unsubscribe takes any id.  The connection that made the subscription is  *)
(* remembered as the second of ids.                                         *)
Unsubscribe(c, id) ==
    /\ Handled(c)
    /\ IF id \in DOMAIN subscriptions
         THEN /\ subscriptions' = Without(subscriptions, {id})
              /\ session' = [session EXCEPT ![c] = At("retaining", <<id, subscriptions[id]>>)]
         ELSE UNCHANGED <<subscriptions, session>>
    /\ UNCHANGED <<by_connection, id_counter, time>>

(* Variant: the id is taken out of the list of the caller.                  *)
RetainOwn(c) ==
    /\ session[c].pc = "retaining"
    /\ by_connection' = IF c \notin DOMAIN by_connection THEN by_connection
                        ELSE [by_connection EXCEPT ![c] = SelectSeq(@, LAMBDA i : i # session[c].ids[1])]
    /\ session' = [session EXCEPT ![c] = Waiting]
    /\ UNCHANGED <<subscriptions, id_counter, budget, time>>

(* The second half of unsubscribe: by_connection.get_mut waits while the    *)
(* owner is in subscribe.                                                   *)
Retain(c) ==
    /\ session[c].pc = "retaining"
    /\ LET id == session[c].ids[1]
           owner == session[c].ids[2]
       IN  /\ session[owner].pc # "pushing"
           /\ by_connection' = IF owner \notin DOMAIN by_connection THEN by_connection
                               ELSE [by_connection EXCEPT ![owner] = SelectSeq(@, LAMBDA i : i # id)]
    /\ session' = [session EXCEPT ![c] = Waiting]
    /\ UNCHANGED <<subscriptions, id_counter, budget, time>>

(* The loop ends: the client closes, the socket fails, or a message comes   *)
(* after the idle timeout.  remove_connection takes the list first and the  *)
(* subscriptions one by one.                                                *)
Close(c) ==
    /\ session[c] = Waiting
    /\ session' = [session EXCEPT ![c] =
                       IF c \in DOMAIN by_connection THEN At("removing", by_connection[c]) ELSE Ended]
    /\ by_connection' = Without(by_connection, {c})
    /\ UNCHANGED <<subscriptions, id_counter, budget, time>>

RemoveOne(c) ==
    /\ session[c].pc = "removing"
    /\ IF session[c].ids = <<>>
         THEN session' = [session EXCEPT ![c] = Ended] /\ UNCHANGED subscriptions
         ELSE /\ session' = [session EXCEPT ![c].ids = Tail(@)]
              /\ subscriptions' = Without(subscriptions, {Head(session[c].ids)})
    /\ UNCHANGED <<by_connection, id_counter, budget, time>>

Wait ==
    /\ time < MaxTime
    /\ time' = time + 1
    /\ UNCHANGED <<session, subscriptions, by_connection, id_counter, budget>>

SessionNext ==
    /\ \/ \E c \in Connection :
              \/ Open(c) \/ Answered(c) \/ Subscribe(c) \/ SubscribePush(c)
              \/ \E id \in Id : Unsubscribe(c, id)
              \/ Retain(c) \/ Close(c) \/ RemoveOne(c)
       \/ Wait
    /\ UNCHANGED limiterVars

-----------------------------------------------------------------------------
(* The rate limiter.                                                        *)

(* Quota::allow_burst of TokenBucket::new.                                  *)
Burst(kind) ==
    CASE kind = "read" -> BurstSize
      [] BurstSize \div WriteShare = 0 -> DefaultWriteBurst
      [] OTHER -> BurstSize \div WriteShare

(* The limiter of the governor library: a token bucket of Burst(kind)       *)
(* tokens, kept as the instant at which it will be full again.              *)
Spent(full) == [k \in Kind |-> MaxOf(full[k], tick) + Period[k]]
HasToken(full, kind) == Spent(full)[kind] <= tick + Burst(kind) * Period[kind]

(* entry(ip).or_insert_with(TokenBucket::new)                               *)
BucketOf(map, ip) ==
    IF ip \in DOMAIN map THEN map[ip]
    ELSE [full |-> [k \in Kind |-> tick], last_access |-> tick]

(* Variant: a check of a write does not count as an access.                 *)
UsedByReads(bucket, kind) ==
    [full |-> IF HasToken(bucket.full, kind)
                THEN [bucket.full EXCEPT ![kind] = Spent(bucket.full)[kind]] ELSE bucket.full,
     last_access |-> IF kind = "read" THEN tick ELSE bucket.last_access]

(* check_read and check_write: a refusal takes no token, and is an access.  *)
Used(bucket, kind) ==
    [full |-> IF HasToken(bucket.full, kind)
                THEN [bucket.full EXCEPT ![kind] = Spent(bucket.full)[kind]] ELSE bucket.full,
     last_access |-> tick]

Check(ip, kind) ==
    /\ ip \notin Whitelist
    /\ buckets' = Store(buckets, ip, Used(BucketOf(buckets, ip), kind))
    /\ unforgotten' = Store(unforgotten, ip, Used(BucketOf(unforgotten, ip), kind))
    /\ UNCHANGED tick

Cleanup ==
    /\ LET kept == {ip \in DOMAIN buckets : tick - buckets[ip].last_access <= MaxAge}
       IN  kept # DOMAIN buckets /\ buckets' = [ip \in kept |-> buckets[ip]]
    /\ UNCHANGED <<unforgotten, tick>>

Elapse ==
    /\ tick < MaxTime
    /\ tick' = tick + 1
    /\ UNCHANGED <<buckets, unforgotten>>

LimiterNext ==
    /\ \/ \E ip \in Client, kind \in Kind : Check(ip, kind)
       \/ Cleanup
       \/ Elapse
    /\ UNCHANGED sessionVars

-----------------------------------------------------------------------------
(* The two maps of the SubscriptionManager describe the same subscriptions, *)
(* up to the one step a task is between: a subscription is listed under its *)
(* connection unless that connection is inserting or removing it, a listed  *)
(* id has a subscription unless somebody is unsubscribing it, and no list   *)
(* is longer than max_per_connection.  In particular nothing is left of a   *)
(* connection that ended, whichever task unsubscribes its ids meanwhile     *)
(* (ws/subscriptions.rs subscribe, unsubscribe, remove_connection).         *)
SubscriptionsAgree ==
    /\ \A id \in DOMAIN subscriptions :
           LET c == subscriptions[id]
           IN  \/ session[c].pc \in {"pushing", "removing"} /\ id \in ToSet(session[c].ids)
               \/ c \in DOMAIN by_connection /\ id \in ToSet(by_connection[c])
    /\ \A c \in DOMAIN by_connection :
           /\ Len(by_connection[c]) <= MaxPerConnection
           /\ \A id \in ToSet(by_connection[c]) :
                  \/ id \in DOMAIN subscriptions /\ subscriptions[id] = c
                  \/ \E d \in Connection : session[d].pc = "retaining" /\ session[d].ids = <<id, c>>

(* Forgetting an idle address gives it nothing: at every instant the next   *)
(* read and the next write of every address are decided as they would be    *)
(* had its buckets been kept (RateLimitState::cleanup drops both limiters   *)
(* of an address by one last_access).  It needs MaxAge to be at least the   *)
(* time in which an empty bucket fills.                                      *)
CleanupIsInvisible ==
    \A ip \in Client \ Whitelist, kind \in Kind :
        HasToken(BucketOf(buckets, ip).full, kind) <=> HasToken(BucketOf(unforgotten, ip).full, kind)

-----------------------------------------------------------------------------
(* What the comments say, and the code does not do.                         *)

(* ws/handler.rs:34 "Idle timeout (disconnect if no activity)".  The loop    *)
(* looks at the time only when a message has come.                          *)
IdleAreDisconnected ==
    \A c \in Connection : session[c] = Waiting => time - budget[c].active <= IdleTimeout + 1

=============================================================================
