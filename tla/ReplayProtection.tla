-------------------------- MODULE ReplayProtection --------------------------
(***************************************************************************)
(* Two receivers that protect themselves against repeated messages: the    *)
(* TimeBoundedNonceCache of shared-bus (nonce_cache.rs), which keeps a     *)
(* nonce by the timestamp of its message, and the MessageVerifier of       *)
(* shared-types (security.rs), which keeps it for a fixed time after its   *)
(* arrival.  A message may be delivered late, early or repeatedly, to      *)
(* either of them.  The rest of what MessageVerifier::verify looks at (the *)
(* signature, the reply_to) is a flag of the message.                      *)
(***************************************************************************)
EXTENDS Integers, FiniteSets, PartialMaps

CONSTANTS
    Message,             \* records: nonce, timestamp, authentic
    Start,               \* the clock at start-up, in seconds
    MaxTime,             \* bound of the model: the clock
    MaxAge, MaxFutureSkew,
    ValidityWindow, GcInterval,      \* of the TimeBoundedNonceCache
    NonceCacheTtl, MaxNonceCacheSize \* of the NonceCache

(* The windows are ordered as the constants of the code are (60 s and 10 s  *)
(* against 120 s), and the clock is past the first two minutes of 1970.     *)
ASSUME WindowAssumption ==
    /\ {Start, MaxTime, MaxAge, MaxFutureSkew, ValidityWindow, GcInterval,
        NonceCacheTtl, MaxNonceCacheSize} \subseteq Nat
    /\ \A m \in Message : m.timestamp \in Nat /\ m.authentic \in BOOLEAN
    /\ MaxAge < ValidityWindow /\ ValidityWindow <= Start
    /\ MaxAge + MaxFutureSkew < NonceCacheTtl

VARIABLES
    now,
    bus_cache,           \* nonce -> timestamp of its message
    last_gc,
    expiry,              \* nonce -> time at which the NonceCache forgets it
    validated,           \* history: message -> times validate_and_add accepted it
    verified             \* history: message -> times verify let its nonce pass

bus == <<bus_cache, last_gc, validated>>
verifier == <<expiry, verified>>
vars == <<now, bus, verifier>>

Nonce == {m.nonce : m \in Message}

Init ==
    /\ now = Start
    /\ bus_cache = [n \in {} |-> 0]
    /\ last_gc = Start
    /\ expiry = [n \in {} |-> 0]
    /\ validated = [m \in Message |-> 0]
    /\ verified = [m \in Message |-> 0]

Tick == now < MaxTime /\ now' = now + 1 /\ UNCHANGED <<bus, verifier>>

InWindow(m) == m.timestamp + MaxAge >= now /\ m.timestamp <= now + MaxFutureSkew

-----------------------------------------------------------------------------
(* TimeBoundedNonceCache::validate_and_add. *)

SaturatingSub(a, b) == IF a > b THEN a - b ELSE 0

\* Variant: the cache keeps what is younger than MAX_AGE.
YoungOnly(cache) ==
    Without(cache, {n \in DOMAIN cache : cache[n] <= SaturatingSub(now, MaxAge)})

GarbageCollected(cache) ==
    Without(cache, {n \in DOMAIN cache : cache[n] <= SaturatingSub(now, ValidityWindow)})

GcDue == now - last_gc > GcInterval

Refreshed == IF GcDue THEN GarbageCollected(bus_cache) ELSE bus_cache

ValidateAndAdd(m) ==
    /\ InWindow(m)
    /\ last_gc' = IF GcDue THEN now ELSE last_gc
    /\ \/ /\ m.nonce \in DOMAIN Refreshed
          /\ bus_cache' = Refreshed
          /\ UNCHANGED validated
       \/ /\ m.nonce \notin DOMAIN Refreshed
          /\ bus_cache' = Store(Refreshed, m.nonce, m.timestamp)
          /\ validated' = [validated EXCEPT ![m] = @ + 1]
    /\ UNCHANGED <<now, verifier>>

-----------------------------------------------------------------------------
(* MessageVerifier::verify; a message that is refused for its version or    *)
(* its timestamp changes nothing.                                           *)

Compacted ==
    IF Cardinality(DOMAIN expiry) >= MaxNonceCacheSize
    THEN Without(expiry, {n \in DOMAIN expiry : expiry[n] <= now})
    ELSE expiry

IsLive(n) == n \in DOMAIN Compacted /\ Compacted[n] > now

\* Variant: a nonce is kept no longer than its message is valid.
CheckAndInsertForAge(m) ==
    /\ ~IsLive(m.nonce)
    /\ expiry' = Store(Compacted, m.nonce, now + MaxAge)

(* NonceCache::check_and_insert, when it returns true. *)
CheckAndInsert(m) ==
    /\ ~IsLive(m.nonce)
    /\ expiry' = Store(Compacted, m.nonce, now + NonceCacheTtl)

(* The nonce is recorded before the signature is looked at. *)
Verify(m) ==
    /\ InWindow(m)
    /\ \/ IsLive(m.nonce) /\ expiry' = Compacted /\ UNCHANGED verified
       \/ /\ CheckAndInsert(m)
          /\ verified' = [verified EXCEPT ![m] = @ + (IF m.authentic THEN 1 ELSE 0)]
    /\ UNCHANGED <<now, bus>>

Next ==
    \/ Tick
    \/ \E m \in Message : ValidateAndAdd(m) \/ Verify(m)

Spec == Init /\ [][Next]_vars

-----------------------------------------------------------------------------

(* The caches and the history have their types. *)
TypeOK ==
    /\ now \in Nat /\ Start <= now /\ last_gc \in Nat /\ last_gc <= now
    /\ DOMAIN bus_cache \subseteq Nonce /\ \A n \in DOMAIN bus_cache : bus_cache[n] \in Nat
    /\ DOMAIN expiry \subseteq Nonce /\ \A n \in DOMAIN expiry : expiry[n] \in Nat
    /\ validated \in [Message -> Nat]
    /\ verified \in [Message -> Nat]

(* The bus accepts a message at most once, however often and however late   *)
(* it is delivered and whenever the garbage collection runs: a nonce is     *)
(* dropped from the cache only when its message can no longer pass the      *)
(* timestamp check.                                                         *)
ValidatedOnce == \A m \in Message : validated[m] <= 1

(* The verifier accepts a message at most once, although it may arrive      *)
(* before its own timestamp and expired nonces are overwritten.             *)
VerifiedOnce == \A m \in Message : verified[m] <= 1

(* Neither the bus nor the verifier accepts a message twice.                *)
AcceptedOnce == ValidatedOnce /\ VerifiedOnce

(* The NonceCache holds no more nonces than its limit. *)
NonceCacheIsBounded == Cardinality(DOMAIN expiry) <= MaxNonceCacheSize

-----------------------------------------------------------------------------
(* Why a message is accepted once: while it can pass the timestamp check    *)
(* its nonce is remembered.                                                 *)

Expired(m) == m.timestamp + MaxAge < now

BusRemembers ==
    \A m \in Message : validated[m] > 0 =>
        \/ Expired(m)
        \/ m.nonce \in DOMAIN bus_cache /\ bus_cache[m.nonce] = m.timestamp

VerifierRemembers ==
    \A m \in Message : verified[m] > 0 =>
        \/ Expired(m)
        \/ m.nonce \in DOMAIN expiry /\ expiry[m.nonce] > m.timestamp + MaxAge

Inv == TypeOK /\ BusRemembers /\ VerifierRemembers /\ ValidatedOnce /\ VerifiedOnce

=============================================================================
