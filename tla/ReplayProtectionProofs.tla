----------------------- MODULE ReplayProtectionProofs -----------------------
(***************************************************************************)
(* Both receivers accept a message at most once, for every set of messages *)
(* and all windows that satisfy WindowAssumption.                          *)
(***************************************************************************)
EXTENDS ReplayProtection, TLAPS

(* The invariant holds of the empty caches. *)
LEMMA InitInv == Init => Inv
BY WindowAssumption DEF Init, Inv, TypeOK, BusRemembers, VerifierRemembers, ValidatedOnce, VerifiedOnce

(* The passage of time only makes more messages expired. *)
LEMMA TickInv == Inv /\ Tick => Inv'
BY WindowAssumption DEF Tick, Inv, TypeOK, BusRemembers, VerifierRemembers, ValidatedOnce,
    VerifiedOnce, Expired, bus, verifier

(* What the garbage collection of the bus keeps, and what it may drop.      *)
LEMMA RefreshedKeeps ==
    ASSUME Inv
    PROVE  /\ DOMAIN Refreshed \subseteq DOMAIN bus_cache
           /\ \A n \in DOMAIN Refreshed : Refreshed[n] = bus_cache[n]
           /\ \A n \in DOMAIN bus_cache : n \notin DOMAIN Refreshed => bus_cache[n] + MaxAge < now
<1>1. CASE ~GcDue
    BY <1>1 DEF Refreshed
<1>2. CASE GcDue
    <2>1. Refreshed = Without(bus_cache, {n \in DOMAIN bus_cache : bus_cache[n] <= SaturatingSub(now, ValidityWindow)})
        BY <1>2 DEF Refreshed, GarbageCollected
    <2>2. \A n \in DOMAIN bus_cache : bus_cache[n] <= SaturatingSub(now, ValidityWindow) => bus_cache[n] + MaxAge < now
        BY WindowAssumption DEF Inv, TypeOK, SaturatingSub
    <2> QED BY <2>1, <2>2 DEF Without
<1> QED BY <1>1, <1>2

(* Accepting or refusing a message keeps the invariant of the bus. *)
LEMMA ValidateInv == ASSUME Inv, NEW m \in Message, ValidateAndAdd(m) PROVE Inv'
<1> DEFINE R == Refreshed
<1>1. /\ DOMAIN R \subseteq DOMAIN bus_cache
      /\ \A n \in DOMAIN R : R[n] = bus_cache[n]
      /\ \A n \in DOMAIN bus_cache : n \notin DOMAIN R => bus_cache[n] + MaxAge < now
    BY RefreshedKeeps
<1>2. UNCHANGED <<now, expiry, verified>> /\ InWindow(m)
    BY DEF ValidateAndAdd, verifier
<1>3. last_gc' \in Nat /\ last_gc' <= now
    BY DEF ValidateAndAdd, Inv, TypeOK
<1>4. m.nonce \in Nonce /\ m.timestamp \in Nat
    BY WindowAssumption DEF Nonce
<1>5. VerifierRemembers' /\ VerifiedOnce'
    BY <1>2 DEF Inv, VerifierRemembers, VerifiedOnce, Expired
<1>6. CASE m.nonce \in DOMAIN R /\ bus_cache' = R /\ UNCHANGED validated
    <2>1. TypeOK'
        BY <1>1, <1>2, <1>3, <1>6 DEF Inv, TypeOK
    <2>2. BusRemembers' /\ ValidatedOnce'
        BY <1>1, <1>2, <1>6 DEF Inv, BusRemembers, ValidatedOnce, Expired
    <2> QED BY <2>1, <2>2, <1>5 DEF Inv
<1>7. CASE /\ m.nonce \notin DOMAIN R
           /\ bus_cache' = Store(R, m.nonce, m.timestamp)
           /\ validated' = [validated EXCEPT ![m] = @ + 1]
    <2>1. /\ DOMAIN bus_cache' = DOMAIN R \cup {m.nonce}
          /\ bus_cache'[m.nonce] = m.timestamp
          /\ \A n \in DOMAIN R : bus_cache'[n] = R[n]
        BY <1>7 DEF Store
    <2> HIDE DEF R
    <2>2. TypeOK'
        BY <1>1, <1>2, <1>3, <1>4, <1>7, <2>1 DEF Inv, TypeOK
    <2>3. ~(validated[m] > 0)
        BY <1>1, <1>2, <1>4, <1>7, WindowAssumption DEF Inv, TypeOK, BusRemembers, Expired, InWindow
    <2>4. validated'[m] = 1
        BY <1>7, <2>3 DEF Inv, TypeOK
    <2>5. \A k \in Message : k # m => validated'[k] = validated[k]
        BY <1>7 DEF Inv, TypeOK
    <2>6. ValidatedOnce'
        BY <2>4, <2>5 DEF Inv, ValidatedOnce
    <2>7. BusRemembers'
        <3> SUFFICES ASSUME NEW k \in Message, validated'[k] > 0
                     PROVE  \/ Expired(k)'
                            \/ k.nonce \in DOMAIN bus_cache' /\ bus_cache'[k.nonce] = k.timestamp
            BY DEF BusRemembers
        <3>1. CASE k = m
            BY <3>1, <2>1
        <3>2. CASE k # m
            BY <3>2, <2>5, <2>1, <1>1, <1>2 DEF Inv, BusRemembers, Expired
        <3> QED BY <3>1, <3>2
    <2> QED BY <2>2, <2>6, <2>7, <1>5 DEF Inv
<1> QED BY <1>6, <1>7 DEF ValidateAndAdd

(* What compaction of the NonceCache keeps, and what it may drop. *)
LEMMA CompactedKeeps ==
    /\ DOMAIN Compacted \subseteq DOMAIN expiry
    /\ \A n \in DOMAIN Compacted : Compacted[n] = expiry[n]
    /\ \A n \in DOMAIN expiry : n \notin DOMAIN Compacted => expiry[n] <= now
BY DEF Compacted, Without

(* Accepting or refusing a message keeps the invariant of the verifier. *)
LEMMA VerifyInv == ASSUME Inv, NEW m \in Message, Verify(m) PROVE Inv'
<1> DEFINE R == Compacted
<1>1. /\ DOMAIN R \subseteq DOMAIN expiry
      /\ \A n \in DOMAIN R : R[n] = expiry[n]
      /\ \A n \in DOMAIN expiry : n \notin DOMAIN R => expiry[n] <= now
    BY CompactedKeeps
<1>2. UNCHANGED <<now, bus_cache, last_gc, validated>> /\ InWindow(m)
    BY DEF Verify, bus
<1>4. m.nonce \in Nonce /\ m.timestamp \in Nat /\ m.authentic \in BOOLEAN
    BY WindowAssumption DEF Nonce
<1>5. BusRemembers' /\ ValidatedOnce'
    BY <1>2 DEF Inv, BusRemembers, ValidatedOnce, Expired
<1>6. CASE IsLive(m.nonce) /\ expiry' = R /\ UNCHANGED verified
    <2>1. TypeOK'
        BY <1>1, <1>2, <1>6 DEF Inv, TypeOK
    <2>2. VerifierRemembers'
        BY <1>1, <1>2, <1>6, WindowAssumption DEF Inv, TypeOK, VerifierRemembers, Expired
    <2>3. VerifiedOnce'
        BY <1>6 DEF Inv, VerifiedOnce
    <2> QED BY <2>1, <2>2, <2>3, <1>5 DEF Inv
<1>7. CASE /\ ~IsLive(m.nonce)
           /\ expiry' = Store(R, m.nonce, now + NonceCacheTtl)
           /\ verified' = [verified EXCEPT ![m] = @ + (IF m.authentic THEN 1 ELSE 0)]
    <2>1. /\ DOMAIN expiry' = DOMAIN R \cup {m.nonce}
          /\ expiry'[m.nonce] = now + NonceCacheTtl
          /\ \A n \in DOMAIN R : n # m.nonce => expiry'[n] = R[n]
        BY <1>7 DEF Store
    <2>2. m.nonce \in DOMAIN expiry => expiry[m.nonce] <= now
        BY <1>1, <1>7 DEF IsLive, Inv, TypeOK
    <2> HIDE DEF R
    <2>3. TypeOK'
        <3>1. verified' \in [Message -> Nat]
            BY <1>7 DEF Inv, TypeOK
        <3>2. DOMAIN expiry' \subseteq Nonce /\ \A n \in DOMAIN expiry' : expiry'[n] \in Nat
            BY <1>1, <1>4, <2>1, WindowAssumption DEF Inv, TypeOK
        <3> QED BY <1>2, <3>1, <3>2 DEF Inv, TypeOK
    <2>4. ~(verified[m] > 0)
        BY <1>2, <1>4, <2>2, WindowAssumption DEF Inv, TypeOK, VerifierRemembers, Expired, InWindow
    <2>5. verified'[m] <= 1
        BY <1>7, <2>4 DEF Inv, TypeOK
    <2>6. \A k \in Message : k # m => verified'[k] = verified[k]
        BY <1>7 DEF Inv, TypeOK
    <2>7. VerifiedOnce'
        BY <2>5, <2>6 DEF Inv, VerifiedOnce
    <2>8. VerifierRemembers'
        <3> SUFFICES ASSUME NEW k \in Message, verified'[k] > 0
                     PROVE  \/ Expired(k)'
                            \/ k.nonce \in DOMAIN expiry' /\ expiry'[k.nonce] > k.timestamp + MaxAge
            BY DEF VerifierRemembers
        <3>1. CASE k = m
            BY <3>1, <2>1, <1>2, <1>4, WindowAssumption DEF InWindow, Inv, TypeOK
        <3>2. CASE k # m
            <4>1. \/ Expired(k)
                  \/ k.nonce \in DOMAIN expiry /\ expiry[k.nonce] > k.timestamp + MaxAge
                BY <3>2, <2>6 DEF Inv, VerifierRemembers
            <4>2. CASE Expired(k)
                BY <4>2, <1>2 DEF Expired
            <4>3. CASE k.nonce \in DOMAIN expiry /\ expiry[k.nonce] > k.timestamp + MaxAge /\ ~Expired(k)
                <5>1. k.timestamp \in Nat /\ expiry[k.nonce] \in Nat /\ expiry[k.nonce] > now
                    BY <4>3, WindowAssumption DEF Expired, Inv, TypeOK
                <5>2. k.nonce \in DOMAIN R /\ k.nonce # m.nonce
                    BY <5>1, <4>3, <1>1, <2>2 DEF Inv, TypeOK
                <5> QED BY <5>2, <4>3, <2>1, <1>1
            <4> QED BY <4>1, <4>2, <4>3
        <3> QED BY <3>1, <3>2
    <2> QED BY <2>3, <2>7, <2>8, <1>5 DEF Inv
<1> QED BY <1>6, <1>7 DEF Verify, CheckAndInsert

(* The invariant is inductive. *)
LEMMA Invariance == Spec => []Inv
<1>1. Inv /\ [Next]_vars => Inv'
    <2> SUFFICES ASSUME Inv, [Next]_vars PROVE Inv'
        OBVIOUS
    <2>1. CASE Tick
        BY <2>1, TickInv
    <2>2. ASSUME NEW m \in Message, ValidateAndAdd(m) PROVE Inv'
        BY <2>2, ValidateInv
    <2>3. ASSUME NEW m \in Message, Verify(m) PROVE Inv'
        BY <2>3, VerifyInv
    <2>4. CASE UNCHANGED vars
        BY <2>4 DEF vars, bus, verifier, Inv, TypeOK, BusRemembers, VerifierRemembers,
            ValidatedOnce, VerifiedOnce, Expired
    <2> QED BY <2>1, <2>2, <2>3, <2>4 DEF Next
<1> QED BY InitInv, <1>1, PTL DEF Spec

(* validate_and_add accepts a message at most once, for all windows with   *)
(* MaxAge below the validity window of the cache.                          *)
THEOREM BusAcceptsOnce == Spec => []ValidatedOnce
<1>1. Inv => ValidatedOnce
    BY DEF Inv
<1> QED BY Invariance, <1>1, PTL

(* verify accepts a message at most once, for all windows with MaxAge and   *)
(* MaxFutureSkew together below the time a nonce is kept.                   *)
THEOREM VerifierAcceptsOnce == Spec => []VerifiedOnce
<1>1. Inv => VerifiedOnce
    BY DEF Inv
<1> QED BY Invariance, <1>1, PTL

(* No message is accepted twice, by the bus or by the verifier.             *)
THEOREM AcceptsOnce == Spec => []AcceptedOnce
<1>1. ValidatedOnce /\ VerifiedOnce => AcceptedOnce
    BY DEF AcceptedOnce
<1> QED BY <1>1, BusAcceptsOnce, VerifierAcceptsOnce, PTL

=============================================================================
