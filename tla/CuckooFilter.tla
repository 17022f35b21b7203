---------------------------- MODULE CuckooFilter ----------------------------
(***************************************************************************)
(* The cuckoo filter of qc-07 (domain/cuckoo.rs) and two clients of it.    *)
(* An item is known by its fingerprint and its first bucket; the hash of a *)
(* fingerprint is a constant.  0 marks a free entry of a bucket.           *)
(*                                                                         *)
(* The first client inserts items into one filter and deletes items it has *)
(* inserted.  The second is the NonceReplayCache of the node runtime       *)
(* (adapters/replay_cache.rs): two filters, the current time window and    *)
(* the one before, whose items are nonces; every call may rotate the       *)
(* windows first.                                                          *)
(***************************************************************************)
EXTENDS Naturals, FiniteSets, FiniteSetsExt, Bitwise

CONSTANTS
    FingerprintOf, HomeOf,     \* item -> top bits of its hash, first bucket
    FingerprintHash,           \* fingerprint -> its own hash
    BucketCount,               \* a power of two
    EntriesPerBucket, MaxKicks,
    Item,
    MaxHeld,                   \* bound of the model: copies of an item inserted and not deleted
    MaxRefused, MaxOverflowed, \* bounds of the model: insertions that fail, for each client
    Nonce,
    WindowDuration,
    MaxTime                    \* bound of the model: the clock

-----------------------------------------------------------------------------
(* The data structure. *)

Entry == 1..EntriesPerBucket

NewFilter ==
    [buckets |-> [i \in 0..BucketCount-1 |-> [e \in Entry |-> 0]], count |-> 0]

\* Variant: an offset in place of the exclusive or.
AltIndexByOffset(idx, fp) == (idx + FingerprintHash[fp]) % BucketCount

AltIndex(idx, fp) == (idx ^^ FingerprintHash[fp]) % BucketCount

(* The second bucket is computed from the raw fingerprint, ... *)
SecondBucket(x) == AltIndex(HomeOf[x], FingerprintOf[x])

(* ... and only the stored fingerprint is kept away from 0. *)
Stored(x) == IF FingerprintOf[x] = 0 THEN 1 ELSE FingerprintOf[x]

Free(bucket) == {e \in Entry : bucket[e] = 0}

HasRoom(buckets, i) == Free(buckets[i]) # {}

BucketInsert(buckets, i, fp) ==
    [buckets EXCEPT ![i][Min(Free(buckets[i]))] = fp]

(* The results of at most `kicks` evictions, one for every random choice. *)
RECURSIVE Relocate(_, _, _, _)
Relocate(buckets, fp, idx, kicks) ==
    IF kicks = 0 THEN {[buckets |-> buckets, ok |-> FALSE]}
    ELSE UNION {LET kicked == buckets[idx][e]
                    swapped == [buckets EXCEPT ![idx][e] = fp]
                    alt == AltIndex(idx, kicked)
                IN  IF HasRoom(swapped, alt)
                    THEN {[buckets |-> BucketInsert(swapped, alt, kicked), ok |-> TRUE]}
                    ELSE Relocate(swapped, kicked, alt, kicks - 1) : e \in Entry}

PlacedAt(filter, i, fp) == {[buckets |-> BucketInsert(filter.buckets, i, fp), ok |-> TRUE]}

(* Every outcome of an insertion: the new filter and the returned flag. *)
Insertions(filter, x) ==
    LET placed == IF HasRoom(filter.buckets, HomeOf[x])
                  THEN PlacedAt(filter, HomeOf[x], Stored(x))
                  ELSE IF HasRoom(filter.buckets, SecondBucket(x))
                  THEN PlacedAt(filter, SecondBucket(x), Stored(x))
                  ELSE Relocate(filter.buckets, Stored(x), HomeOf[x], MaxKicks)
    IN  {[filter |-> [buckets |-> p.buckets,
                      count |-> IF p.ok THEN filter.count + 1 ELSE filter.count],
          ok |-> p.ok] : p \in placed}

Holding(bucket, fp) == {e \in Entry : bucket[e] = fp}

Contains(filter, x) ==
    \E i \in {HomeOf[x], SecondBucket(x)} : Holding(filter.buckets[i], Stored(x)) # {}

(* The filter after a delete; a delete that finds nothing changes nothing. *)
DeletedAt(filter, i, fp) ==
    [buckets |-> [filter.buckets EXCEPT ![i][Min(Holding(filter.buckets[i], fp))] = 0],
     count |-> IF filter.count > 0 THEN filter.count - 1 ELSE 0]

\* Variant: every copy in both buckets is deleted.
DeletedBoth(filter, x) ==
    [buckets |-> [i \in 0..BucketCount-1 |->
        IF i \in {HomeOf[x], SecondBucket(x)}
        THEN [e \in Entry |-> IF filter.buckets[i][e] = Stored(x) THEN 0 ELSE filter.buckets[i][e]]
        ELSE filter.buckets[i]],
     count |-> IF filter.count > 0 THEN filter.count - 1 ELSE 0]

Deleted(filter, x) ==
    IF Holding(filter.buckets[HomeOf[x]], Stored(x)) # {}
    THEN DeletedAt(filter, HomeOf[x], Stored(x))
    ELSE IF Holding(filter.buckets[SecondBucket(x)], Stored(x)) # {}
    THEN DeletedAt(filter, SecondBucket(x), Stored(x))
    ELSE filter

-----------------------------------------------------------------------------
VARIABLES
    filter,
    held,                  \* history: item -> insertions acknowledged and not deleted
    refused,               \* history: insertions that returned false
    current, previous,     \* cuckoo filters
    window_start,
    now,
    recorded,              \* history: nonce -> time it was last recorded, or 0
    readmitted,            \* history: nonces admitted again within WindowDuration
    overflowed             \* history: insertions into a filter of the cache that failed

cache == <<current, previous, window_start>>

-----------------------------------------------------------------------------
(* One filter. *)

FilterInit ==
    /\ filter = NewFilter
    /\ held = [x \in Item |-> 0]
    /\ refused = 0

Insert(x) ==
    /\ held[x] < MaxHeld /\ refused < MaxRefused
    /\ \E result \in Insertions(filter, x) :
        /\ filter' = result.filter
        /\ held' = [held EXCEPT ![x] = @ + (IF result.ok THEN 1 ELSE 0)]
        /\ refused' = refused + (IF result.ok THEN 0 ELSE 1)

Delete(x) ==
    /\ held[x] > 0
    /\ filter' = Deleted(filter, x)
    /\ held' = [held EXCEPT ![x] = @ - 1]
    /\ UNCHANGED refused

FilterNext == \E x \in Item : Insert(x) \/ Delete(x)

-----------------------------------------------------------------------------
(* The replay cache. *)

CacheInit ==
    /\ current = NewFilter /\ previous = NewFilter
    /\ now = 1 /\ window_start = now
    /\ recorded = [n \in Nonce |-> 0]
    /\ readmitted = {}
    /\ overflowed = 0

Tick == now < MaxTime /\ now' = now + 1 /\ UNCHANGED <<cache, recorded, readmitted, overflowed>>

\* Variant: the window before is emptied too.
RotatedBoth ==
    IF now - window_start > WindowDuration
    THEN [current |-> NewFilter, previous |-> NewFilter, start |-> now]
    ELSE [current |-> current, previous |-> previous, start |-> window_start]

(* maybe_rotate: the windows the call works on. *)
Rotated ==
    IF now - window_start > WindowDuration
    THEN [current |-> NewFilter, previous |-> current, start |-> now]
    ELSE [current |-> current, previous |-> previous, start |-> window_start]

WasSeen(n) == Contains(current, n) \/ Contains(previous, n)

(* The caller does not look at what the insertion returned. *)
Record(w, n) ==
    /\ overflowed < MaxOverflowed
    /\ \E result \in Insertions(w.current, n) :
        /\ current' = result.filter
        /\ overflowed' = overflowed + (IF result.ok THEN 0 ELSE 1)
    /\ previous' = w.previous /\ window_start' = w.start
    /\ recorded' = [recorded EXCEPT ![n] = now]

Recent(n) == recorded[n] > 0 /\ now - recorded[n] <= WindowDuration

IsReplay(n) ==
    LET w == Rotated IN
    /\ UNCHANGED now
    /\ \/ /\ Contains(w.current, n) \/ Contains(w.previous, n)
          /\ current' = w.current /\ previous' = w.previous /\ window_start' = w.start
          /\ UNCHANGED <<recorded, readmitted, overflowed>>
       \/ /\ ~Contains(w.current, n) /\ ~Contains(w.previous, n)
          /\ Record(w, n)
          /\ readmitted' = IF Recent(n) THEN readmitted \cup {n} ELSE readmitted

MarkSeen(n) == Record(Rotated, n) /\ UNCHANGED <<readmitted, now>>

Clear ==
    /\ current' = NewFilter /\ previous' = NewFilter
    /\ window_start' = now
    /\ recorded' = [n \in Nonce |-> 0]
    /\ UNCHANGED <<readmitted, overflowed, now>>

CacheNext ==
    \/ Tick
    \/ \E n \in Nonce : IsReplay(n) \/ MarkSeen(n)
    \/ Clear

-----------------------------------------------------------------------------

(* count is the number of occupied entries, whatever was relocated, refused *)
(* or deleted: len() and load_factor() report what the buckets hold.        *)
CountIsOccupancy ==
    filter.count = Cardinality({<<i, e>> \in (0..BucketCount-1) \X Entry : filter.buckets[i][e] # 0})

(* A relocation that gives up drops one entry and no more: the copies that *)
(* were acknowledged and not deleted and are no longer found are at most   *)
(* as many as insertions were refused, however often items that share      *)
(* buckets or fingerprints were relocated or deleted.  Without a refusal   *)
(* there are no false negatives.  No item has the raw fingerprint 0.       *)
InsertedIsContained ==
    (\A x \in Item : FingerprintOf[x] # 0) =>
        MapThenSumSet(LAMBDA x : held[x], {x \in Item : ~Contains(filter, x)}) <= refused

(* The same promise for every fingerprint. *)
AnyFingerprintIsContained == refused = 0 => \A x \in Item : held[x] > 0 => Contains(filter, x)

(* The same promise after a refused insertion: the refused item is the     *)
(* only one that is missing.                                               *)
AcknowledgedIsContained == \A x \in Item : held[x] > 0 => Contains(filter, x)

(* A nonce recorded at most WindowDuration ago is still seen, however many  *)
(* calls and rotations came in between and however late the rotations were, *)
(* but for one nonce at most for each insertion that failed.                *)
RecentIsSeen == Cardinality({n \in Nonce : Recent(n) /\ ~WasSeen(n)}) <= overflowed

(* is_replay never lets a nonce through that was recorded at most           *)
(* WindowDuration ago.                                                      *)
NoReplayAdmitted == readmitted = {}

=============================================================================
