------------------------ MODULE MembershipFilters ------------------------
(***************************************************************************)
(* The filters of qc-07-bloom-filters that answer "may contain": the Bloom  *)
(* filter with its tweak and merge, the counting filter with 4-bit counters *)
(* two to a byte and its run-length encoding, the Golomb-coded set, and the *)
(* bus adapter that keeps one Bloom filter per client, selects the          *)
(* transactions of a block with it and limits how often it is replaced.     *)
(* (The cuckoo filter is in CuckooFilter.)  The four parts share no state.  *)
(*                                                                         *)
(* Where an element hashes to is given: Positions[tweak][e], with           *)
(* repetitions if two of its hashes agree.  Sizes and counters are scaled   *)
(* down by constants; the false-positive rates, in floating point, are not  *)
(* modelled.                                                                *)
(***************************************************************************)
EXTENDS Integers, Sequences, SequencesExt, FiniteSetsExt, PartialMaps

CONSTANTS
    Element,        \* what is inserted: addresses, scripts
    Tweak,          \* tweaks of a filter
    Positions,      \* Positions[tweak][e]: the k hash positions of e
    Size,           \* m
    MaxCounter,     \* MAX_COUNTER, 15
    MaxRun,         \* the longest run of the encoding, 255
    MaxAdds,        \* bound: additions in a behaviour
    GolombP,        \* GOLOMB_P
    HashOf,         \* HashOf[e]: the state hash_to_range reduces
    Client,         \* light clients
    Transaction,    \* transactions of the block: from, to, created, logs
    Noise,          \* elements add_privacy_noise inserts
    MaxElements,    \* BloomConfig::max_elements
    RateLimitBlocks,\* RATE_LIMIT_BLOCKS
    MaxHeight       \* bound: block heights

VARIABLES
    filter,         \* two Bloom filters, each with bits, n and tweak
    inserted,       \* what was inserted into each since it was cleared
    retweaked,      \* a tweak was changed, or filters of two tweaks merged
    counters,       \* CountingBloomFilter::counters, as bytes
    added,          \* how often each element was added and not removed
    saturated,      \* an increment found its counter full
    coded,          \* a GcsFilter: n and data
    scripts,        \* the scripts it was made from
    active_filters, \* BloomFilterBusAdapter::active_filters
    watched,        \* the addresses each client asked for
    rate_limits,    \* BloomFilterHandler::rate_limits
    current_block,  \* BloomFilterHandler::current_block
    last_update     \* the block at which each client's last update passed

bloomVars == <<filter, inserted, retweaked>>
countingVars == <<counters, added, saturated>>
codedVars == <<coded, scripts>>
clientVars == <<active_filters, watched, rate_limits, current_block, last_update>>

Which == {"mine", "theirs"}
EmptyFilter(tweak) == [bits |-> {}, n |-> 0, tweak |-> tweak]
Bytes == (Size + 1) \div 2

Init ==
    /\ filter \in [Which -> {EmptyFilter(t) : t \in Tweak}]
    /\ inserted = [w \in Which |-> {}]
    /\ retweaked = FALSE
    /\ counters = [i \in 1..Bytes |-> 0]
    /\ added = [e \in Element |-> 0]
    /\ saturated = FALSE
    /\ coded = [n |-> 0, data |-> <<>>]
    /\ scripts = <<>>
    /\ active_filters = <<>>
    /\ watched = <<>>
    /\ rate_limits = <<>>
    /\ current_block = 0
    /\ last_update = <<>>

-----------------------------------------------------------------------------
(* The Bloom filter.                                                        *)

PositionsOf(f, e) == ToSet(Positions[f.tweak][e])
MayContain(f, e) == PositionsOf(f, e) \subseteq f.bits
Inserted(f, e) == [f EXCEPT !.bits = @ \cup PositionsOf(f, e), !.n = @ + 1]

Insert(w, e) ==
    /\ filter[w].n < MaxAdds
    /\ filter' = [filter EXCEPT ![w] = Inserted(@, e)]
    /\ inserted' = [inserted EXCEPT ![w] = @ \cup {e}]
    /\ UNCHANGED retweaked

(* Variant: the longer of the two, where the code takes the union.          *)
MergedMax(f, g) == [f EXCEPT !.bits = IF Cardinality(g.bits) > Cardinality(@) THEN g.bits ELSE @,
                             !.n = @ + g.n]

(* merge: asserts that m and k are equal, which all filters here satisfy.   *)
Merged(f, g) == [f EXCEPT !.bits = @ \cup g.bits, !.n = @ + g.n]

Merge(w, x) ==
    /\ w # x
    /\ filter[w].n + filter[x].n <= MaxAdds
    /\ filter' = [filter EXCEPT ![w] = Merged(@, filter[x])]
    /\ inserted' = [inserted EXCEPT ![w] = @ \cup inserted[x]]
    /\ retweaked' = (retweaked \/ filter[w].tweak # filter[x].tweak)

SetTweak(w, t) ==
    /\ t # filter[w].tweak
    /\ filter' = [filter EXCEPT ![w].tweak = t]
    /\ retweaked' = (retweaked \/ filter[w].n > 0)
    /\ UNCHANGED inserted

ClearFilter(w) ==
    /\ filter[w].n > 0
    /\ filter' = [filter EXCEPT ![w] = EmptyFilter(@.tweak)]
    /\ inserted' = [inserted EXCEPT ![w] = {}]
    /\ UNCHANGED retweaked

BloomNext ==
    /\ \E w \in Which :
          \/ \E e \in Element : Insert(w, e)
          \/ \E x \in Which : Merge(w, x)
          \/ \E t \in Tweak : SetTweak(w, t)
          \/ ClearFilter(w)
    /\ UNCHANGED <<countingVars, codedVars, clientVars>>

-----------------------------------------------------------------------------
(* The counting filter: positions are from 0, the even one of a byte in its *)
(* high half.                                                               *)

Base == MaxCounter + 1
High(byte) == byte \div Base
Low(byte) == byte % Base
GetCounter(bytes, pos) ==
    LET byte == bytes[pos \div 2 + 1] IN IF pos % 2 = 0 THEN High(byte) ELSE Low(byte)
SetCounter(bytes, pos, value) ==
    [bytes EXCEPT ![pos \div 2 + 1] = IF pos % 2 = 0 THEN value * Base + Low(@) ELSE High(@) * Base + value]

Increment(bytes, pos) ==
    IF GetCounter(bytes, pos) < MaxCounter THEN SetCounter(bytes, pos, GetCounter(bytes, pos) + 1) ELSE bytes

(* Variant: the whole byte is counted down.                                 *)
DecrementByte(bytes, pos) ==
    IF GetCounter(bytes, pos) > 0 THEN [bytes EXCEPT ![pos \div 2 + 1] = @ - 1] ELSE bytes

Decrement(bytes, pos) ==
    IF GetCounter(bytes, pos) > 0 THEN SetCounter(bytes, pos, GetCounter(bytes, pos) - 1) ELSE bytes

AnyTweak == CHOOSE t \in Tweak : TRUE
Hashes(e) == Positions[AnyTweak][e]
CountingContains(e) == \A k \in 1..Len(Hashes(e)) : GetCounter(counters, Hashes(e)[k]) > 0

(* Additions one by one: two hashes of an element may meet in a counter.    *)
Add(e) ==
    /\ added[e] < MaxAdds
    /\ counters' = FoldLeft(Increment, counters, Hashes(e))
    /\ added' = [added EXCEPT ![e] = @ + 1]
    /\ saturated' = (saturated \/ \E k \in 1..Len(Hashes(e)) :
                         GetCounter(FoldLeft(Increment, counters, SubSeq(Hashes(e), 1, k - 1)), Hashes(e)[k]) = MaxCounter)

(* remove: "Only call if element was previously added."                     *)
RemoveOnce(e) ==
    /\ added[e] > 0
    /\ counters' = FoldLeft(Decrement, counters, Hashes(e))
    /\ added' = [added EXCEPT ![e] = @ - 1]
    /\ UNCHANGED saturated

ClearCounting ==
    /\ counters' = [i \in 1..Bytes |-> 0]
    /\ added' = [e \in Element |-> 0]
    /\ saturated' = FALSE

(* to_rle: pairs of a run length and a byte, a run no longer than MaxRun.   *)
ToRle(bytes) ==
    LET Extend(runs, byte) ==
            IF runs # <<>> /\ Last(runs)[2] = byte /\ Last(runs)[1] < MaxRun
              THEN Append(Front(runs), <<Last(runs)[1] + 1, byte>>)
              ELSE Append(runs, <<1, byte>>)
    IN  FoldLeft(Extend, <<>>, bytes)
FromRle(runs) == FlattenSeq([k \in 1..Len(runs) |-> [i \in 1..runs[k][1] |-> runs[k][2]]])

CountingNext ==
    /\ (\E e \in Element : Add(e) \/ RemoveOnce(e)) \/ ClearCounting
    /\ UNCHANGED <<bloomVars, codedVars, clientVars>>

-----------------------------------------------------------------------------
(* The Golomb-coded set.  The data is a sequence of bits; a byte is eight   *)
(* of them, most significant first, and the last byte is padded with zeros. *)

GolombM == 2^GolombP
HashToRange(e, n) == HashOf[e] % (n * GolombM)
Deltas(values) == [k \in 1..Len(values) |-> values[k] - (IF k = 1 THEN 0 ELSE values[k - 1])]

(* Variant: the quotient is written without its final zero.                 *)
EncodeDeltaOpen(delta) ==
    [k \in 1..(delta \div GolombM) |-> 1]
    \o [k \in 1..GolombP |-> (delta \div 2^(GolombP - k)) % 2]

EncodeDelta(delta) ==
    [k \in 1..(delta \div GolombM) |-> 1] \o <<0>>
    \o [k \in 1..GolombP |-> (delta \div 2^(GolombP - k)) % 2]

GolombEncode(deltas) ==
    LET bits == FlattenSeq([k \in 1..Len(deltas) |-> EncodeDelta(deltas[k])])
        missing == (8 - (Len(bits) % 8)) % 8
    IN  bits \o [k \in 1..missing |-> 0]

(* golomb_decode: one delta per round, from a position; bits past the end   *)
(* are not read.                                                            *)
DecodeOne(bits, start) ==
    LET q == CHOOSE q \in 0..Len(bits) :
                 /\ \A j \in 1..q : start + j - 1 <= Len(bits) /\ bits[start + j - 1] = 1
                 /\ start + q > Len(bits) \/ bits[start + q] = 0
        first == start + q + 1
        there == SelectSeq([k \in 1..GolombP |-> first + k - 1], LAMBDA i : i <= Len(bits))
        r == FoldLeft(LAMBDA value, i : 2 * value + bits[i], 0, there)
    IN  [delta |-> q * GolombM + r, next |-> first + Len(there)]
GolombDecode(bits, n) ==
    LET Round(state, k) ==
            IF state.next > Len(bits) THEN state
            ELSE LET one == DecodeOne(bits, state.next)
                 IN  [deltas |-> Append(state.deltas, one.delta), next |-> one.next]
    IN  FoldLeft(Round, [deltas |-> <<>>, next |-> 1], [k \in 1..n |-> k]).deltas

(* GcsFilter::new                                                           *)
NewCoded(list) ==
    LET n == Len(list)
        values == SortSeq([k \in 1..n |-> HashToRange(list[k], n)], <)
    IN  IF n = 0 THEN [n |-> 0, data |-> <<>>] ELSE [n |-> n, data |-> GolombEncode(Deltas(values))]

MatchAny(gcs, queries) ==
    /\ gcs.n > 0 /\ queries # <<>>
    /\ LET deltas == GolombDecode(gcs.data, gcs.n)
           values == {FoldLeft(LAMBDA a, b : a + b, 0, SubSeq(deltas, 1, k)) : k \in 1..Len(deltas)}
       IN  \E k \in 1..Len(queries) : HashToRange(queries[k], gcs.n) \in values

CodedNext ==
    /\ scripts = <<>>
    /\ \E list \in SeqOf(Element, 3) : scripts' = list /\ coded' = NewCoded(list)
    /\ UNCHANGED <<bloomVars, countingVars, clientVars>>

-----------------------------------------------------------------------------
(* The clients of the bus adapter.                                          *)

(* create_filter: the addresses and then, if there are any, the noise.  The *)
(* configuration is valid, and filters are of one size, within the limit: a *)
(* request refused for another reason than MaxElements changes nothing too. *)
CreateFilter(addresses) ==
    LET noise == IF addresses = {} THEN {} ELSE Noise
    IN  FoldLeft(Inserted, EmptyFilter(AnyTweak), SetToSeq(addresses) \o SetToSeq(noise))

HandleBuildFilter(c, addresses) ==
    /\ Cardinality(addresses) <= MaxElements
    /\ active_filters' = Store(active_filters, c, CreateFilter(addresses))
    /\ watched' = Store(watched, c, addresses)
    /\ UNCHANGED <<rate_limits, current_block, last_update>>

(* Variant: a contract creation has no address to look for.                 *)
MatchesAddressed(f, tx) == MayContain(f, tx.from) \/ (tx.to # "none" /\ MayContain(f, tx.to))

(* matches, with the receipt that get_filtered_transactions gives: None.    *)
Matches(f, tx) ==
    \/ MayContain(f, tx.from)
    \/ MayContain(f, IF tx.to # "none" THEN tx.to ELSE tx.created)

FilteredTransactions(c) == {tx \in Transaction : Matches(active_filters[c], tx)}

SetCurrentBlock(h) ==
    /\ current_block' = h
    /\ UNCHANGED <<active_filters, watched, rate_limits, last_update>>

(* Variant: a new window keeps the block at which the first one began.      *)
NewWindowKeeping(entry) == [entry EXCEPT !.count = 1]
NewWindow(entry) == [block |-> current_block, count |-> 1]

(* validate_update_filter, check_update_rate_limit.                         *)
UpdateFilter(c) ==
    LET entry == IF c \in DOMAIN rate_limits THEN rate_limits[c] ELSE [block |-> current_block, count |-> 0]
        fresh == current_block >= entry.block + RateLimitBlocks
        passes == fresh \/ entry.count < 1
    IN  /\ rate_limits' = Store(rate_limits, c, IF fresh THEN NewWindow(entry)
                                                ELSE [entry EXCEPT !.count = 1])
        /\ last_update' = IF passes THEN Store(last_update, c, current_block) ELSE last_update
        /\ UNCHANGED <<active_filters, watched, current_block>>

ClientNext ==
    /\ \/ \E c \in Client :
              \/ \E addresses \in SUBSET Element : HandleBuildFilter(c, addresses)
              \/ UpdateFilter(c)
       \/ \E h \in 0..MaxHeight : SetCurrentBlock(h)
    /\ UNCHANGED <<bloomVars, countingVars, codedVars>>

-----------------------------------------------------------------------------
(* No filter forgets: what was inserted into a Bloom filter, directly or    *)
(* through a merge, is contained in it, as long as no tweak changed under   *)
(* it (INVARIANT-2, domain/bloom_filter.rs:7); what was added to a counting *)
(* filter more often than removed is contained in it, as long as no counter *)
(* was full, and its encoding decodes to it; every script of a Golomb-coded *)
(* set matches; and a transaction whose sender, recipient or new contract a *)
(* client watches is among those selected for the client.                   *)
FiltersKeepMembers ==
    /\ ~retweaked => \A w \in Which : \A e \in inserted[w] : MayContain(filter[w], e)
    /\ ~saturated => \A e \in Element : added[e] > 0 => CountingContains(e)
    /\ FromRle(ToRle(counters)) = counters
    /\ \A k \in 1..Len(scripts) : MatchAny(coded, <<scripts[k]>>)
    /\ \A c \in DOMAIN watched : \A tx \in Transaction :
           {tx.from, IF tx.to # "none" THEN tx.to ELSE tx.created} \cap watched[c] # {}
               => tx \in FilteredTransactions(c)

(* A client's window begins with the last update that passed and has no     *)
(* room for another, also when the height has gone back since: two updates  *)
(* that pass are RATE_LIMIT_BLOCKS apart (handler/ipc_handler.rs:118 "max 1 *)
(* update per 10 blocks").                                                   *)
WindowsFollowUpdates ==
    \A c \in DOMAIN last_update : rate_limits[c] = [block |-> last_update[c], count |-> 1]

-----------------------------------------------------------------------------
(* What the comments say, and the code does not do.                         *)

(* domain/bloom_filter.rs:114 "INVARIANT-2: If an element was inserted, this *)
(* MUST return true."  set_tweak keeps the bits of the old tweak, and merge *)
(* asserts the same m and k but not the same tweak.                         *)
NoFalseNegatives == \A w \in Which : \A e \in inserted[w] : MayContain(filter[w], e)

(* domain/counting_bloom.rs:31 "Supports both add AND remove operations".    *)
(* A full counter stops counting up but goes on counting down.              *)
AddedIsContained == \A e \in Element : added[e] > 0 => CountingContains(e)

(* ports/inbound.rs:93 "Returns all transactions that match the filter".    *)
(* The receipts, and with them the log addresses, are not looked at.        *)
LogsAreSelected ==
    \A c \in DOMAIN watched : \A tx \in Transaction :
        tx.logs \cap watched[c] # {} => tx \in FilteredTransactions(c)

=============================================================================
