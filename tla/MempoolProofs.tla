--------------------------- MODULE MempoolProofs ---------------------------
(* The indexes of the pool agree, its limits hold and a proposed            *)
(* transaction is not displaced, for every set of transactions.             *)
EXTENDS Mempool, FiniteSetTheorems, TLAPS

Entry == [state : {"Pending", "PendingInclusion"}, added_at : Nat, proposed_at : Nat]

\* The inductive invariant of the indexes: with the type of the entries,
\* IndexesAgree is preserved by every action.
IndexInv ==
    /\ now \in Nat
    /\ DOMAIN by_hash \subseteq Tx
    /\ \A t \in DOMAIN by_hash : by_hash[t] \in Entry
    /\ IndexesAgree

\* The slot of a transaction is occupied by a transaction of that slot.
LEMMA SlotHolder ==
    ASSUME IndexInv, NEW t \in Tx, Slot(t) \in DOMAIN by_sender
    PROVE  /\ by_sender[Slot(t)] \in DOMAIN by_hash
           /\ Slot(by_sender[Slot(t)]) = Slot(t)
<1>1. PICK x \in DOMAIN by_hash : Slot(x) = Slot(t)
  BY DEF IndexInv, IndexesAgree
<1>2. by_sender[Slot(t)] = x
  BY <1>1 DEF IndexInv, IndexesAgree
<1> QED
  BY <1>1, <1>2

\* add_internal after the removal of the victims keeps the indexes together
\* when the slot of the newcomer is free by then.
LEMMA ExchangeKeeps ==
    ASSUME IndexInv, now' = now,
           NEW t \in Tx, NEW V \in SUBSET DOMAIN by_hash,
           t \notin DOMAIN by_hash,
           \A x \in DOMAIN by_hash \ V : Slot(x) /= Slot(t),
           Exchange(V, t)
    PROVE  IndexInv'
<1>1. DOMAIN by_hash' = (DOMAIN by_hash \ V) \cup {t}
  BY DEF Exchange, Store, Without
<1>2. by_hash'[t] = Fresh(now) /\ Fresh(now) \in Entry /\ Fresh(now).state = "Pending"
  BY DEF Exchange, Store, Without, Fresh, Entry, IndexInv
<1>3. \A x \in DOMAIN by_hash \ V : by_hash'[x] = by_hash[x]
  BY DEF Exchange, Store, Without
<1>4. by_price' = {x \in DOMAIN by_hash' : by_hash'[x].state /= "PendingInclusion"}
  BY <1>1, <1>2, <1>3 DEF Exchange, IndexInv, IndexesAgree, IsPendingInclusion
<1>5. DOMAIN by_sender' = (DOMAIN by_sender \ {Slot(v) : v \in V}) \cup {Slot(t)}
  BY DEF Exchange, Store, Without
<1>6. \A x \in DOMAIN by_hash, y \in DOMAIN by_hash : Slot(x) = Slot(y) => x = y
  BY DEF IndexInv, IndexesAgree
<1>7. DOMAIN by_sender' = {Slot(x) : x \in DOMAIN by_hash'}
  BY <1>1, <1>5, <1>6 DEF IndexInv, IndexesAgree
<1>8. \A x \in DOMAIN by_hash' : by_sender'[Slot(x)] = x
  <2>1. by_sender'[Slot(t)] = t
    BY DEF Exchange, Store, Without
  <2>2. ASSUME NEW x \in DOMAIN by_hash \ V PROVE by_sender'[Slot(x)] = x
    <3>1. Slot(x) \in DOMAIN by_sender \ {Slot(v) : v \in V}
      BY <1>6 DEF IndexInv, IndexesAgree
    <3>2. by_sender'[Slot(x)] = by_sender[Slot(x)]
      BY <3>1 DEF Exchange, Store, Without
    <3> QED
      BY <3>2 DEF IndexInv, IndexesAgree
  <2> QED
    BY <1>1, <2>1, <2>2
<1> QED
  BY <1>1, <1>2, <1>3, <1>4, <1>7, <1>8 DEF IndexInv, IndexesAgree, IsPendingInclusion, Slot

\* remove_internal of any transactions keeps the indexes together.
LEMMA RemoveKeeps ==
    ASSUME IndexInv, now' = now, NEW V, RemoveAll(V)
    PROVE  IndexInv'
<1>1. DOMAIN by_hash' = DOMAIN by_hash \ V
  BY DEF RemoveAll, Without
<1>2. \A x \in DOMAIN by_hash' : by_hash'[x] = by_hash[x]
  BY DEF RemoveAll, Without
<1>3. by_price' = {x \in DOMAIN by_hash' : by_hash'[x].state /= "PendingInclusion"}
  BY <1>1, <1>2 DEF RemoveAll, IndexInv, IndexesAgree, IsPendingInclusion
<1>4. \A x \in DOMAIN by_hash, y \in DOMAIN by_hash : Slot(x) = Slot(y) => x = y
  BY DEF IndexInv, IndexesAgree
<1>5. DOMAIN by_sender' = DOMAIN by_sender \ {Slot(v) : v \in V \cap DOMAIN by_hash}
  BY DEF RemoveAll, Without
<1>6. DOMAIN by_sender' = {Slot(x) : x \in DOMAIN by_hash'}
  BY <1>1, <1>4, <1>5 DEF IndexInv, IndexesAgree
<1>7. \A x \in DOMAIN by_hash' : by_sender'[Slot(x)] = x
  BY <1>1, <1>6 DEF RemoveAll, Without, IndexInv, IndexesAgree
<1> QED
  BY <1>1, <1>2, <1>3, <1>6, <1>7 DEF IndexInv, IndexesAgree, IsPendingInclusion, Slot

\* The branches of add that change the pool: victims leave and the newcomer
\* takes a free slot, or victims leave and nothing comes.  No victim is
\* waiting for its block.
Victims(V) == V \subseteq DOMAIN by_hash /\ \A v \in V : ~IsPendingInclusion(v)
FreeSlot(V, t) == \A x \in DOMAIN by_hash \ V : Slot(x) /= Slot(t)

LEMMA TryRbfOrAddCases ==
    ASSUME IndexInv, NEW t \in Tx, NEW E, Victims(E), TryRbfOrAdd(E, t)
    PROVE  \/ \E V : E \subseteq V /\ Victims(V) /\ FreeSlot(V, t) /\ Exchange(V, t)
           \/ RemoveAll(E)
<1> DEFINE old == by_sender[Slot(t)]
<1>1. CASE Slot(t) \in DOMAIN by_sender /\ old \notin E
  <2>1. old \in DOMAIN by_hash /\ Slot(old) = Slot(t)
    BY <1>1, SlotHolder
  <2>2. FreeSlot(E \cup {old}, t)
    BY <2>1 DEF FreeSlot, IndexInv, IndexesAgree
  <2>3. CASE EnableRbf /\ CanReplace(old, t)
    <3>1. Victims(E \cup {old})
      BY <2>1, <2>3 DEF Victims, CanReplace
    <3>2. Exchange(E \cup {old}, t)
      BY <1>1, <2>3 DEF TryRbfOrAdd
    <3> HIDE DEF old
    <3> QED
      BY <2>2, <3>1, <3>2
  <2>4. CASE ~(EnableRbf /\ CanReplace(old, t))
    BY <1>1, <2>4 DEF TryRbfOrAdd
  <2> QED
    BY <2>3, <2>4
<1>2. CASE ~(Slot(t) \in DOMAIN by_sender /\ old \notin E)
  <2>1. Exchange(E, t)
    BY <1>2 DEF TryRbfOrAdd
  <2>2. FreeSlot(E, t)
    BY <1>2 DEF FreeSlot, IndexInv, IndexesAgree
  <2> QED
    BY <2>1, <2>2
<1> QED
  BY <1>1, <1>2

\* What add does to the pool, as the limits see it: nothing, a removal, an
\* exchange that removes something, or an addition below both limits; with
\* the account at its limit, only an exchange for one of its own.
AddCases(t) ==
    \/ UNCHANGED indexes
    \/ \E V : Victims(V) /\ RemoveAll(V)
    \/ /\ AtAccountLimit(t)
       /\ \E v \in DOMAIN by_hash :
             Victims({v}) /\ FreeSlot({v}, t) /\ SenderOf[v] = SenderOf[t] /\ Exchange({v}, t)
    \/ /\ ~AtAccountLimit(t)
       /\ \E V : /\ Victims(V) /\ FreeSlot(V, t) /\ Exchange(V, t)
                 /\ V = {} => Cardinality(DOMAIN by_hash) < MaxTransactions

LEMMA AddDoes ==
    ASSUME IndexInv, NEW t \in Tx, AddTransaction(t)
    PROVE  AddCases(t)
<1>1. CASE AtAccountLimit(t)
  <2> DEFINE old == by_sender[Slot(t)]
  <2>1. CASE EnableRbf /\ Slot(t) \in DOMAIN by_sender /\ CanReplace(old, t)
    <3>1. old \in DOMAIN by_hash /\ Slot(old) = Slot(t)
      BY <2>1, SlotHolder
    <3>2. Exchange({old}, t)
      BY <1>1, <2>1 DEF AddTransaction, TryRbfAtLimit
    <3>3. Victims({old})
      BY <2>1, <3>1 DEF Victims, CanReplace
    <3>4. FreeSlot({old}, t)
      BY <3>1 DEF FreeSlot, IndexInv, IndexesAgree
    <3>5. SenderOf[old] = SenderOf[t]
      BY <3>1 DEF Slot
    <3> HIDE DEF old
    <3> QED
      BY <1>1, <3>1, <3>2, <3>3, <3>4, <3>5 DEF AddCases
  <2>2. CASE ~(EnableRbf /\ Slot(t) \in DOMAIN by_sender /\ CanReplace(old, t))
    <3>1. UNCHANGED indexes
      BY <1>1, <2>2 DEF AddTransaction, TryRbfAtLimit
    <3> QED
      BY <3>1 DEF AddCases
  <2> QED
    BY <2>1, <2>2
<1>2. CASE ~AtAccountLimit(t) /\ Cardinality(DOMAIN by_hash) < MaxTransactions
  <2>1. TryRbfOrAdd({}, t)
    BY <1>2 DEF AddTransaction
  <2>2. Victims({})
    BY DEF Victims
  <2>3. \/ \E V : Victims(V) /\ FreeSlot(V, t) /\ Exchange(V, t)
        \/ RemoveAll({})
    BY <2>1, <2>2, TryRbfOrAddCases
  <2> QED
    BY <1>2, <2>2, <2>3 DEF AddCases
<1>3. CASE ~AtAccountLimit(t) /\ ~(Cardinality(DOMAIN by_hash) < MaxTransactions)
  <2>1. CASE Evictable(t) = {}
    <3>1. UNCHANGED indexes
      BY <1>3, <2>1 DEF AddTransaction
    <3> QED
      BY <3>1 DEF AddCases
  <2>2. CASE Evictable(t) /= {}
    <3>1. PICK low \in Evictable(t) : TryRbfOrAdd({low}, t)
      BY <1>3, <2>2 DEF AddTransaction
    <3>2. Victims({low})
      BY <3>1 DEF Victims, Evictable, IndexInv, IndexesAgree
    <3>3. \/ \E V : {low} \subseteq V /\ Victims(V) /\ FreeSlot(V, t) /\ Exchange(V, t)
          \/ RemoveAll({low})
      BY <3>1, <3>2, TryRbfOrAddCases
    <3> QED
      BY <1>3, <3>2, <3>3 DEF AddCases
  <2> QED
    BY <2>1, <2>2
<1> QED
  BY <1>1, <1>2, <1>3

\* A change of states that keeps the pool keeps the indexes, when the price
\* index follows it.
LEMMA RestateKeeps ==
    ASSUME IndexInv, now' = now, UNCHANGED by_sender,
           DOMAIN by_hash' = DOMAIN by_hash,
           \A t \in DOMAIN by_hash : by_hash'[t] \in Entry,
           by_price' = {t \in DOMAIN by_hash : by_hash'[t].state /= "PendingInclusion"}
    PROVE  IndexInv'
BY DEF IndexInv, IndexesAgree, IsPendingInclusion, Slot

LEMMA ProposeKeeps ==
    ASSUME IndexInv, now' = now, NEW hashes, Propose(hashes)
    PROVE  IndexInv' /\ DOMAIN by_hash' = DOMAIN by_hash
<1> DEFINE moved == {t \in hashes \cap DOMAIN by_hash : ~IsPendingInclusion(t)}
<1>1. by_hash' = [t \in DOMAIN by_hash |->
                    IF t \in moved
                    THEN [by_hash[t] EXCEPT !.state = "PendingInclusion", !.proposed_at = now]
                    ELSE by_hash[t]]
      /\ by_price' = by_price \ moved /\ UNCHANGED by_sender
  BY DEF Propose
<1>2. \A t \in DOMAIN by_hash : by_hash[t] \in Entry
  BY DEF IndexInv
<1>3. now \in Nat
  BY DEF IndexInv
<1>4. moved \subseteq DOMAIN by_hash
  OBVIOUS
<1>5. by_price = {t \in DOMAIN by_hash : by_hash[t].state /= "PendingInclusion"}
  BY DEF IndexInv, IndexesAgree, IsPendingInclusion
<1> HIDE DEF moved
<1>6. \A t \in moved : by_hash'[t] \in Entry /\ by_hash'[t].state = "PendingInclusion"
  BY <1>1, <1>2, <1>3, <1>4 DEF Entry
<1>7. \A t \in DOMAIN by_hash \ moved : by_hash'[t] = by_hash[t]
  BY <1>1
<1>8. DOMAIN by_hash' = DOMAIN by_hash
  BY <1>1
<1>9. by_price' = {t \in DOMAIN by_hash : by_hash'[t].state /= "PendingInclusion"}
  BY <1>1, <1>4, <1>5, <1>6, <1>7
<1> QED
  BY <1>1, <1>2, <1>6, <1>7, <1>8, <1>9, RestateKeeps

LEMMA RollbackKeeps ==
    ASSUME IndexInv, now' = now, NEW hashes, RolledBack(hashes)
    PROVE  IndexInv' /\ DOMAIN by_hash' = DOMAIN by_hash
<1> DEFINE back == {t \in hashes \cap DOMAIN by_hash : IsPendingInclusion(t)}
<1>1. by_hash' = [t \in DOMAIN by_hash |->
                    IF t \in back
                    THEN [by_hash[t] EXCEPT !.state = "Pending", !.proposed_at = 0]
                    ELSE by_hash[t]]
      /\ by_price' = by_price \cup back /\ UNCHANGED by_sender
  BY DEF RolledBack
<1>2. \A t \in DOMAIN by_hash : by_hash[t] \in Entry
  BY DEF IndexInv
<1>3. back \subseteq DOMAIN by_hash
  OBVIOUS
<1>4. by_price = {t \in DOMAIN by_hash : by_hash[t].state /= "PendingInclusion"}
  BY DEF IndexInv, IndexesAgree, IsPendingInclusion
<1> HIDE DEF back
<1>5. \A t \in back : by_hash'[t] \in Entry /\ by_hash'[t].state = "Pending"
  BY <1>1, <1>2, <1>3 DEF Entry
<1>6. \A t \in DOMAIN by_hash \ back : by_hash'[t] = by_hash[t]
  BY <1>1
<1>7. DOMAIN by_hash' = DOMAIN by_hash
  BY <1>1
<1>8. by_price' = {t \in DOMAIN by_hash : by_hash'[t].state /= "PendingInclusion"}
  BY <1>1, <1>3, <1>4, <1>5, <1>6
<1> QED
  BY <1>1, <1>2, <1>5, <1>6, <1>7, <1>8, RestateKeeps

-----------------------------------------------------------------------------
(* The limits.                                                             *)

Own(s) == {u \in DOMAIN by_hash : SenderOf[u] = s}

\* The limits, with the finiteness that cardinalities need.
LimitInv == IsFiniteSet(DOMAIN by_hash) /\ LimitsRespected

LEMMA AtMostOneMore ==
    ASSUME NEW S, IsFiniteSet(S), NEW x, NEW R \in SUBSET (S \cup {x})
    PROVE  IsFiniteSet(R) /\ Cardinality(R) <= Cardinality(S) + 1
<1>1. IsFiniteSet(S \cup {x}) /\ Cardinality(S \cup {x}) <= Cardinality(S) + 1
  <2>1. Cardinality(S \cup {x}) = IF x \in S THEN Cardinality(S) ELSE Cardinality(S) + 1
    BY FS_AddElement
  <2>2. Cardinality(S) \in Nat
    BY FS_CardinalityType
  <2> QED
    BY <2>1, <2>2, FS_AddElement
<1>2. IsFiniteSet(R) /\ Cardinality(R) <= Cardinality(S \cup {x})
  BY <1>1, FS_Subset
<1> QED
  BY <1>1, <1>2, FS_CardinalityType

LEMMA AtMostAsMany ==
    ASSUME NEW S, IsFiniteSet(S), NEW v \in S, NEW x, NEW R \in SUBSET ((S \ {v}) \cup {x})
    PROVE  IsFiniteSet(R) /\ Cardinality(R) <= Cardinality(S)
<1>1. IsFiniteSet(S \ {v}) /\ Cardinality(S \ {v}) = Cardinality(S) - 1
  BY FS_RemoveElement
<1>2. IsFiniteSet(R) /\ Cardinality(R) <= Cardinality(S \ {v}) + 1
  BY <1>1, AtMostOneMore
<1> QED
  BY <1>1, <1>2, FS_CardinalityType

\* by_sender counts the transactions of an account.
LEMMA SenderCountCounts ==
    ASSUME IndexInv, IsFiniteSet(DOMAIN by_hash), NEW s
    PROVE  SenderCount(s) = Cardinality(Own(s))
<1> DEFINE K == {k \in DOMAIN by_sender : k[1] = s}
           f == [u \in Own(s) |-> Slot(u)]
<1>1. IsFiniteSet(Own(s))
  BY FS_Subset DEF Own
<1>2. \A u \in Own(s) : Slot(u) \in K /\ by_sender[Slot(u)] = u
  BY DEF Own, Slot, IndexInv, IndexesAgree
<1>3. \A k \in K : \E u \in Own(s) : k = Slot(u)
  BY DEF Own, Slot, IndexInv, IndexesAgree
<1>4. f \in Bijection(Own(s), K)
  <2>1. f \in [Own(s) -> K]
    BY <1>2
  <2>2. \A a, b \in Own(s) : f[a] = f[b] => a = b
    BY <1>2
  <2>3. \A k \in K : \E u \in Own(s) : f[u] = k
    BY <1>3
  <2> HIDE DEF f, K
  <2>4. f \in Injection(Own(s), K) /\ f \in Surjection(Own(s), K)
    BY <2>1, <2>2, <2>3 DEF Injection, Surjection, IsInjective
  <2> QED
    BY <2>4 DEF Bijection
<1> HIDE DEF f
<1>5. ExistsBijection(Own(s), K)
  BY <1>4 DEF ExistsBijection
<1>6. Cardinality(K) = Cardinality(Own(s))
  BY <1>1, <1>5, FS_Bijection
<1> QED
  BY <1>6 DEF SenderCount

\* A pool whose every account is a subset of what it was is within its limits.
LEMMA FewerIsWithin ==
    ASSUME LimitInv, DOMAIN by_hash' \subseteq DOMAIN by_hash
    PROVE  LimitInv'
<1>1. IsFiniteSet(DOMAIN by_hash') /\ Cardinality(DOMAIN by_hash') <= Cardinality(DOMAIN by_hash)
  BY FS_Subset DEF LimitInv
<1>2. Cardinality(DOMAIN by_hash') <= MaxTransactions
  BY <1>1, FS_CardinalityType, MempoolAssumption DEF LimitInv, LimitsRespected
<1>3. ASSUME NEW t \in DOMAIN by_hash'
      PROVE  Cardinality({u \in DOMAIN by_hash' : SenderOf[u] = SenderOf[t]}) <= MaxPerAccount
  <2> DEFINE R == {u \in DOMAIN by_hash' : SenderOf[u] = SenderOf[t]}
  <2>1. R \subseteq Own(SenderOf[t]) /\ Own(SenderOf[t]) \subseteq DOMAIN by_hash
    BY DEF Own
  <2>2. IsFiniteSet(Own(SenderOf[t]))
    BY <2>1, FS_Subset DEF LimitInv
  <2>3. IsFiniteSet(R) /\ Cardinality(R) <= Cardinality(Own(SenderOf[t]))
    BY <2>1, <2>2, FS_Subset
  <2>4. Cardinality(Own(SenderOf[t])) <= MaxPerAccount
    BY <1>3 DEF LimitInv, LimitsRespected, Own
  <2> QED
    BY <2>2, <2>3, <2>4, FS_CardinalityType, MempoolAssumption
<1> QED
  BY <1>1, <1>2, <1>3 DEF LimitInv, LimitsRespected

\* A newcomer keeps the limits when the pool and its account have room for
\* it or lose a transaction for it.
LEMMA NewcomerWithin ==
    ASSUME LimitInv, NEW t \in Tx, NEW V \in SUBSET DOMAIN by_hash,
           DOMAIN by_hash' = (DOMAIN by_hash \ V) \cup {t},
           V /= {} \/ Cardinality(DOMAIN by_hash) < MaxTransactions,
           \/ Cardinality(Own(SenderOf[t])) < MaxPerAccount
           \/ \E v \in V : SenderOf[v] = SenderOf[t]
    PROVE  LimitInv'
<1>1. IsFiniteSet(DOMAIN by_hash) /\ Cardinality(DOMAIN by_hash) <= MaxTransactions
  BY DEF LimitInv, LimitsRespected
<1>2. IsFiniteSet(DOMAIN by_hash') /\ Cardinality(DOMAIN by_hash') <= MaxTransactions
  <2>1. CASE V /= {}
    <3>1. PICK v \in V : TRUE
      BY <2>1
    <3>2. DOMAIN by_hash' \in SUBSET ((DOMAIN by_hash \ {v}) \cup {t})
      OBVIOUS
    <3>3. IsFiniteSet(DOMAIN by_hash') /\ Cardinality(DOMAIN by_hash') <= Cardinality(DOMAIN by_hash)
      BY <1>1, <3>2, AtMostAsMany
    <3> QED
      BY <1>1, <3>3, FS_CardinalityType, MempoolAssumption
  <2>2. CASE Cardinality(DOMAIN by_hash) < MaxTransactions
    <3>1. DOMAIN by_hash' \in SUBSET (DOMAIN by_hash \cup {t})
      OBVIOUS
    <3>2. IsFiniteSet(DOMAIN by_hash') /\ Cardinality(DOMAIN by_hash') <= Cardinality(DOMAIN by_hash) + 1
      BY <1>1, <3>1, AtMostOneMore
    <3> QED
      BY <1>1, <2>2, <3>2, FS_CardinalityType, MempoolAssumption
  <2> QED
    BY <2>1, <2>2
<1>3. ASSUME NEW x \in DOMAIN by_hash'
      PROVE  Cardinality({u \in DOMAIN by_hash' : SenderOf[u] = SenderOf[x]}) <= MaxPerAccount
  <2> DEFINE s == SenderOf[x]
             R == {u \in DOMAIN by_hash' : SenderOf[u] = s}
  <2>0. IsFiniteSet(Own(s))
    BY <1>1, FS_Subset DEF Own
  <2>1. Cardinality(Own(s)) \in Nat /\ (Own(s) /= {} => Cardinality(Own(s)) <= MaxPerAccount)
    BY <2>0, FS_CardinalityType DEF LimitInv, LimitsRespected, Own
  <2>2. CASE s /= SenderOf[t]
    <3>1. R \subseteq Own(s) /\ Own(s) /= {}
      BY <2>2 DEF Own
    <3>2. IsFiniteSet(R) /\ Cardinality(R) <= Cardinality(Own(s))
      BY <2>0, <3>1, FS_Subset
    <3> QED
      BY <2>1, <3>1, <3>2, FS_CardinalityType, MempoolAssumption
  <2>3. CASE s = SenderOf[t] /\ Cardinality(Own(s)) < MaxPerAccount
    <3>1. R \in SUBSET (Own(s) \cup {t})
      BY DEF Own
    <3>2. IsFiniteSet(R) /\ Cardinality(R) <= Cardinality(Own(s)) + 1
      BY <2>0, <3>1, AtMostOneMore
    <3> QED
      BY <2>1, <2>3, <3>2, FS_CardinalityType, MempoolAssumption
  <2>4. ASSUME s = SenderOf[t], NEW v \in V, SenderOf[v] = s
        PROVE  Cardinality(R) <= MaxPerAccount
    <3>1. v \in Own(s) /\ R \in SUBSET ((Own(s) \ {v}) \cup {t})
      BY <2>4 DEF Own
    <3>2. IsFiniteSet(R) /\ Cardinality(R) <= Cardinality(Own(s))
      BY <2>0, <3>1, AtMostAsMany
    <3> QED
      BY <2>1, <3>1, <3>2, FS_CardinalityType, MempoolAssumption
  <2> QED
    BY <2>2, <2>3, <2>4
<1> QED
  BY <1>2, <1>3 DEF LimitInv, LimitsRespected

-----------------------------------------------------------------------------
(* One step.                                                               *)

LEMMA ExchangeDomain ==
    ASSUME NEW V, NEW t, Exchange(V, t)
    PROVE  DOMAIN by_hash' = (DOMAIN by_hash \ V) \cup {t}
BY DEF Exchange, Store, Without

ProposedStay == \A u \in DOMAIN by_hash : IsPendingInclusion(u) => u \in DOMAIN by_hash'

LEMMA AddKeeps ==
    ASSUME IndexInv, LimitInv, NEW t \in Tx, AddTransaction(t)
    PROVE  /\ IndexInv' /\ LimitInv'
           /\ ProposedStay
<1>1. now' = now /\ t \notin DOMAIN by_hash
  BY DEF AddTransaction
<1>2. CASE UNCHANGED indexes
  BY <1>1, <1>2 DEF indexes, ProposedStay, IndexInv, IndexesAgree, IsPendingInclusion, LimitInv, LimitsRespected, Slot
<1>3. ASSUME NEW V, Victims(V), RemoveAll(V)
      PROVE  /\ IndexInv' /\ LimitInv'
             /\ ProposedStay
  <2>1. DOMAIN by_hash' = DOMAIN by_hash \ V
    BY <1>3 DEF RemoveAll, Without
  <2> QED
    BY <1>1, <1>3, <2>1, RemoveKeeps, FewerIsWithin DEF Victims, ProposedStay
<1>4. ASSUME NEW V, Victims(V), FreeSlot(V, t), Exchange(V, t),
             V /= {} \/ Cardinality(DOMAIN by_hash) < MaxTransactions,
             \/ Cardinality(Own(SenderOf[t])) < MaxPerAccount
             \/ \E v \in V : SenderOf[v] = SenderOf[t]
      PROVE  /\ IndexInv' /\ LimitInv'
             /\ ProposedStay
  <2>1. V \in SUBSET DOMAIN by_hash
    BY <1>4 DEF Victims
  <2>2. DOMAIN by_hash' = (DOMAIN by_hash \ V) \cup {t}
    BY <1>4, ExchangeDomain
  <2>3. IndexInv'
    BY <1>1, <1>4, <2>1, ExchangeKeeps DEF FreeSlot
  <2>4. LimitInv'
    BY <1>4, <2>1, <2>2, NewcomerWithin
  <2> QED
    BY <1>4, <2>2, <2>3, <2>4 DEF Victims, ProposedStay
<1>5. AtAccountLimit(t) <=> ~(Cardinality(Own(SenderOf[t])) < MaxPerAccount)
  <2>1. IsFiniteSet(DOMAIN by_hash) /\ IsFiniteSet(Own(SenderOf[t]))
    BY FS_Subset DEF LimitInv, Own
  <2>2. SenderCount(SenderOf[t]) = Cardinality(Own(SenderOf[t]))
    BY <2>1, SenderCountCounts
  <2> QED
    BY <2>1, <2>2, FS_CardinalityType, MempoolAssumption DEF AtAccountLimit
<1>6. AddCases(t)
  BY AddDoes
<1>7. ASSUME AtAccountLimit(t),
             NEW v \in DOMAIN by_hash, Victims({v}), FreeSlot({v}, t),
             SenderOf[v] = SenderOf[t], Exchange({v}, t)
      PROVE  /\ IndexInv' /\ LimitInv'
             /\ ProposedStay
  <2>1. {v} /= {} /\ \E w \in {v} : SenderOf[w] = SenderOf[t]
    BY <1>7
  <2> QED
    BY <1>4, <1>7, <2>1
<1>8. ASSUME ~AtAccountLimit(t),
             NEW V, Victims(V), FreeSlot(V, t), Exchange(V, t),
             V = {} => Cardinality(DOMAIN by_hash) < MaxTransactions
      PROVE  /\ IndexInv' /\ LimitInv'
             /\ ProposedStay
  BY <1>4, <1>5, <1>8
<1> QED
  BY <1>2, <1>3, <1>6, <1>7, <1>8 DEF AddCases

LEMMA Step ==
    ASSUME IndexInv, LimitInv, [Next]_vars
    PROVE  IndexInv' /\ LimitInv'
<1>1. ASSUME NEW t \in Tx, AddTransaction(t) PROVE IndexInv' /\ LimitInv'
  BY <1>1, AddKeeps
<1>2. CASE GetTransactions
  BY <1>2, ProposeKeeps, FewerIsWithin DEF GetTransactions
<1>3. CASE ProposeChosen
  BY <1>3, ProposeKeeps, FewerIsWithin DEF ProposeChosen
<1>4. ASSUME NEW hashes, Confirm(hashes) \/ RemoveTransactions(hashes)
      PROVE  IndexInv' /\ LimitInv'
  <2>1. RemoveAll(hashes) /\ now' = now
    BY <1>4 DEF Confirm, RemoveTransactions
  <2>2. DOMAIN by_hash' \subseteq DOMAIN by_hash
    BY <2>1 DEF RemoveAll, Without
  <2> QED
    BY <2>1, <2>2, RemoveKeeps, FewerIsWithin
<1>5. ASSUME NEW hashes, BlockRejected(hashes) PROVE IndexInv' /\ LimitInv'
  BY <1>5, RollbackKeeps, FewerIsWithin DEF BlockRejected
<1>6. CASE CleanupTimeouts
  BY <1>6, RollbackKeeps, FewerIsWithin DEF CleanupTimeouts
<1>7. CASE ReadForBlock \/ Tick \/ UNCHANGED vars
  <2>1. UNCHANGED indexes /\ now' \in Nat
    BY <1>7 DEF ReadForBlock, Tick, vars, indexes, IndexInv
  <2> QED
    BY <2>1 DEF indexes, IndexInv, IndexesAgree, IsPendingInclusion, LimitInv, LimitsRespected, Slot
<1> QED
  BY <1>1, <1>2, <1>3, <1>4, <1>5, <1>6, <1>7 DEF Next

LEMMA Start ==
    ASSUME Init
    PROVE  IndexInv /\ LimitInv
<1>1. DOMAIN by_hash = {} /\ DOMAIN by_sender = {} /\ by_price = {} /\ now = 0
  BY DEF Init
<1>2. IndexInv
  BY <1>1 DEF IndexInv, IndexesAgree
<1>3. IsFiniteSet(DOMAIN by_hash) /\ Cardinality(DOMAIN by_hash) = 0
  BY <1>1, FS_EmptySet
<1> QED
  BY <1>1, <1>2, <1>3, MempoolAssumption DEF LimitInv, LimitsRespected

\* Every behaviour of the pool satisfies the inductive invariant.
LEMMA Always == Spec => [](IndexInv /\ LimitInv)
<1>1. Init => IndexInv /\ LimitInv
  BY Start
<1>2. IndexInv /\ LimitInv /\ [Next]_vars => (IndexInv /\ LimitInv)'
  BY Step
<1> QED
  BY <1>1, <1>2, PTL DEF Spec

\* The indexes of TransactionPool agree after every call, for every set of
\* transactions and every configuration.
THEOREM IndexesAlwaysAgree == Spec => []IndexesAgree
<1>1. IndexInv /\ LimitInv => IndexesAgree
  BY DEF IndexInv
<1> QED
  BY <1>1, Always, PTL

\* max_transactions and max_per_account hold after every add.
THEOREM LimitsAlwaysRespected == Spec => []LimitsRespected
<1>1. IndexInv /\ LimitInv => LimitsRespected
  BY DEF LimitInv
<1> QED
  BY <1>1, Always, PTL

\* Whatever is added, replaced, evicted, proposed, confirmed or expired, the
\* pool's indexes agree and its limits hold.
THEOREM PoolAlwaysSound == Spec => []PoolIsSound
<1>1. IndexesAgree /\ LimitsRespected => PoolIsSound
  BY DEF PoolIsSound
<1> QED
  BY <1>1, IndexesAlwaysAgree, LimitsAlwaysRespected, PTL

\* add never evicts or replaces a transaction that waits for its block.
THEOREM ProposedAreNotDisplaced == Spec => ProposedNotDisplaced
<1> DEFINE Kept == \A t \in DOMAIN by_hash :
                      IsPendingInclusion(t) /\ (\E u \in Tx : AddTransaction(u)) => t \in DOMAIN by_hash'
<1>1. IndexInv /\ LimitInv /\ [Next]_vars => [Kept]_vars
  BY AddKeeps DEF ProposedStay
<1> QED
  BY <1>1, Always, PTL DEF Spec, ProposedNotDisplaced
=============================================================================
