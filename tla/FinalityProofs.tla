--------------------------- MODULE FinalityProofs ---------------------------
(***************************************************************************)
(* The stake of a checkpoint is that of the votes on record, justified     *)
(* checkpoints have a quorum of different validators or a double voter,    *)
(* finalized ones have a justified successor, and nothing final is taken   *)
(* back, for every set of validators, stakes and attestations, any number  *)
(* of concurrent calls of process_attestations and every limit on what is  *)
(* kept.                                                                   *)
(***************************************************************************)
EXTENDS Finality, FiniteSetTheorems, WellFoundedInduction, TLAPS

-----------------------------------------------------------------------------
(* Sums over finite sets. *)

(* Induction over the natural numbers, from the well-foundedness of <. *)
LEMMA Least ==
    ASSUME NEW T \in SUBSET Nat, T # {}
    PROVE  \E x \in T : \A y \in T : x <= y
<1> DEFINE R == OpToRel(<, Nat)
<1>1. \A x, y \in Nat : y < x => <<y, x>> \in R
    BY DEF OpToRel
<1>2. IsWellFoundedOn(R, Nat)
    BY NatLessThanWellFounded
<1> HIDE DEF R
<1>3. PICK x \in T : \A y \in T : ~(<<y, x>> \in R)
    BY <1>2, WFMin
<1>4. \A y \in T : ~(y < x)
    BY <1>1, <1>3
<1> QED BY <1>4

LEMMA Induction ==
    ASSUME NEW T, 0 \in T, \A n \in Nat : n \in T => n + 1 \in T
    PROVE  Nat \subseteq T
<1> SUFFICES ASSUME Nat \ T # {} PROVE FALSE
    OBVIOUS
<1>1. PICK x \in Nat \ T : \A y \in Nat \ T : x <= y
    BY Least
<1>2. x # 0 /\ x - 1 \in Nat /\ x - 1 \in T
    BY <1>1
<1> QED BY <1>1, <1>2

(* The folds of the community modules are recursive functions on the         *)
(* subsets of a finite set: there is one.                                    *)
Chooses(c, S) == \A s \in SUBSET S : s # {} => c[s] \in s
IsFold(it, S, base, o, c) ==
    it = [s \in SUBSET S |-> IF s = {} THEN base ELSE o[c[s]][it[s \ {c[s]}]]]

LEMMA FoldExists ==
    ASSUME NEW S, IsFiniteSet(S), NEW Y, NEW base, base \in Y, NEW o, o \in [S -> [Y -> Y]],
           NEW c, Chooses(c, S)
    PROVE  \E it \in [SUBSET S -> Y] : IsFold(it, S, base, o, c)
<1> DEFINE D(n) == {s \in SUBSET S : Cardinality(s) <= n}
           Is(it, n) == \A s \in D(n) : it[s] = IF s = {} THEN base ELSE o[c[s]][it[s \ {c[s]}]]
           T == {n \in Nat : \E it \in [D(n) -> Y] : Is(it, n)}
<1>1. \A s \in SUBSET S : IsFiniteSet(s) /\ Cardinality(s) \in Nat /\ (Cardinality(s) = 0 <=> s = {})
    BY FS_Subset, FS_CardinalityType, FS_EmptySet
<1>2. \A s \in SUBSET S : s # {} => s \ {c[s]} \in SUBSET S /\ Cardinality(s \ {c[s]}) = Cardinality(s) - 1
    BY <1>1, FS_RemoveElement DEF Chooses
<1>3. 0 \in T
    <2> DEFINE it == [s \in D(0) |-> base]
    <2>1. \A s \in D(0) : s = {}
        BY <1>1
    <2>2. it \in [D(0) -> Y]
        OBVIOUS
    <2>3. Is(it, 0)
        BY <2>1
    <2> HIDE DEF it, D, Is
    <2> QED BY <2>2, <2>3
<1>4. ASSUME NEW n \in Nat, n \in T PROVE n + 1 \in T
    <2>1. PICK it \in [D(n) -> Y] : Is(it, n)
        BY <1>4
    <2> DEFINE nx == [s \in D(n + 1) |-> IF s \in D(n) THEN it[s] ELSE o[c[s]][it[s \ {c[s]}]]]
    <2>2. \A s \in D(n + 1) : s \notin D(n) => s # {} /\ c[s] \in S /\ s \ {c[s]} \in D(n)
        BY <1>1, <1>2 DEF Chooses
    <2>3. \A s \in D(n + 1) : s \notin D(n) => o[c[s]][it[s \ {c[s]}]] \in Y
        BY <2>2
    <2>4. nx \in [D(n + 1) -> Y]
        BY <2>3
    <2>5. \A s \in D(n + 1) : s # {} => s \ {c[s]} \in D(n) /\ s \ {c[s]} \in D(n + 1)
        BY <1>1, <1>2
    <2>6. \A s \in D(n) : s \in D(n + 1) /\ nx[s] = it[s]
        BY <1>1
    <2>7. Is(nx, n + 1)
        <3> SUFFICES ASSUME NEW s \in D(n + 1)
                     PROVE  nx[s] = IF s = {} THEN base ELSE o[c[s]][nx[s \ {c[s]}]]
            OBVIOUS
        <3>1. CASE s \in D(n)
            BY <2>1, <2>5, <2>6, <3>1
        <3>2. CASE s \notin D(n)
            BY <2>2, <2>6, <3>2
        <3> QED BY <3>1, <3>2
    <2> HIDE DEF nx, D, Is
    <2> QED BY <2>4, <2>7
<1>5. Cardinality(S) \in T
    <2> HIDE DEF T
    <2>1. Nat \subseteq T
        BY <1>3, <1>4, Induction
    <2> QED BY <2>1, FS_CardinalityType
<1>6. D(Cardinality(S)) = SUBSET S
    BY FS_Subset
<1>7. PICK it \in [SUBSET S -> Y] : Is(it, Cardinality(S))
    BY <1>5, <1>6
<1>8. it = [s \in SUBSET S |-> it[s]]
    OBVIOUS
<1>9. it = [s \in SUBSET S |-> IF s = {} THEN base ELSE o[c[s]][it[s \ {c[s]}]]]
    BY <1>6, <1>7, <1>8
<1> QED BY <1>9 DEF IsFold

(* A sum over a finite set, as the community modules fold it.  Whatever      *)
(* element the fold takes first, every element is added once.                *)
IsSum(it, f, S) ==
    /\ it \in [SUBSET S -> Nat] /\ it[{}] = 0
    /\ \A s \in SUBSET S : \A x \in s : it[s] = f[x] + it[s \ {x}]

LEMMA SumExists ==
    ASSUME NEW S, IsFiniteSet(S), NEW f, \A x \in S : f[x] \in Nat
    PROVE  \E it : IsSum(it, f, S) /\ it[S] = SumFunctionOnSet(f, S)
<1> DEFINE c == [s \in SUBSET S |-> CHOOSE x \in s : TRUE]
           o == [x \in S |-> [y \in Nat |-> f[x] + y]]
           F(it) == [s \in SUBSET S |-> IF s = {} THEN 0
                        ELSE f[CHOOSE x \in s : TRUE] + it[s \ {CHOOSE x \in s : TRUE}]]
           iter == CHOOSE it : it = F(it)
<1>1. o \in [S -> [Nat -> Nat]]
    OBVIOUS
<1>2. \A s \in SUBSET S : s # {} => c[s] \in s
    OBVIOUS
<1>3. \A s \in SUBSET S : c[s] = CHOOSE x \in s : TRUE
    OBVIOUS
<1>4. \A x \in S, y \in Nat : o[x][y] = f[x] + y
    OBVIOUS
<1>5. PICK it \in [SUBSET S -> Nat] : IsFold(it, S, 0, o, c)
    <2> HIDE DEF o, c
    <2>1. Chooses(c, S)
        BY <1>2 DEF Chooses
    <2> QED BY <1>1, <2>1, FoldExists
<1>6. it = F(it)
    <2>1. ASSUME NEW s \in SUBSET S, s # {}
          PROVE  o[c[s]][it[s \ {c[s]}]] = f[CHOOSE x \in s : TRUE] + it[s \ {CHOOSE x \in s : TRUE}]
        BY <1>2, <1>3, <1>4, <2>1
    <2> QED BY <1>5, <2>1 DEF IsFold
<1>7. iter = F(iter)
    <2> HIDE DEF F
    <2> QED BY <1>6
<1>8. SumFunctionOnSet(f, S) = iter[S]
    BY DEF SumFunctionOnSet, FoldFunctionOnSet, MapThenFoldSet
<1>9. /\ DOMAIN iter = SUBSET S /\ iter[{}] = 0
      /\ \A s \in SUBSET S : s # {} => \E x \in s : iter[s] = f[x] + iter[s \ {x}]
    BY <1>2, <1>3, <1>7
<1>10. iter = [s \in SUBSET S |-> iter[s]]
    BY <1>7
<1> HIDE DEF iter
<1>11. \A s \in SUBSET S : IsFiniteSet(s) /\ Cardinality(s) \in Nat /\ (Cardinality(s) = 0 <=> s = {})
    BY FS_Subset, FS_CardinalityType, FS_EmptySet
<1> DEFINE Ok(s) == iter[s] \in Nat /\ \A x \in s : iter[s] = f[x] + iter[s \ {x}]
           N == {k \in Nat : \A s \in SUBSET S : Cardinality(s) <= k => Ok(s)}
<1>12. 0 \in N
    <2>1. \A s \in SUBSET S : Cardinality(s) <= 0 => s = {}
        BY <1>11
    <2>2. Ok({})
        BY <1>9
    <2> HIDE DEF Ok
    <2> QED BY <2>1, <2>2
<1>13. ASSUME NEW k \in Nat, k \in N PROVE k + 1 \in N
    <2> SUFFICES ASSUME NEW s \in SUBSET S, Cardinality(s) = k + 1 PROVE Ok(s)
        <3> HIDE DEF Ok
        <3>1. \A s \in SUBSET S : Cardinality(s) <= k + 1 => Cardinality(s) <= k \/ Cardinality(s) = k + 1
            BY <1>11
        <3> QED BY <1>13, <3>1
    <2>1. s # {}
        BY <1>11
    <2>2. PICK y \in s : iter[s] = f[y] + iter[s \ {y}]
        BY <1>9, <2>1
    <2>3. \A x \in s : Cardinality(s \ {x}) = k /\ s \ {x} \in SUBSET S
        <3> TAKE x \in s
        <3>1. Cardinality(s \ {x}) = Cardinality(s) - 1
            BY <1>11, FS_RemoveElement
        <3> QED BY <3>1
    <2>4. \A x \in s : Ok(s \ {x})
        <3> HIDE DEF Ok
        <3> QED BY <1>13, <2>3
    <2>5. iter[s] \in Nat
        BY <2>2, <2>4
    <2>6. ASSUME NEW x \in s PROVE iter[s] = f[x] + iter[s \ {x}]
        <3>1. CASE x = y
            BY <2>2, <3>1
        <3>2. CASE x # y
            <4>1. x \in s \ {y} /\ y \in s \ {x} /\ (s \ {y}) \ {x} = (s \ {x}) \ {y}
                BY <3>2
            <4> DEFINE r == iter[(s \ {x}) \ {y}]
                       p == iter[s \ {x}]
                       q == iter[s \ {y}]
            <4>2. p = f[y] + r /\ q = f[x] + r
                BY <2>4, <4>1
            <4>3. p \in Nat /\ q \in Nat /\ r \in Nat
                <5>1. Cardinality((s \ {x}) \ {y}) <= k /\ (s \ {x}) \ {y} \in SUBSET S
                    <6>1. IsFiniteSet(s \ {x}) /\ Cardinality(s \ {x}) = k /\ s \ {x} \in SUBSET S
                        BY <1>11, <2>3
                    <6>2. Cardinality((s \ {x}) \ {y}) = Cardinality(s \ {x}) - 1
                        BY <4>1, <6>1, FS_RemoveElement
                    <6> QED BY <6>1, <6>2
                <5>2. Ok((s \ {x}) \ {y})
                    <6> HIDE DEF Ok
                    <6> QED BY <1>13, <5>1
                <5> QED BY <2>4, <5>2
            <4>4. f[x] \in Nat /\ f[y] \in Nat
                OBVIOUS
            <4>5. iter[s] = f[y] + q
                BY <2>2
            <4> HIDE DEF p, q, r
            <4>6. iter[s] = f[x] + p
                BY <4>2, <4>3, <4>4, <4>5
            <4> QED BY <4>6 DEF p
        <3> QED BY <3>1, <3>2
    <2> QED BY <2>5, <2>6
<1>14. Nat \subseteq N
    <2> HIDE DEF N
    <2> QED BY <1>12, <1>13, Induction
<1>15. \A s \in SUBSET S : Ok(s)
    <2> TAKE s \in SUBSET S
    <2>1. Cardinality(s) \in Nat /\ Cardinality(s) <= Cardinality(s)
        BY <1>11
    <2> HIDE DEF Ok
    <2> QED BY <1>14, <2>1
<1>16. iter \in [SUBSET S -> Nat]
    BY <1>10, <1>15
<1>17. IsSum(iter, f, S)
    BY <1>9, <1>15, <1>16 DEF IsSum
<1> QED BY <1>8, <1>17

(* Sums of the same numbers over the same set agree.                        *)
LEMMA SumsAgree ==
    ASSUME NEW S, IsFiniteSet(S), NEW R, S \subseteq R, NEW f, NEW g, \A x \in S : f[x] = g[x],
           NEW it, IsSum(it, f, S), NEW other, IsSum(other, g, R)
    PROVE  it[S] = other[S]
<1>1. \A s \in SUBSET S : IsFiniteSet(s) /\ Cardinality(s) \in Nat /\ (Cardinality(s) = 0 <=> s = {})
    BY FS_Subset, FS_CardinalityType, FS_EmptySet
<1> DEFINE N == {k \in Nat : \A s \in SUBSET S : Cardinality(s) = k => it[s] = other[s]}
<1>2. 0 \in N
    BY <1>1 DEF IsSum
<1>3. ASSUME NEW k \in Nat, k \in N PROVE k + 1 \in N
    <2> SUFFICES ASSUME NEW s \in SUBSET S, Cardinality(s) = k + 1 PROVE it[s] = other[s]
        OBVIOUS
    <2>1. PICK x \in s : TRUE
        BY <1>1
    <2>2. Cardinality(s \ {x}) = k /\ s \ {x} \in SUBSET S
        <3>1. Cardinality(s \ {x}) = Cardinality(s) - 1
            BY <1>1, FS_RemoveElement
        <3> QED BY <3>1
    <2>3. it[s \ {x}] = other[s \ {x}]
        BY <1>3, <2>2
    <2>4. s \in SUBSET R
        OBVIOUS
    <2>5. it[s] = f[x] + it[s \ {x}] /\ other[s] = g[x] + other[s \ {x}] /\ f[x] = g[x]
        BY <2>4 DEF IsSum
    <2> QED BY <2>3, <2>5
<1>4. Nat \subseteq N
    <2> HIDE DEF N
    <2> QED BY <1>2, <1>3, Induction
<1> QED BY <1>1, <1>4

LEMMA SumEmpty == \A f : SumFunctionOnSet(f, {}) = 0
<1> TAKE f
<1>1. PICK it : IsSum(it, f, {}) /\ it[{}] = SumFunctionOnSet(f, {})
    BY SumExists, FS_EmptySet
<1> QED BY <1>1 DEF IsSum

LEMMA SumSame ==
    ASSUME NEW S, IsFiniteSet(S), NEW f, NEW g, \A x \in S : f[x] \in Nat /\ f[x] = g[x]
    PROVE  SumFunctionOnSet(f, S) = SumFunctionOnSet(g, S)
<1>1. PICK it : IsSum(it, f, S) /\ it[S] = SumFunctionOnSet(f, S)
    BY SumExists
<1>2. \A x \in S : g[x] \in Nat
    OBVIOUS
<1>3. PICK other : IsSum(other, g, S) /\ other[S] = SumFunctionOnSet(g, S)
    BY <1>2, SumExists
<1>4. it[S] = other[S]
    BY <1>1, <1>3, SumsAgree
<1> QED BY <1>1, <1>3, <1>4

LEMMA SumAdds ==
    ASSUME NEW S, IsFiniteSet(S), NEW f, NEW x, x \notin S, \A y \in S \cup {x} : f[y] \in Nat
    PROVE  SumFunctionOnSet(f, S \cup {x}) = f[x] + SumFunctionOnSet(f, S)
<1> DEFINE R == S \cup {x}
<1>1. IsFiniteSet(R)
    BY FS_AddElement
<1>2. PICK other : IsSum(other, f, R) /\ other[R] = SumFunctionOnSet(f, R)
    BY <1>1, SumExists
<1>3. PICK it : IsSum(it, f, S) /\ it[S] = SumFunctionOnSet(f, S)
    BY SumExists
<1>4. it[S] = other[S]
    <2>1. S \subseteq R /\ \A y \in S : f[y] = f[y]
        OBVIOUS
    <2> HIDE DEF R
    <2> QED BY <1>2, <1>3, <2>1, SumsAgree
<1>5. R \in SUBSET R /\ x \in R /\ R \ {x} = S
    OBVIOUS
<1> HIDE DEF R
<1>6. other[R] = f[x] + other[S]
    BY <1>2, <1>5 DEF IsSum
<1>7. SumFunctionOnSet(f, R) = f[x] + SumFunctionOnSet(f, S)
    BY <1>2, <1>3, <1>4, <1>6
<1> QED BY <1>7 DEF R

LEMMA SumIsNat ==
    ASSUME NEW S, IsFiniteSet(S), NEW f, \A x \in S : f[x] \in Nat
    PROVE  SumFunctionOnSet(f, S) \in Nat
<1>1. PICK it : IsSum(it, f, S) /\ it[S] = SumFunctionOnSet(f, S)
    BY SumExists
<1> QED BY <1>1 DEF IsSum

LEMMA StakeOfVoters ==
    ASSUME NEW voters \in SUBSET Validator
    PROVE  IsFiniteSet(voters) /\ StakeOf(voters) \in Nat
<1>1. IsFiniteSet(voters) /\ \A v \in voters : Stake[v] \in Nat
    BY FinalityAssumption, FS_Subset
<1> QED BY <1>1, SumIsNat DEF StakeOf

LEMMA StakeOfOneMore ==
    ASSUME NEW voters \in SUBSET Validator, NEW v \in Validator, v \notin voters
    PROVE  StakeOf(voters \cup {v}) = Stake[v] + StakeOf(voters)
<1>1. IsFiniteSet(voters) /\ \A x \in voters \cup {v} : Stake[x] \in Nat
    BY FinalityAssumption, FS_Subset
<1> QED BY <1>1, SumAdds DEF StakeOf

LEMMA StakeOfNone == StakeOf({}) = 0
BY SumEmpty DEF StakeOf

LEMMA TotalStakeIsNat == TotalStake \in Nat
BY FinalityAssumption, StakeOfVoters DEF TotalStake

-----------------------------------------------------------------------------
(* Justification and finalization. *)

Hash == {a.hash : a \in Attestation}
Checkpoint ==
    [hash : Hash, state : {"Pending", "Justified", "Finalized"}, attested_stake : Nat]

(* A map from epochs to checkpoints. *)
CheckpointsOk == DOMAIN checkpoints \subseteq Nat /\ \A e \in DOMAIN checkpoints : checkpoints[e] \in Checkpoint

(* A call that is about to apply an attestation has one. *)
State == [pc : {"idle", "check", "apply", "notify"}, todo : Seq(Attestation), epoch : Nat]
CallsOk ==
    /\ call \in [Call -> State]
    /\ \A c \in Call : call[c].pc = "apply" => call[c].todo # <<>>

(* The counter that try_justify compares is beyond the threshold, and stays  *)
(* there.  Whose votes it counts is the subject of the last section.         *)
CounterIsQuorum ==
    \A e \in DOMAIN checkpoints :
        IsJustified(e) => 3 * checkpoints[e].attested_stake > 2 * TotalStake

(* What was justified last is still there: it is the epoch the next         *)
(* finalization is counted from, and pruning stays below it.                *)
LastIsJustified == last_justified # None => last_justified \in Nat /\ IsJustified(last_justified)

Inv ==
    /\ CheckpointsOk /\ CallsOk /\ LastIsJustified
    /\ CounterIsQuorum /\ FinalHasJustifiedSuccessor

(* Nothing is kept at first. *)
LEMMA InitInv == Init => Inv
<1> SUFFICES ASSUME Init PROVE Inv
    OBVIOUS
<1>1. DOMAIN checkpoints = {} /\ last_justified = None
    BY DEF Init
<1>2. CallsOk
    <2>1. <<>> \in Seq(Attestation)
        OBVIOUS
    <2>2. Idle \in State /\ Idle.pc = "idle"
        BY <2>1 DEF Idle, State
    <2> QED BY <2>2 DEF Init, CallsOk
<1> QED BY <1>1, <1>2 DEF Inv, CheckpointsOk, LastIsJustified, CounterIsQuorum, FinalHasJustifiedSuccessor

(* What the threshold of qc-09 means: more than two thirds. *)
LEMMA ThresholdIsQuorum ==
    ASSUME NEW stake \in Nat, MeetsThreshold(stake)
    PROVE  3 * stake > 2 * TotalStake
BY TotalStakeIsNat DEF MeetsThreshold

(* The gadget and what is final depend on these variables alone. *)
LEMMA Frame ==
    ASSUME Inv, CallsOk', UNCHANGED <<checkpoints, last_justified>>
    PROVE  Inv'
BY DEF Inv, CheckpointsOk, LastIsJustified, CounterIsQuorum, FinalHasJustifiedSuccessor, IsJustified

(* A vote leaves the other epochs alone.  It may add to the stake of its    *)
(* own, and may justify it, but does neither take stake nor a state back.   *)
LEMMA VoteDoes ==
    ASSUME Inv, NEW c \in Call, ApplyAttestation(c)
    PROVE  \E e \in Nat :
             /\ DOMAIN checkpoints' = DOMAIN checkpoints \cup {e}
             /\ \A x \in DOMAIN checkpoints \ {e} : checkpoints'[x] = checkpoints[x]
             /\ checkpoints'[e] \in Checkpoint
             /\ e \in DOMAIN checkpoints =>
                   /\ checkpoints'[e].hash = checkpoints[e].hash
                   /\ checkpoints'[e].attested_stake >= checkpoints[e].attested_stake
                   /\ checkpoints[e].state # "Pending" => checkpoints'[e].state = checkpoints[e].state
             /\ checkpoints'[e].state # "Pending" =>
                   \/ e \in DOMAIN checkpoints /\ checkpoints[e].state = checkpoints'[e].state
                   \/ /\ checkpoints'[e].state = "Justified"
                      /\ MeetsThreshold(checkpoints'[e].attested_stake)
             /\ last_justified' = last_justified \/ (last_justified' = e /\ checkpoints'[e].state # "Pending")
<1> DEFINE a == Head(call[c].todo)
           cp == CheckpointFor(a)
           stake == cp.attested_stake + Stake[a.validator]
           new == [cp EXCEPT !.attested_stake = stake,
                             !.state = IF CanJustify(cp, stake) THEN "Justified" ELSE @]
<1>1. a \in Attestation
    <2>1. call[c].todo \in Seq(Attestation) /\ call[c].todo # <<>>
        BY DEF ApplyAttestation, Inv, CallsOk, State
    <2> QED BY <2>1
<1> HIDE DEF a
<1>2. a.epoch \in Nat /\ a.hash \in Hash /\ Stake[a.validator] \in Nat
    BY <1>1, FinalityAssumption DEF Hash
<1>3. cp \in Checkpoint
    BY <1>2 DEF CheckpointFor, NewCheckpoint, Checkpoint, Inv, CheckpointsOk
<1>4. a.epoch \in DOMAIN checkpoints => cp = checkpoints[a.epoch]
    BY DEF CheckpointFor
<1>5. a.epoch \notin DOMAIN checkpoints => cp.state = "Pending"
    BY DEF CheckpointFor, NewCheckpoint
<1>6. \/ checkpoints' = Store(checkpoints, a.epoch, cp) /\ last_justified' = last_justified
      \/ /\ checkpoints' = Store(checkpoints, a.epoch, new)
         /\ last_justified' = IF CanJustify(cp, stake) THEN a.epoch ELSE last_justified
    BY DEF ApplyAttestation, a
<1> HIDE DEF cp
<1>7. /\ stake \in Nat /\ stake >= cp.attested_stake
      /\ new \in Checkpoint /\ new.hash = cp.hash /\ new.attested_stake = stake
      /\ new.state = IF CanJustify(cp, stake) THEN "Justified" ELSE cp.state
    <2>1. stake \in Nat /\ stake >= cp.attested_stake
        BY <1>2, <1>3 DEF Checkpoint
    <2> HIDE DEF stake
    <2>2. CASE CanJustify(cp, stake)
        <3>1. new = [cp EXCEPT !.attested_stake = stake, !.state = "Justified"]
            BY <2>2
        <3> QED BY <1>3, <2>1, <2>2, <3>1 DEF Checkpoint
    <2>3. CASE ~CanJustify(cp, stake)
        <3>1. new = [cp EXCEPT !.attested_stake = stake, !.state = cp.state]
            BY <2>3
        <3> QED BY <1>3, <2>1, <2>3, <3>1 DEF Checkpoint
    <2> QED BY <2>1, <2>2, <2>3
<1> HIDE DEF new, stake
<1>8. \A z : /\ DOMAIN Store(checkpoints, a.epoch, z) = DOMAIN checkpoints \cup {a.epoch}
             /\ Store(checkpoints, a.epoch, z)[a.epoch] = z
             /\ \A x \in DOMAIN checkpoints \ {a.epoch} : Store(checkpoints, a.epoch, z)[x] = checkpoints[x]
    BY DEF Store
<1>9. cp.attested_stake \in Nat
    BY <1>3 DEF Checkpoint
<1>10. CASE checkpoints' = Store(checkpoints, a.epoch, cp) /\ last_justified' = last_justified
    <2>1. /\ DOMAIN checkpoints' = DOMAIN checkpoints \cup {a.epoch} /\ checkpoints'[a.epoch] = cp
          /\ \A x \in DOMAIN checkpoints \ {a.epoch} : checkpoints'[x] = checkpoints[x]
        BY <1>8, <1>10
    <2>2. cp.attested_stake >= cp.attested_stake
        BY <1>9
    <2>3. last_justified' = last_justified
        BY <1>10
    <2> QED BY <1>2, <1>3, <1>4, <1>5, <2>1, <2>2, <2>3
<1>11. CASE /\ checkpoints' = Store(checkpoints, a.epoch, new)
            /\ last_justified' = IF CanJustify(cp, stake) THEN a.epoch ELSE last_justified
    <2>1. /\ DOMAIN checkpoints' = DOMAIN checkpoints \cup {a.epoch} /\ checkpoints'[a.epoch] = new
          /\ \A x \in DOMAIN checkpoints \ {a.epoch} : checkpoints'[x] = checkpoints[x]
        BY <1>8, <1>11
    <2>2. CASE CanJustify(cp, stake)
        <3>1. /\ new.state = "Justified" /\ MeetsThreshold(new.attested_stake) /\ cp.state = "Pending"
              /\ last_justified' = a.epoch
            BY <1>7, <1>11, <2>2 DEF CanJustify
        <3> HIDE <1>11
        <3> QED BY <1>2, <1>4, <1>7, <2>1, <3>1
    <2>3. CASE ~CanJustify(cp, stake)
        <3>1. new.state = cp.state /\ last_justified' = last_justified
            BY <1>7, <1>11, <2>3
        <3> HIDE <1>11
        <3> QED BY <1>2, <1>4, <1>5, <1>7, <2>1, <3>1
    <2> QED BY <2>2, <2>3
<1> QED BY <1>6, <1>10, <1>11

(* The same for the invariant: what a vote justifies has its quorum. *)
LEMMA VoteInv ==
    ASSUME Inv, NEW c \in Call, ApplyAttestation(c)
    PROVE  CheckpointsOk' /\ LastIsJustified' /\ CounterIsQuorum' /\ FinalHasJustifiedSuccessor'
<1>1. PICK e \in Nat :
         /\ DOMAIN checkpoints' = DOMAIN checkpoints \cup {e}
         /\ \A x \in DOMAIN checkpoints \ {e} : checkpoints'[x] = checkpoints[x]
         /\ checkpoints'[e] \in Checkpoint
         /\ e \in DOMAIN checkpoints =>
               /\ checkpoints'[e].hash = checkpoints[e].hash
               /\ checkpoints'[e].attested_stake >= checkpoints[e].attested_stake
               /\ checkpoints[e].state # "Pending" => checkpoints'[e].state = checkpoints[e].state
         /\ checkpoints'[e].state # "Pending" =>
               \/ e \in DOMAIN checkpoints /\ checkpoints[e].state = checkpoints'[e].state
               \/ /\ checkpoints'[e].state = "Justified"
                  /\ MeetsThreshold(checkpoints'[e].attested_stake)
         /\ last_justified' = last_justified \/ (last_justified' = e /\ checkpoints'[e].state # "Pending")
    BY VoteDoes
<1>2. CheckpointsOk'
    BY <1>1 DEF Inv, CheckpointsOk
<1>3. \A x \in DOMAIN checkpoints : checkpoints[x].state # "Pending" => checkpoints'[x].state = checkpoints[x].state
    BY <1>1
<1>4. LastIsJustified'
    BY <1>1, <1>3 DEF Inv, LastIsJustified, IsJustified
<1>5. CounterIsQuorum'
    <2> SUFFICES ASSUME NEW x \in DOMAIN checkpoints', IsJustified(x)'
                 PROVE  3 * checkpoints'[x].attested_stake > 2 * TotalStake
        BY DEF CounterIsQuorum
    <2>1. /\ checkpoints'[x].attested_stake \in Nat
          /\ x \in DOMAIN checkpoints => checkpoints[x].attested_stake \in Nat
          /\ TotalStake \in Nat
        BY <1>2, TotalStakeIsNat DEF Inv, CheckpointsOk, Checkpoint
    <2>2. CASE x # e
        BY <1>1, <2>2 DEF Inv, CounterIsQuorum, IsJustified
    <2>3. CASE x = e /\ MeetsThreshold(checkpoints'[e].attested_stake)
        BY <2>1, <2>3, ThresholdIsQuorum
    <2>4. CASE x = e /\ e \in DOMAIN checkpoints /\ checkpoints[e].state = checkpoints'[e].state
        <3>1. 3 * checkpoints[e].attested_stake > 2 * TotalStake
            BY <2>4 DEF Inv, CounterIsQuorum, IsJustified
        <3>2. checkpoints'[e].attested_stake >= checkpoints[e].attested_stake
            BY <1>1, <2>4
        <3> QED BY <2>1, <2>4, <3>1, <3>2
    <2> QED BY <1>1, <2>2, <2>3, <2>4 DEF IsJustified
<1>6. FinalHasJustifiedSuccessor'
    BY <1>1, <1>3 DEF Inv, FinalHasJustifiedSuccessor, IsJustified
<1> QED BY <1>2, <1>4, <1>5, <1>6

(* Finalization changes one state, from justified to finalized, and drops   *)
(* old epochs: none that is finalized at that moment or follows one that    *)
(* stays.                                                                   *)
LEMMA FinalizeDoes ==
    ASSUME Inv, NEW c \in Call, FinalizePrevious(c)
    PROVE  /\ PreviousEpoch \in DOMAIN checkpoints /\ last_justified \in Nat
           /\ \E oldest \in Nat :
                 /\ oldest <= PreviousEpoch
                 /\ DOMAIN checkpoints' = {x \in DOMAIN checkpoints : x >= oldest}
           /\ \A x \in DOMAIN checkpoints' :
                 /\ x \in DOMAIN checkpoints /\ checkpoints'[x] \in Checkpoint
                 /\ checkpoints'[x].hash = checkpoints[x].hash
                 /\ checkpoints'[x].attested_stake = checkpoints[x].attested_stake
                 /\ \/ checkpoints'[x].state = checkpoints[x].state
                    \/ /\ x = PreviousEpoch /\ checkpoints[x].state = "Justified"
                       /\ checkpoints'[x].state = "Finalized"
<1> DEFINE e == PreviousEpoch
           known == [checkpoints EXCEPT ![e].state = IF @ = "Justified" THEN "Finalized" ELSE @]
           oldest == IF e >= 2 THEN e - 2 ELSE 0
           full == Cardinality(DOMAIN known) > MaxCheckpoints
<1>1. e \in DOMAIN checkpoints /\ last_justified \in Nat
    BY DEF FinalizePrevious, CanFinalize, IsJustified, Inv, LastIsJustified
<1>2. e \in Nat /\ oldest \in Nat /\ oldest <= e
    BY <1>1 DEF Inv, CheckpointsOk
<1>3. checkpoints' = IF full THEN Without(known, {x \in DOMAIN known : x < oldest}) ELSE known
    BY DEF FinalizePrevious
<1>4. /\ DOMAIN known = DOMAIN checkpoints
      /\ \A x \in DOMAIN checkpoints \ {e} : known[x] = checkpoints[x]
      /\ known[e] = [checkpoints[e] EXCEPT !.state = IF @ = "Justified" THEN "Finalized" ELSE @]
    BY <1>1
<1>5. \A x \in DOMAIN checkpoints : x \in Nat /\ checkpoints[x] \in Checkpoint
    BY DEF Inv, CheckpointsOk
<1>6. /\ known[e] \in Checkpoint /\ known[e].hash = checkpoints[e].hash
      /\ known[e].attested_stake = checkpoints[e].attested_stake
      /\ known[e].state = IF checkpoints[e].state = "Justified" THEN "Finalized" ELSE checkpoints[e].state
    BY <1>1, <1>4, <1>5 DEF Checkpoint
<1> HIDE DEF known, full, e, oldest
<1>7. \/ DOMAIN checkpoints' = DOMAIN checkpoints
      \/ DOMAIN checkpoints' = {x \in DOMAIN checkpoints : x >= oldest}
    BY <1>2, <1>3, <1>4, <1>5 DEF Without
<1>8. \A x \in DOMAIN checkpoints' : x \in DOMAIN checkpoints /\ checkpoints'[x] = known[x]
    BY <1>3, <1>4 DEF Without
<1>9. \E o \in Nat : o <= e /\ DOMAIN checkpoints' = {x \in DOMAIN checkpoints : x >= o}
    <2>1. CASE DOMAIN checkpoints' = DOMAIN checkpoints
        <3>1. DOMAIN checkpoints' = {x \in DOMAIN checkpoints : x >= 0}
            BY <1>5, <2>1
        <3> QED BY <1>2, <3>1
    <2> QED BY <1>2, <1>7, <2>1
<1> QED BY <1>1, <1>4, <1>5, <1>6, <1>8, <1>9 DEF e

(* The epoch that is finalized has the one justified last after it. *)
LEMMA FinalizeInv ==
    ASSUME Inv, NEW c \in Call, FinalizePrevious(c)
    PROVE  CheckpointsOk' /\ LastIsJustified' /\ CounterIsQuorum' /\ FinalHasJustifiedSuccessor'
<1>1. PICK oldest \in Nat :
        oldest <= PreviousEpoch /\ DOMAIN checkpoints' = {x \in DOMAIN checkpoints : x >= oldest}
    BY FinalizeDoes
<1>2. \A x \in DOMAIN checkpoints' :
         /\ x \in DOMAIN checkpoints /\ checkpoints'[x] \in Checkpoint
         /\ checkpoints'[x].attested_stake = checkpoints[x].attested_stake
         /\ \/ checkpoints'[x].state = checkpoints[x].state
            \/ /\ x = PreviousEpoch /\ checkpoints[x].state = "Justified"
               /\ checkpoints'[x].state = "Finalized"
    BY FinalizeDoes
<1>3. last_justified' = last_justified
    BY DEF FinalizePrevious
<1>4. /\ last_justified \in Nat /\ PreviousEpoch \in Nat /\ PreviousEpoch + 1 = last_justified
      /\ IsJustified(last_justified)
    <2>1. last_justified \in Nat /\ PreviousEpoch \in DOMAIN checkpoints /\ last_justified # None
        BY FinalizeDoes DEF FinalizePrevious, CanFinalize
    <2> QED BY <2>1 DEF Inv, CheckpointsOk, LastIsJustified, PreviousEpoch
<1>5. \A x \in DOMAIN checkpoints' : IsJustified(x)' <=> IsJustified(x)
    BY <1>2 DEF IsJustified
<1>6. \A x \in Nat : x >= oldest /\ IsJustified(x) => IsJustified(x)'
    BY <1>1, <1>5 DEF IsJustified
<1>7. CheckpointsOk'
    BY <1>2 DEF Inv, CheckpointsOk
<1>8. LastIsJustified'
    BY <1>1, <1>3, <1>4, <1>6 DEF LastIsJustified
<1>9. CounterIsQuorum'
    BY <1>2, <1>5 DEF Inv, CounterIsQuorum
<1>10. FinalHasJustifiedSuccessor'
    <2> SUFFICES ASSUME NEW x \in DOMAIN checkpoints', checkpoints'[x].state = "Finalized"
                 PROVE  IsJustified(x + 1)'
        BY DEF FinalHasJustifiedSuccessor
    <2>1. x \in Nat /\ x >= oldest /\ x + 1 \in Nat /\ x + 1 >= oldest
        BY <1>1, <1>2 DEF Inv, CheckpointsOk
    <2>2. IsJustified(x + 1)
        BY <1>2, <1>4 DEF Inv, FinalHasJustifiedSuccessor
    <2> QED BY <1>6, <2>1, <2>2
<1> QED BY <1>7, <1>8, <1>9, <1>10

(* Every step keeps the calls well formed. *)
LEMMA CallsInv == Inv /\ [Next]_vars => CallsOk'
<1> SUFFICES ASSUME Inv, [Next]_vars PROVE CallsOk'
    OBVIOUS
<1>0. call \in [Call -> State] /\ \A c \in Call : call[c].pc = "apply" => call[c].todo # <<>>
    BY DEF Inv, CallsOk
<1>1. Idle \in State /\ Idle.pc = "idle"
    <2>1. <<>> \in Seq(Attestation)
        OBVIOUS
    <2> QED BY <2>1 DEF Idle, State
<1>2. ASSUME NEW c \in Call, NEW batch \in Batch, Begin(c, batch) PROVE CallsOk'
    <2>1. batch \in Seq(Attestation) /\ batch[1] \in Attestation
        BY FinalityAssumption DEF Batch
    <2>2. [pc |-> "check", todo |-> batch, epoch |-> batch[1].epoch] \in State
        BY <2>1, FinalityAssumption DEF State
    <2> QED BY <1>0, <1>2, <2>2 DEF Begin, CallsOk
<1>3. ASSUME NEW c \in Call, CheckSlashable(c) PROVE CallsOk'
    <2>1. Tail(call[c].todo) \in Seq(Attestation)
        BY <1>0, <1>3 DEF CheckSlashable, State
    <2>2. CASE call' = [call EXCEPT ![c].pc = "apply"]
        BY <1>0, <1>3, <2>2 DEF CheckSlashable, CallsOk, State
    <2>3. CASE call' = [call EXCEPT ![c].todo = Tail(@)]
        BY <1>0, <1>3, <2>1, <2>3 DEF CheckSlashable, CallsOk, State
    <2> QED BY <1>3, <2>2, <2>3 DEF CheckSlashable
<1>4. ASSUME NEW c \in Call, ApplyAttestation(c) PROVE CallsOk'
    <2>1. Tail(call[c].todo) \in Seq(Attestation)
        BY <1>0, <1>4 DEF ApplyAttestation, State
    <2>2. call' = [call EXCEPT ![c].pc = "check", ![c].todo = Tail(@)]
        BY <1>4 DEF ApplyAttestation
    <2> QED BY <1>0, <2>1, <2>2 DEF CallsOk, State
<1>5. ASSUME NEW c \in Call, FinalizePrevious(c) PROVE CallsOk'
    <2>1. call' = [call EXCEPT ![c].pc = "notify"]
        BY <1>5 DEF FinalizePrevious
    <2> QED BY <1>0, <2>1 DEF CallsOk, State
<1>6. ASSUME NEW c \in Call, NothingToFinalize(c) \/ \E ok \in BOOLEAN : Notified(c, ok) PROVE CallsOk'
    <2>1. call' = [call EXCEPT ![c] = Idle]
        BY <1>6 DEF NothingToFinalize, Notified
    <2> QED BY <1>0, <1>1, <2>1 DEF CallsOk
<1>7. CASE UNCHANGED vars
    BY <1>0, <1>7 DEF vars, CallsOk
<1> QED BY <1>2, <1>3, <1>4, <1>5, <1>6, <1>7 DEF Next

(* Every step of every call keeps the invariant. *)
LEMMA NextInv == Inv /\ [Next]_vars => Inv'
<1> SUFFICES ASSUME Inv, [Next]_vars PROVE Inv'
    OBVIOUS
<1>1. CallsOk'
    BY CallsInv
<1>2. ASSUME NEW c \in Call, NEW batch \in Batch, Begin(c, batch) PROVE Inv'
    BY <1>1, <1>2, Frame DEF Begin, gadget
<1>3. ASSUME NEW c \in Call, CheckSlashable(c) PROVE Inv'
    BY <1>1, <1>3, Frame DEF CheckSlashable
<1>4. ASSUME NEW c \in Call, ApplyAttestation(c) PROVE Inv'
    BY <1>1, <1>4, VoteInv DEF Inv
<1>5. ASSUME NEW c \in Call, FinalizePrevious(c) PROVE Inv'
    BY <1>1, <1>5, FinalizeInv DEF Inv
<1>6. ASSUME NEW c \in Call, NothingToFinalize(c) \/ \E ok \in BOOLEAN : Notified(c, ok) PROVE Inv'
    BY <1>1, <1>6, Frame DEF NothingToFinalize, Notified, gadget
<1>7. CASE UNCHANGED vars
    BY <1>1, <1>7, Frame DEF vars, gadget
<1> QED BY <1>2, <1>3, <1>4, <1>5, <1>6, <1>7 DEF Next

LEMMA InvHolds == Spec => []Inv
BY InitInv, NextInv, PTL DEF Spec

(* No step of a call changes the state or the block of a checkpoint that    *)
(* is final and kept.                                                       *)
LEMMA StepKeepsFinal ==
    ASSUME Inv, [Next]_vars,
           NEW e \in DOMAIN checkpoints \cap DOMAIN checkpoints', checkpoints[e].state = "Finalized"
    PROVE  checkpoints'[e].state = "Finalized" /\ checkpoints'[e].hash = checkpoints[e].hash
<1>1. ASSUME NEW c \in Call, ApplyAttestation(c)
      PROVE  checkpoints'[e].state = "Finalized" /\ checkpoints'[e].hash = checkpoints[e].hash
    BY <1>1, VoteDoes
<1>2. ASSUME NEW c \in Call, FinalizePrevious(c)
      PROVE  checkpoints'[e].state = "Finalized" /\ checkpoints'[e].hash = checkpoints[e].hash
    BY <1>2, FinalizeDoes
<1>3. CASE UNCHANGED checkpoints
    BY <1>3
<1>4. \/ \E c \in Call : ApplyAttestation(c) \/ FinalizePrevious(c)
      \/ UNCHANGED checkpoints
    BY DEF Next, Begin, CheckSlashable, NothingToFinalize, Notified, gadget, vars
<1> QED BY <1>1, <1>2, <1>3, <1>4

\* What check_finalization has finalized keeps a justified epoch after it,
\* also when late votes justify older epochs and old checkpoints are pruned.
THEOREM FinalAlwaysHasSuccessor == Spec => []FinalHasJustifiedSuccessor
<1>1. Inv => FinalHasJustifiedSuccessor
    BY DEF Inv
<1> QED BY <1>1, InvHolds, PTL

\* Neither a vote nor another finalization takes back a finalized checkpoint
\* or gives it another block, while the service keeps it.
THEOREM FinalNeverTakenBack == Spec => FinalIsStable
<1> DEFINE Kept == \A e \in DOMAIN checkpoints \cap DOMAIN checkpoints' :
                      checkpoints[e].state = "Finalized" =>
                          /\ checkpoints'[e].state = "Finalized"
                          /\ checkpoints'[e].hash = checkpoints[e].hash
<1>1. Inv /\ [Next]_vars => [Kept]_vars
    BY StepKeepsFinal
<1> HIDE DEF Kept
<1>2. Spec => [][Kept]_vars
    BY <1>1, InvHolds, PTL DEF Spec
<1> QED BY <1>2 DEF FinalIsStable, Kept

-----------------------------------------------------------------------------
(* The stake of a checkpoint. *)

Votes(e) == {t \in DOMAIN attestations : t[1] = e}
StakeFor == [t \in DOMAIN attestations |-> StakeOf(attestations[t])]

(* Votes are kept for epochs with a checkpoint alone, so a checkpoint that   *)
(* is created has none on record yet.                                        *)
AccountInv ==
    /\ IsFiniteSet(DOMAIN attestations)
    /\ \A t \in DOMAIN attestations : t[1] \in DOMAIN checkpoints /\ attestations[t] \subseteq Validator
    /\ \A e \in DOMAIN checkpoints : checkpoints[e].attested_stake = SumFunctionOnSet(StakeFor, Votes(e))

LEMMA StakesAreNumbers ==
    ASSUME AccountInv
    PROVE  /\ DOMAIN StakeFor = DOMAIN attestations
           /\ \A t \in DOMAIN attestations : StakeFor[t] = StakeOf(attestations[t]) /\ StakeFor[t] \in Nat
           /\ \A e : IsFiniteSet(Votes(e)) /\ Votes(e) \subseteq DOMAIN attestations
<1>1. ASSUME NEW t \in DOMAIN attestations
      PROVE  StakeFor[t] = StakeOf(attestations[t]) /\ StakeFor[t] \in Nat
    <2>1. attestations[t] \in SUBSET Validator
        BY DEF AccountInv
    <2> QED BY <2>1, StakeOfVoters DEF StakeFor
<1>2. ASSUME NEW e PROVE IsFiniteSet(Votes(e)) /\ Votes(e) \subseteq DOMAIN attestations
    BY FS_Subset DEF AccountInv, Votes
<1> QED BY <1>1, <1>2 DEF StakeFor

LEMMA AccountInit == Init => AccountInv
<1> SUFFICES ASSUME Init PROVE AccountInv
    OBVIOUS
<1>1. DOMAIN checkpoints = {} /\ DOMAIN attestations = {}
    BY DEF Init
<1> QED BY <1>1, FS_EmptySet DEF AccountInv

(* An epoch whose votes stay as they are keeps its sum. *)
LEMMA SameVotes ==
    ASSUME AccountInv, NEW e, Votes(e)' = Votes(e),
           \A t \in Votes(e) : attestations'[t] = attestations[t]
    PROVE  SumFunctionOnSet(StakeFor', Votes(e)') = SumFunctionOnSet(StakeFor, Votes(e))
<1> DEFINE S == Votes(e)
           f == StakeFor
           g == StakeFor'
<1>1. \A t \in S : t \in DOMAIN attestations /\ t \in DOMAIN attestations'
    BY DEF Votes
<1>2. \A t \in S : f[t] \in Nat /\ f[t] = g[t]
    BY <1>1, StakesAreNumbers DEF StakeFor
<1>3. IsFiniteSet(S)
    BY StakesAreNumbers
<1> HIDE DEF S, f, g
<1>4. SumFunctionOnSet(f, S) = SumFunctionOnSet(g, S)
    BY <1>2, <1>3, SumSame
<1> QED BY <1>4 DEF S, f, g

(* One more vote for a target of an epoch adds the stake of its validator.   *)
LEMMA VoteAdds ==
    ASSUME AccountInv, NEW t, NEW v \in Validator, NEW voters \in SUBSET Validator,
           t \in DOMAIN attestations => voters = attestations[t],
           t \notin DOMAIN attestations => voters = {},
           v \notin voters,
           attestations' = Store(attestations, t, voters \cup {v})
    PROVE  SumFunctionOnSet(StakeFor', Votes(t[1])') = Stake[v] + SumFunctionOnSet(StakeFor, Votes(t[1]))
<1> DEFINE S == Votes(t[1])
           f == StakeFor
           g == StakeFor'
           R == S \ {t}
<1>1. /\ DOMAIN attestations' = DOMAIN attestations \cup {t} /\ attestations'[t] = voters \cup {v}
      /\ \A x \in DOMAIN attestations \ {t} : attestations'[x] = attestations[x]
    BY DEF Store
<1>2. Votes(t[1])' = R \cup {t}
    BY <1>1 DEF Votes
<1>3. IsFiniteSet(S) /\ IsFiniteSet(R)
    BY StakesAreNumbers, FS_Subset
<1>4. \A x \in S : f[x] \in Nat
    BY StakesAreNumbers
<1>5. \A x \in R : g[x] = f[x]
    <2>1. \A x \in R : x \in DOMAIN attestations /\ x # t
        BY DEF Votes
    <2> QED BY <1>1, <2>1, StakesAreNumbers DEF StakeFor
<1>6. g[t] = Stake[v] + StakeOf(voters)
    <2>1. StakeOf(voters \cup {v}) = Stake[v] + StakeOf(voters)
        BY StakeOfOneMore
    <2> QED BY <1>1, <2>1 DEF StakeFor
<1>7. Stake[v] \in Nat /\ StakeOf(voters) \in Nat
    BY StakeOfVoters, FinalityAssumption
<1>8. \/ t \in S /\ f[t] = StakeOf(voters)
      \/ t \notin S /\ StakeOf(voters) = 0
    <2>1. CASE t \in DOMAIN attestations
        BY <2>1, StakesAreNumbers DEF Votes
    <2>2. CASE t \notin DOMAIN attestations
        BY <2>2, StakeOfNone DEF Votes
    <2> QED BY <2>1, <2>2
<1>9. t \notin R /\ (t \in S => S = R \cup {t}) /\ (t \notin S => S = R) /\ R \subseteq S
    OBVIOUS
<1> HIDE DEF S, R, f, g
<1> DEFINE rest == SumFunctionOnSet(f, R)
<1>10. SumFunctionOnSet(g, R) = rest
    <2>1. \A x \in R : f[x] \in Nat /\ f[x] = g[x]
        BY <1>4, <1>5, <1>9
    <2>2. SumFunctionOnSet(f, R) = SumFunctionOnSet(g, R)
        BY <1>3, <2>1, SumSame
    <2> QED BY <2>2
<1>11. rest \in Nat
    <2>1. \A x \in R : f[x] \in Nat
        BY <1>4, <1>9
    <2> QED BY <1>3, <2>1, SumIsNat
<1>12. SumFunctionOnSet(g, R \cup {t}) = g[t] + rest
    <2>1. \A x \in R \cup {t} : g[x] \in Nat
        BY <1>4, <1>5, <1>6, <1>7, <1>9
    <2>2. SumFunctionOnSet(g, R \cup {t}) = g[t] + SumFunctionOnSet(g, R)
        BY <1>3, <1>9, <2>1, SumAdds
    <2> QED BY <1>10, <2>2
<1>13. SumFunctionOnSet(f, S) = StakeOf(voters) + rest
    <2>1. CASE t \in S /\ f[t] = StakeOf(voters)
        <3>1. \A x \in R \cup {t} : f[x] \in Nat
            BY <1>4, <1>9, <2>1
        <3>2. SumFunctionOnSet(f, R \cup {t}) = f[t] + rest
            BY <1>3, <1>9, <3>1, SumAdds
        <3> QED BY <1>9, <2>1, <3>2
    <2>2. CASE t \notin S /\ StakeOf(voters) = 0
        <3>1. SumFunctionOnSet(f, S) = rest
            BY <1>9, <2>2
        <3> QED BY <1>11, <2>2, <3>1
    <2> QED BY <1>8, <2>1, <2>2
<1> HIDE DEF rest
<1>14. SumFunctionOnSet(g, R \cup {t}) = Stake[v] + SumFunctionOnSet(f, S)
    BY <1>6, <1>7, <1>11, <1>12, <1>13
<1> QED BY <1>2, <1>14 DEF S, f, g

(* What a vote does to the record and to the counter of its epoch.           *)
Before(e) == IF e \in DOMAIN checkpoints THEN checkpoints[e].attested_stake ELSE 0

VoteOn(t, v, voters) ==
    /\ t \in DOMAIN attestations => voters = attestations[t]
    /\ t \notin DOMAIN attestations => voters = {}
    /\ attestations' = Store(attestations, t, voters \cup {v})
    /\ DOMAIN checkpoints' = DOMAIN checkpoints \cup {t[1]}
    /\ \A x \in DOMAIN checkpoints \ {t[1]} : checkpoints'[x] = checkpoints[x]
    /\ Before(t[1]) \in Nat
    /\ checkpoints'[t[1]].attested_stake =
           IF v \in voters THEN Before(t[1]) ELSE Before(t[1]) + Stake[v]

LEMMA VoteRecords ==
    ASSUME Inv, AccountInv, NEW c \in Call, ApplyAttestation(c)
    PROVE  \E t, v, voters : v \in Validator /\ voters \in SUBSET Validator /\ VoteOn(t, v, voters)
<1> DEFINE a == Head(call[c].todo)
           t == Target(a)
           cp == CheckpointFor(a)
           voters == IF t \in DOMAIN attestations THEN attestations[t] ELSE {}
           stake == cp.attested_stake + Stake[a.validator]
           new == [cp EXCEPT !.attested_stake = stake,
                             !.state = IF CanJustify(cp, stake) THEN "Justified" ELSE @]
<1>1. a \in Attestation
    <2>1. call[c].todo \in Seq(Attestation) /\ call[c].todo # <<>>
        BY DEF ApplyAttestation, Inv, CallsOk, State
    <2> QED BY <2>1
<1>2. /\ attestations' = Store(attestations, t, voters \cup {a.validator})
      /\ HasAttested(a) => checkpoints' = Store(checkpoints, a.epoch, cp)
      /\ ~HasAttested(a) => checkpoints' = Store(checkpoints, a.epoch, new)
    BY DEF ApplyAttestation
<1> HIDE DEF a
<1>3. t[1] = a.epoch /\ a.epoch \in Nat /\ a.hash \in Hash /\ a.validator \in Validator
    BY <1>1, FinalityAssumption DEF Target, Hash
<1>4. HasAttested(a) <=> a.validator \in voters
    BY DEF HasAttested
<1>5. voters \in SUBSET Validator
    BY DEF AccountInv
<1>6. /\ t \in DOMAIN attestations => voters = attestations[t]
      /\ t \notin DOMAIN attestations => voters = {}
    OBVIOUS
<1>7. cp \in Checkpoint /\ cp.attested_stake = Before(a.epoch)
    BY <1>3 DEF CheckpointFor, NewCheckpoint, Checkpoint, Inv, CheckpointsOk, Before
<1>8. new.attested_stake = stake /\ Before(a.epoch) \in Nat
    BY <1>7 DEF Checkpoint
<1> HIDE DEF t, cp, voters, new
<1>9. /\ DOMAIN checkpoints' = DOMAIN checkpoints \cup {a.epoch}
      /\ HasAttested(a) => checkpoints'[a.epoch] = cp
      /\ ~HasAttested(a) => checkpoints'[a.epoch] = new
      /\ \A x \in DOMAIN checkpoints \ {a.epoch} : checkpoints'[x] = checkpoints[x]
    BY <1>2 DEF Store
<1>10. checkpoints'[a.epoch].attested_stake =
           IF a.validator \in voters THEN Before(a.epoch) ELSE Before(a.epoch) + Stake[a.validator]
    BY <1>4, <1>7, <1>8, <1>9
<1>11. VoteOn(t, a.validator, voters)
    BY <1>2, <1>3, <1>6, <1>8, <1>9, <1>10 DEF VoteOn
<1> QED BY <1>3, <1>5, <1>11

(* A vote adds its stake to the checkpoint exactly when it is put on record  *)
(* for the first time.                                                       *)
LEMMA VoteAccounts ==
    ASSUME Inv, AccountInv, NEW c \in Call, ApplyAttestation(c)
    PROVE  AccountInv'
<1>0. PICK t, v, voters : v \in Validator /\ voters \in SUBSET Validator /\ VoteOn(t, v, voters)
    BY VoteRecords
<1>1. /\ v \in Validator /\ voters \in SUBSET Validator
      /\ t \in DOMAIN attestations => voters = attestations[t]
      /\ t \notin DOMAIN attestations => voters = {}
      /\ attestations' = Store(attestations, t, voters \cup {v})
      /\ DOMAIN checkpoints' = DOMAIN checkpoints \cup {t[1]}
      /\ \A x \in DOMAIN checkpoints \ {t[1]} : checkpoints'[x] = checkpoints[x]
      /\ Before(t[1]) \in Nat
      /\ checkpoints'[t[1]].attested_stake =
             IF v \in voters THEN Before(t[1]) ELSE Before(t[1]) + Stake[v]
    BY <1>0 DEF VoteOn
<1>2. Before(t[1]) = SumFunctionOnSet(StakeFor, Votes(t[1]))
    <2>1. CASE t[1] \in DOMAIN checkpoints
        BY <2>1 DEF AccountInv, Before
    <2>2. CASE t[1] \notin DOMAIN checkpoints
        <3>1. Votes(t[1]) = {}
            BY <2>2 DEF Votes, AccountInv
        <3>2. SumFunctionOnSet(StakeFor, {}) = 0
            BY SumEmpty
        <3> QED BY <2>2, <3>1, <3>2 DEF Before
    <2> QED BY <2>1, <2>2
<1>3. /\ DOMAIN attestations' = DOMAIN attestations \cup {t}
      /\ attestations'[t] = voters \cup {v}
      /\ \A x \in DOMAIN attestations \ {t} : attestations'[x] = attestations[x]
    BY <1>1 DEF Store
<1>4. IsFiniteSet(DOMAIN attestations')
    BY <1>3, FS_AddElement DEF AccountInv
<1>5. \A x \in DOMAIN attestations' : x[1] \in DOMAIN checkpoints' /\ attestations'[x] \subseteq Validator
    BY <1>1, <1>3 DEF AccountInv
<1>6. ASSUME NEW e \in DOMAIN checkpoints', e # t[1]
      PROVE  checkpoints'[e].attested_stake = SumFunctionOnSet(StakeFor', Votes(e)')
    <2>1. Votes(e)' = Votes(e) /\ \A x \in Votes(e) : attestations'[x] = attestations[x]
        BY <1>3, <1>6 DEF Votes
    <2>2. SumFunctionOnSet(StakeFor', Votes(e)') = SumFunctionOnSet(StakeFor, Votes(e))
        BY <2>1, SameVotes
    <2>3. e \in DOMAIN checkpoints /\ checkpoints'[e] = checkpoints[e]
        BY <1>1, <1>6
    <2> QED BY <2>2, <2>3 DEF AccountInv
<1>7. checkpoints'[t[1]].attested_stake = SumFunctionOnSet(StakeFor', Votes(t[1])')
    <2>1. CASE v \in voters
        <3>1. voters \cup {v} = voters /\ t \in DOMAIN attestations /\ voters = attestations[t]
            BY <1>1, <2>1
        <3>2. Votes(t[1])' = Votes(t[1]) /\ \A x \in Votes(t[1]) : attestations'[x] = attestations[x]
            BY <1>3, <3>1 DEF Votes
        <3>3. SumFunctionOnSet(StakeFor', Votes(t[1])') = SumFunctionOnSet(StakeFor, Votes(t[1]))
            BY <3>2, SameVotes
        <3> QED BY <1>1, <1>2, <2>1, <3>3
    <2>2. CASE v \notin voters
        <3>1. SumFunctionOnSet(StakeFor', Votes(t[1])') = Stake[v] + SumFunctionOnSet(StakeFor, Votes(t[1]))
            BY ONLY AccountInv, <1>1, <2>2, VoteAdds
        <3>2. Stake[v] \in Nat
            BY <1>1, FinalityAssumption
        <3> QED BY <1>1, <1>2, <2>2, <3>1, <3>2
    <2> QED BY <2>1, <2>2
<1>8. \A e \in DOMAIN checkpoints' : checkpoints'[e].attested_stake = SumFunctionOnSet(StakeFor', Votes(e)')
    BY <1>6, <1>7
<1> QED BY <1>4, <1>5, <1>8 DEF AccountInv

(* Pruning drops the votes of an epoch with its checkpoint, all or none.     *)
LEMMA PruneKeeps ==
    ASSUME Inv, AccountInv, NEW c \in Call, FinalizePrevious(c)
    PROVE  /\ DOMAIN attestations' \subseteq DOMAIN attestations
           /\ \A t \in DOMAIN attestations' : t[1] \in DOMAIN checkpoints' /\ attestations'[t] = attestations[t]
           /\ \A e \in DOMAIN checkpoints' :
                 /\ e \in DOMAIN checkpoints /\ checkpoints'[e].attested_stake = checkpoints[e].attested_stake
                 /\ Votes(e)' = Votes(e) /\ \A t \in Votes(e) : attestations'[t] = attestations[t]
<1> DEFINE e == PreviousEpoch
           known == [checkpoints EXCEPT ![e].state = IF @ = "Justified" THEN "Finalized" ELSE @]
           oldest == IF e >= 2 THEN e - 2 ELSE 0
           full == Cardinality(DOMAIN known) > MaxCheckpoints
<1>1. /\ checkpoints' = IF full THEN Without(known, {x \in DOMAIN known : x < oldest}) ELSE known
      /\ attestations' = IF full THEN Without(attestations, {t \in DOMAIN attestations : t[1] < oldest})
                                 ELSE attestations
    BY DEF FinalizePrevious
<1>2. DOMAIN known = DOMAIN checkpoints
    OBVIOUS
<1> HIDE DEF full, oldest, known, e
<1> DEFINE Kept(x) == ~full \/ ~(x < oldest)
<1>3. /\ DOMAIN checkpoints' = {x \in DOMAIN checkpoints : Kept(x)}
      /\ DOMAIN attestations' = {t \in DOMAIN attestations : Kept(t[1])}
      /\ \A t \in DOMAIN attestations' : attestations'[t] = attestations[t]
    BY <1>1, <1>2 DEF Without
<1>4. \A x \in DOMAIN checkpoints' : checkpoints'[x].attested_stake = checkpoints[x].attested_stake
    BY FinalizeDoes
<1> HIDE DEF Kept
<1>5. \A t \in DOMAIN attestations' : t[1] \in DOMAIN checkpoints'
    BY <1>3 DEF AccountInv
<1>6. \A x \in DOMAIN checkpoints' :
          Votes(x)' = Votes(x) /\ \A t \in Votes(x) : attestations'[t] = attestations[t]
    BY <1>3 DEF Votes
<1> QED BY <1>3, <1>4, <1>5, <1>6

LEMMA FinalizeAccounts ==
    ASSUME Inv, AccountInv, NEW c \in Call, FinalizePrevious(c)
    PROVE  AccountInv'
<1>1. IsFiniteSet(DOMAIN attestations')
    BY PruneKeeps, FS_Subset DEF AccountInv
<1>2. \A t \in DOMAIN attestations' : t[1] \in DOMAIN checkpoints' /\ attestations'[t] \subseteq Validator
    BY PruneKeeps DEF AccountInv
<1>3. ASSUME NEW x \in DOMAIN checkpoints'
      PROVE  checkpoints'[x].attested_stake = SumFunctionOnSet(StakeFor', Votes(x)')
    <2>1. /\ Votes(x)' = Votes(x) /\ \A t \in Votes(x) : attestations'[t] = attestations[t]
          /\ x \in DOMAIN checkpoints /\ checkpoints'[x].attested_stake = checkpoints[x].attested_stake
        BY <1>3, PruneKeeps
    <2>2. SumFunctionOnSet(StakeFor', Votes(x)') = SumFunctionOnSet(StakeFor, Votes(x))
        BY <2>1, SameVotes
    <2> QED BY <2>1, <2>2 DEF AccountInv
<1> QED BY <1>1, <1>2, <1>3 DEF AccountInv

(* Only a vote and a finalization touch the checkpoints and the votes.       *)
LEMMA StepKinds ==
    ASSUME [Next]_vars
    PROVE  \/ \E c \in Call : ApplyAttestation(c) \/ FinalizePrevious(c)
           \/ UNCHANGED <<checkpoints, attestations>>
<1>1. ASSUME NEW c \in Call,
             \/ \E batch \in Batch : Begin(c, batch)
             \/ CheckSlashable(c) \/ NothingToFinalize(c)
             \/ \E ok \in BOOLEAN : Notified(c, ok)
      PROVE  UNCHANGED <<checkpoints, attestations>>
    BY <1>1 DEF Begin, CheckSlashable, NothingToFinalize, Notified, gadget
<1>2. UNCHANGED vars => UNCHANGED <<checkpoints, attestations>>
    BY DEF vars, gadget
<1> QED BY <1>1, <1>2 DEF Next

LEMMA AccountStep == Inv /\ AccountInv /\ [Next]_vars => AccountInv'
<1> SUFFICES ASSUME Inv, AccountInv, [Next]_vars PROVE AccountInv'
    OBVIOUS
<1>1. CASE UNCHANGED <<checkpoints, attestations>>
    BY <1>1 DEF AccountInv, StakeFor, Votes
<1>2. ASSUME NEW c \in Call, ApplyAttestation(c) PROVE AccountInv'
    BY <1>2, VoteAccounts
<1>3. ASSUME NEW c \in Call, FinalizePrevious(c) PROVE AccountInv'
    BY <1>3, FinalizeAccounts
<1> QED BY <1>1, <1>2, <1>3, StepKinds

-----------------------------------------------------------------------------
(* Different validators. *)

(* As long as nobody voted for two blocks of an epoch, its counter is the    *)
(* stake of the set of its voters.                                           *)
DistinctInv ==
    \A e \in DOMAIN checkpoints :
        DoubleVoters(e) = {} => checkpoints[e].attested_stake = StakeOf(Voters(e))

(* An epoch whose votes stay as they are keeps its voters. *)
LEMMA SameVoters ==
    ASSUME NEW e, Votes(e)' = Votes(e), \A t \in Votes(e) : attestations'[t] = attestations[t]
    PROVE  Voters(e)' = Voters(e) /\ DoubleVoters(e)' = DoubleVoters(e)
<1>1. \A x, t : t \in DOMAIN attestations' /\ t[1] = e /\ x \in attestations'[t]
               <=> t \in DOMAIN attestations /\ t[1] = e /\ x \in attestations[t]
    BY DEF Votes
<1> QED BY <1>1 DEF Voters, DoubleVoters

LEMMA VoteDistinct ==
    ASSUME Inv, AccountInv, DistinctInv, NEW c \in Call, ApplyAttestation(c)
    PROVE  DistinctInv'
<1>0. PICK t, v, voters : v \in Validator /\ voters \in SUBSET Validator /\ VoteOn(t, v, voters)
    BY VoteRecords
<1>1. /\ v \in Validator /\ voters \in SUBSET Validator
      /\ t \in DOMAIN attestations => voters = attestations[t]
      /\ t \notin DOMAIN attestations => voters = {}
      /\ attestations' = Store(attestations, t, voters \cup {v})
      /\ DOMAIN checkpoints' = DOMAIN checkpoints \cup {t[1]}
      /\ \A x \in DOMAIN checkpoints \ {t[1]} : checkpoints'[x] = checkpoints[x]
      /\ Before(t[1]) \in Nat
      /\ checkpoints'[t[1]].attested_stake =
             IF v \in voters THEN Before(t[1]) ELSE Before(t[1]) + Stake[v]
    BY <1>0 DEF VoteOn
<1>2. /\ DOMAIN attestations' = DOMAIN attestations \cup {t}
      /\ attestations'[t] = voters \cup {v}
      /\ \A x \in DOMAIN attestations \ {t} : attestations'[x] = attestations[x]
    BY <1>1 DEF Store
<1>3. ASSUME NEW e \in DOMAIN checkpoints', e # t[1], DoubleVoters(e)' = {}
      PROVE  checkpoints'[e].attested_stake = StakeOf(Voters(e)')
    <2>1. Votes(e)' = Votes(e) /\ \A x \in Votes(e) : attestations'[x] = attestations[x]
        BY <1>2, <1>3 DEF Votes
    <2>2. Voters(e)' = Voters(e) /\ DoubleVoters(e)' = DoubleVoters(e)
        BY <2>1, SameVoters
    <2>3. e \in DOMAIN checkpoints /\ checkpoints'[e] = checkpoints[e]
        BY <1>1, <1>3
    <2> QED BY <1>3, <2>2, <2>3 DEF DistinctInv
<1>4. ASSUME DoubleVoters(t[1])' = {}
      PROVE  checkpoints'[t[1]].attested_stake = StakeOf(Voters(t[1])')
    <2>1. \A x \in DOMAIN attestations : x \in DOMAIN attestations' /\ attestations[x] \subseteq attestations'[x]
        BY <1>1, <1>2
    <2>2. DoubleVoters(t[1]) = {}
        BY <1>4, <2>1 DEF DoubleVoters
    <2>3. Voters(t[1])' = Voters(t[1]) \cup {v}
        <3>1. \A x : x \in Voters(t[1])' <=>
                  \E u \in DOMAIN attestations \cup {t} : u[1] = t[1] /\ x \in attestations'[u]
            BY <1>2 DEF Voters
        <3>2. \A x : x \in Voters(t[1]) <=> \E u \in DOMAIN attestations : u[1] = t[1] /\ x \in attestations[u]
            BY DEF Voters
        <3>3. \A x : x \in Voters(t[1])' <=> x \in Voters(t[1]) \/ x = v
            <4> TAKE x
            <4>1. ASSUME NEW u \in DOMAIN attestations \cup {t}, u[1] = t[1], x \in attestations'[u]
                  PROVE  x \in Voters(t[1]) \/ x = v
                <5>1. CASE u = t
                    BY <1>1, <1>2, <3>2, <4>1, <5>1
                <5>2. CASE u # t
                    BY <1>2, <3>2, <4>1, <5>2
                <5> QED BY <5>1, <5>2
            <4>2. ASSUME NEW u \in DOMAIN attestations, u[1] = t[1], x \in attestations[u]
                  PROVE  x \in Voters(t[1])'
                BY <1>1, <1>2, <3>1, <4>2
            <4>3. v \in Voters(t[1])'
                BY <1>2, <3>1
            <4> QED BY <3>1, <3>2, <4>1, <4>2, <4>3
        <3> QED BY <3>3
    <2>4. v \in Voters(t[1]) => v \in voters
        <3> SUFFICES ASSUME NEW u \in DOMAIN attestations, u[1] = t[1], v \in attestations[u]
                     PROVE  v \in voters
            BY DEF Voters
        <3>1. CASE u = t
            BY <1>1, <3>1
        <3>2. CASE u # t
            <4>1. v \in attestations'[u] /\ v \in attestations'[t]
                BY <1>2, <3>2
            <4>2. v \in DoubleVoters(t[1])'
                BY <1>1, <1>2, <3>2, <4>1 DEF DoubleVoters
            <4> QED BY <1>4, <4>2
        <3> QED BY <3>1, <3>2
    <2>5. v \in voters => v \in Voters(t[1])
        BY <1>1 DEF Voters
    <2>6. Before(t[1]) = StakeOf(Voters(t[1]))
        <3>1. CASE t[1] \in DOMAIN checkpoints
            BY <2>2, <3>1 DEF DistinctInv, Before
        <3>2. CASE t[1] \notin DOMAIN checkpoints
            <4>1. Voters(t[1]) = {}
                BY <3>2 DEF Voters, AccountInv
            <4> QED BY <3>2, <4>1, StakeOfNone DEF Before
        <3> QED BY <3>1, <3>2
    <2>7. Voters(t[1]) \in SUBSET Validator
        BY DEF Voters, AccountInv
    <2>8. CASE v \in voters
        <3>1. Voters(t[1])' = Voters(t[1])
            BY <2>3, <2>5, <2>8
        <3> QED BY <1>1, <2>6, <2>8, <3>1
    <2>9. CASE v \notin voters
        <3>1. StakeOf(Voters(t[1]) \cup {v}) = Stake[v] + StakeOf(Voters(t[1]))
            BY <1>1, <2>4, <2>7, <2>9, StakeOfOneMore
        <3>2. Stake[v] \in Nat
            BY <1>1, FinalityAssumption
        <3> QED BY <1>1, <2>3, <2>6, <2>9, <3>1, <3>2
    <2> QED BY <2>8, <2>9
<1> QED BY <1>3, <1>4 DEF DistinctInv

LEMMA DistinctStep == Inv /\ AccountInv /\ DistinctInv /\ [Next]_vars => DistinctInv'
<1> SUFFICES ASSUME Inv, AccountInv, DistinctInv, [Next]_vars PROVE DistinctInv'
    OBVIOUS
<1>1. CASE UNCHANGED <<checkpoints, attestations>>
    BY <1>1 DEF DistinctInv, Voters, DoubleVoters
<1>2. ASSUME NEW c \in Call, ApplyAttestation(c) PROVE DistinctInv'
    BY <1>2, VoteDistinct
<1>3. ASSUME NEW c \in Call, FinalizePrevious(c) PROVE DistinctInv'
    <2>1. \A e \in DOMAIN checkpoints' :
              /\ e \in DOMAIN checkpoints /\ checkpoints'[e].attested_stake = checkpoints[e].attested_stake
              /\ Votes(e)' = Votes(e) /\ \A t \in Votes(e) : attestations'[t] = attestations[t]
        BY <1>3, PruneKeeps
    <2>2. \A e \in DOMAIN checkpoints' : Voters(e)' = Voters(e) /\ DoubleVoters(e)' = DoubleVoters(e)
        BY <2>1, SameVoters
    <2> QED BY <2>1, <2>2 DEF DistinctInv
<1> QED BY <1>1, <1>2, <1>3, StepKinds

(* What justifies a checkpoint: different validators with more than two      *)
(* thirds of the stake voted in its epoch, or one is on record with votes    *)
(* for two blocks of the epoch.  The race of two calls past the conflict     *)
(* check is the second case (try_justify, apply_attestation).                *)
THEOREM JustifiedHasQuorumOrDoubleVote == Spec => []QuorumOrDoubleVote
<1>1. Inv /\ DistinctInv => QuorumOrDoubleVote
    BY DEF Inv, DistinctInv, CounterIsQuorum, QuorumOrDoubleVote
<1>2. Init => DistinctInv
    BY DEF Init, DistinctInv
<1> QED BY <1>1, <1>2, InvHolds, AccountInit, AccountStep, DistinctStep, PTL DEF Spec

(* Finality is earned: the stake of a checkpoint is the stake of the votes   *)
(* on record for its epoch, each counted once; what is justified has its     *)
(* quorum or a double voter, and what is final has a justified successor,    *)
(* whatever calls of process_attestations interleave and whatever was        *)
(* pruned.                                                                   *)
THEOREM FinalityAlwaysEarned == Spec => []FinalityIsEarned
<1>1. Inv /\ AccountInv /\ QuorumOrDoubleVote => FinalityIsEarned
    BY DEF Inv, AccountInv, StakeFor, Votes, FinalityIsEarned, StakeIsAccounted
<1> QED BY <1>1, InvHolds, AccountInit, AccountStep, JustifiedHasQuorumOrDoubleVote, PTL DEF Spec

=============================================================================
