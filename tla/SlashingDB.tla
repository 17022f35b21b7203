---------------------------- MODULE SlashingDB -----------------------------
(***************************************************************************)
(* SlashingDB of qc-08: the first vote of a validator in an epoch, and the *)
(* evidence of a second, different one.                                    *)
(***************************************************************************)
EXTENDS Integers, FiniteSets, Sequences, SequencesExt, PartialMaps

CONSTANTS
    Voter, Epoch, Candidate,      \* validators, epochs, block hashes
    MaxSlashings                  \* bound of the model

VARIABLES
    votes,               \* <<validator, epoch>> -> block hash
    pending_slashings,   \* oldest first
    total_slashings,
    drained,             \* history: evidence handed out
    cast,                \* history: every vote
    remembered           \* history: the votes cast since their epoch was last pruned

vars == <<votes, pending_slashings, total_slashings, drained, cast, remembered>>

Init ==
    /\ votes = [k \in {} |-> 0] /\ pending_slashings = <<>> /\ total_slashings = 0
    /\ drained = <<>> /\ cast = {} /\ remembered = {}

DoubleVote(v, e, a, b) == [validator |-> v, epoch |-> e, vote_a |-> a, vote_b |-> b]

IsDoubleVote(v, e, hash) == <<v, e>> \in DOMAIN votes /\ votes[<<v, e>>] # hash

\* Variant: the vote is filed under its epoch alone.
RecordedForAll(v, e, hash) ==
    IF <<v, e>> \in DOMAIN votes THEN votes
    ELSE [k \in DOMAIN votes \cup (Voter \X {e}) |-> IF k \in DOMAIN votes THEN votes[k] ELSE hash]

Recorded(v, e, hash) ==
    IF <<v, e>> \in DOMAIN votes THEN votes ELSE Store(votes, <<v, e>>, hash)

CheckAndRecord(v, e, hash) ==
    /\ IF IsDoubleVote(v, e, hash)
       THEN /\ total_slashings < MaxSlashings
            /\ pending_slashings' = Append(pending_slashings, DoubleVote(v, e, votes[<<v, e>>], hash))
            /\ total_slashings' = total_slashings + 1
       ELSE UNCHANGED <<pending_slashings, total_slashings>>
    /\ votes' = Recorded(v, e, hash)
    /\ cast' = cast \cup {<<v, e, hash>>} /\ remembered' = remembered \cup {<<v, e, hash>>}
    /\ UNCHANGED drained

DrainPending ==
    /\ drained' = drained \o pending_slashings
    /\ pending_slashings' = <<>>
    /\ UNCHANGED <<votes, total_slashings, cast, remembered>>

PruneBefore(epoch) ==
    /\ votes' = Without(votes, {k \in DOMAIN votes : k[2] < epoch})
    /\ remembered' = {r \in remembered : r[2] >= epoch}
    /\ UNCHANGED <<pending_slashings, total_slashings, drained, cast>>

Next ==
    \/ \E v \in Voter, e \in Epoch, hash \in Candidate : CheckAndRecord(v, e, hash)
    \/ DrainPending
    \/ \E e \in Epoch : PruneBefore(e)

Spec == Init /\ [][Next]_vars

-----------------------------------------------------------------------------
Evidence == ToSet(pending_slashings) \cup ToSet(drained)

\* Evidence names two different votes its validator did cast in its epoch, two
\* different votes cast without a pruning in between leave evidence, pending or
\* handed out, and every piece is counted once (check_and_record, drain_pending,
\* prune_before).
EvidenceIsExact ==
    /\ \A x \in Evidence :
          /\ x.vote_a # x.vote_b
          /\ {<<x.validator, x.epoch, x.vote_a>>, <<x.validator, x.epoch, x.vote_b>>} \subseteq cast
    /\ \A r, s \in remembered :
          r[1] = s[1] /\ r[2] = s[2] /\ r[3] # s[3] =>
              \E x \in Evidence : x.validator = r[1] /\ x.epoch = r[2] /\ r[3] \in {x.vote_a, x.vote_b}
    /\ total_slashings = Len(pending_slashings) + Len(drained)

-----------------------------------------------------------------------------
\* "When attestation arrives, check for conflicting previous vote": a vote whose
\* epoch was pruned is taken for the first one.
EveryConflictIsFound ==
    \A r, s \in cast :
        r[1] = s[1] /\ r[2] = s[2] /\ r[3] # s[3] =>
            \E x \in Evidence : x.validator = r[1] /\ x.epoch = r[2]

=============================================================================
