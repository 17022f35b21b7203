------------------------------ MODULE Finality ------------------------------
(***************************************************************************)
(* The Casper FFG gadget of qc-09 (service.rs, state.rs).  Several calls   *)
(* of process_attestations run at once; each takes the state lock anew for *)
(* the conflict check, for the vote, and for the finalization, and awaits  *)
(* block storage with no lock held.  Block hashes, slots and signatures    *)
(* are abstract: a checkpoint is an epoch and a hash.  One validator set   *)
(* serves every epoch, as the adapter of the node has it                   *)
(* (node-runtime, adapters/ports/finality.rs), so the total that a         *)
(* checkpoint keeps from its creation is the total of every later vote.    *)
(***************************************************************************)
EXTENDS Integers, Sequences, FiniteSets, FiniteSetsExt, PartialMaps

CONSTANTS
    Validator, Stake,
    Attestation,       \* records: validator, source (epoch), epoch and hash of the target
    Call,              \* concurrent callers of process_attestations
    MaxBatch,          \* longest batch of a call
    MaxCalls,          \* bound of the model: calls made
    MaxCheckpoints, MaxHistory, MaxSyncAttempts, LeakEpochs,
    None

StakeOf(voters) == SumFunctionOnSet(Stake, voters)
TotalStake == StakeOf(Validator)

ASSUME FinalityAssumption ==
    /\ IsFiniteSet(Validator) /\ Stake \in [Validator -> Nat]
    /\ \A a \in Attestation : a.validator \in Validator /\ a.epoch \in Nat /\ a.source \in Nat
    /\ {MaxBatch, MaxCalls, MaxCheckpoints, MaxHistory, MaxSyncAttempts, LeakEpochs} \subseteq Nat

VARIABLES
    checkpoints,          \* epoch -> hash, state, attested_stake
    attestations,         \* <<epoch, hash>> -> validators that attested
    attestation_history,  \* validator -> its recorded attestations
    offenses,             \* slashable_offenses, as pairs
    last_justified, last_finalized,      \* an epoch, or None
    finalized_blocks,     \* <<epoch, hash>> of the checkpoints finalized so far
    current_epoch, epochs_without_finality,
    breaker,              \* FinalityState of the circuit breaker
    call,                 \* caller -> pc, todo, epoch
    calls,                \* calls made
    failed,               \* history: notifications that failed
    quiet                 \* history: new epochs processed since a new finalization

gadget == <<checkpoints, attestations, attestation_history, offenses, last_justified>>
finality == <<last_finalized, finalized_blocks, current_epoch, epochs_without_finality, quiet>>
vars == <<gadget, finality, breaker, call, calls, failed>>

Target(a) == <<a.epoch, a.hash>>
Idle == [pc |-> "idle", todo |-> <<>>, epoch |-> 0]
Running == [mode |-> "Running", attempt |-> 0]

Init ==
    /\ checkpoints = [e \in {} |-> 0]
    /\ attestations = [t \in {} |-> {}]
    /\ attestation_history = [v \in Validator |-> <<>>]
    /\ offenses = {}
    /\ last_justified = None /\ last_finalized = None
    /\ finalized_blocks = {}
    /\ current_epoch = 0 /\ epochs_without_finality = 0
    /\ breaker = Running
    /\ call = [c \in Call |-> Idle]
    /\ calls = 0 /\ failed = 0 /\ quiet = {}

(***************************************************************************)
(* The circuit breaker.                                                    *)
(***************************************************************************)
NextState(b, event) ==
    CASE b.mode = "Running" /\ event = "FinalityFailed" -> [mode |-> "Sync", attempt |-> 1]
      [] b.mode = "Sync" /\ event = "SyncSuccess" -> Running
      [] b.mode = "Sync" /\ event = "SyncFailed" ->
            IF b.attempt >= MaxSyncAttempts THEN [mode |-> "Halted", attempt |-> 0]
                                            ELSE [b EXCEPT !.attempt = @ + 1]
      [] b.mode = "Halted" /\ event = "ManualIntervention" -> Running
      [] OTHER -> b

(***************************************************************************)
(* process_attestations, one action per critical section.                  *)
(***************************************************************************)
Begin(c, batch) ==
    /\ call[c].pc = "idle" /\ calls < MaxCalls
    /\ breaker.mode /= "Halted"
    /\ call' = [call EXCEPT ![c] = [pc |-> "check", todo |-> batch, epoch |-> batch[1].epoch]]
    /\ calls' = calls + 1
    /\ UNCHANGED <<gadget, finality, breaker, failed>>

ConflictsWith(a, b) ==
    \/ a.epoch = b.epoch /\ a.hash /= b.hash
    \/ a.source < b.source /\ a.epoch > b.epoch
    \/ b.source < a.source /\ b.epoch > a.epoch

Conflicting(a) ==
    {i \in DOMAIN attestation_history[a.validator] :
        ConflictsWith(a, attestation_history[a.validator][i])}

CheckSlashable(c) ==
    LET a == Head(call[c].todo)
        conflicts == Conflicting(a)
    IN  /\ call[c].pc = "check" /\ call[c].todo /= <<>>
        /\ IF conflicts = {}
           THEN /\ call' = [call EXCEPT ![c].pc = "apply"]
                /\ UNCHANGED offenses
           ELSE /\ call' = [call EXCEPT ![c].todo = Tail(@)]
                /\ offenses' = offenses \cup {<<a, attestation_history[a.validator][Min(conflicts)]>>}
        /\ UNCHANGED <<checkpoints, attestations, attestation_history, last_justified,
                       finality, breaker, calls, failed>>

Recorded(history, a) ==
    Append(IF Len(history) >= MaxHistory THEN Tail(history) ELSE history, a)

NewCheckpoint(h) == [hash |-> h, state |-> "Pending", attested_stake |-> 0]

\* get_or_create_checkpoint: by epoch, whatever the block.
CheckpointFor(a) ==
    IF a.epoch \in DOMAIN checkpoints THEN checkpoints[a.epoch] ELSE NewCheckpoint(a.hash)

\* Variant: an exact two thirds is enough.
MeetsTwoThirds(stake) == TotalStake /= 0 /\ stake * 3 >= TotalStake * 2

MeetsThreshold(stake) == TotalStake /= 0 /\ stake >= (TotalStake * 2) \div 3 + 1

\* Variant: a checkpoint is justified by every vote beyond the threshold.
CanJustifyAgain(cp, stake) == MeetsThreshold(stake)

CanJustify(cp, stake) == cp.state = "Pending" /\ MeetsThreshold(stake)

IsJustified(e) == e \in DOMAIN checkpoints /\ checkpoints[e].state /= "Pending"

\* Variant: a second vote for the same target adds stake again.
HasNeverAttested(a) == FALSE

HasAttested(a) == Target(a) \in DOMAIN attestations /\ a.validator \in attestations[Target(a)]

ApplyAttestation(c) ==
    LET a == Head(call[c].todo)
        cp == CheckpointFor(a)
        voters == IF Target(a) \in DOMAIN attestations THEN attestations[Target(a)] ELSE {}
        stake == cp.attested_stake + Stake[a.validator]
        justify == CanJustify(cp, stake)
    IN  /\ call[c].pc = "apply"
        /\ attestation_history' = [attestation_history EXCEPT ![a.validator] = Recorded(@, a)]
        /\ attestations' = Store(attestations, Target(a), voters \cup {a.validator})
        /\ IF HasAttested(a)
           THEN /\ checkpoints' = Store(checkpoints, a.epoch, cp)
                /\ UNCHANGED last_justified
           ELSE /\ checkpoints' = Store(checkpoints, a.epoch,
                      [cp EXCEPT !.attested_stake = stake,
                                 !.state = IF justify THEN "Justified" ELSE @])
                /\ last_justified' = IF justify THEN a.epoch ELSE last_justified
        /\ call' = [call EXCEPT ![c].pc = "check", ![c].todo = Tail(@)]
        /\ UNCHANGED <<offenses, finality, breaker, calls, failed>>

\* Variant: the checkpoint that was just justified is finalized.
LatestEpoch == last_justified

PreviousEpoch == last_justified - 1

CanFinalize == last_justified /= None /\ IsJustified(PreviousEpoch)

\* check_finalization finalizes again what is final already: finalize() then
\* changes nothing, but the counter, the breaker and block storage are told.
FinalizePrevious(c) ==
    LET e == PreviousEpoch
        known == [checkpoints EXCEPT ![e].state = IF @ = "Justified" THEN "Finalized" ELSE @]
        oldest == IF e >= 2 THEN e - 2 ELSE 0
        full == Cardinality(DOMAIN known) > MaxCheckpoints
    IN  /\ call[c].pc = "check" /\ call[c].todo = <<>>
        /\ CanFinalize
        /\ finalized_blocks' = finalized_blocks \cup {<<e, checkpoints[e].hash>>}
        /\ last_finalized' = e
        /\ epochs_without_finality' = 0
        /\ breaker' = NextState(breaker, "FinalityAchieved")
        /\ checkpoints' = IF full THEN Without(known, {x \in DOMAIN known : x < oldest}) ELSE known
        /\ attestations' = IF full THEN Without(attestations, {t \in DOMAIN attestations : t[1] < oldest})
                                   ELSE attestations
        /\ quiet' = IF checkpoints[e].state = "Justified" THEN {}
                    ELSE quiet \cup ({call[c].epoch} \ 0..last_justified)
        /\ call' = [call EXCEPT ![c].pc = "notify"]
        /\ UNCHANGED <<attestation_history, offenses, last_justified, current_epoch, calls, failed>>

NothingToFinalize(c) ==
    LET epoch == call[c].epoch IN
    /\ call[c].pc = "check" /\ call[c].todo = <<>>
    /\ ~CanFinalize
    /\ current_epoch' = epoch
    /\ epochs_without_finality' = epochs_without_finality + (IF current_epoch /= epoch THEN 1 ELSE 0)
    /\ quiet' = quiet \cup {epoch}
    /\ call' = [call EXCEPT ![c] = Idle]
    /\ UNCHANGED <<gadget, last_finalized, finalized_blocks, breaker, calls, failed>>

\* notify_finalization returns, then the pending events are collected.
Notified(c, ok) ==
    /\ call[c].pc = "notify"
    /\ breaker' = IF ok THEN breaker ELSE NextState(breaker, "FinalityFailed")
    /\ failed' = failed + (IF ok THEN 0 ELSE 1)
    /\ call' = [call EXCEPT ![c] = Idle]
    /\ UNCHANGED <<gadget, finality, calls>>

Batch == UNION {[1..n -> Attestation] : n \in 1..MaxBatch}

Next ==
    \E c \in Call :
        \/ \E batch \in Batch : Begin(c, batch)
        \/ CheckSlashable(c)
        \/ ApplyAttestation(c)
        \/ FinalizePrevious(c)
        \/ NothingToFinalize(c)
        \/ \E ok \in BOOLEAN : Notified(c, ok)

Spec == Init /\ [][Next]_vars

-----------------------------------------------------------------------------
\* The stake a checkpoint has gathered is the stake of the votes on record
\* for its epoch, each vote counted once, through repeated votes, concurrent
\* calls and pruning.
StakeIsAccounted ==
    \A e \in DOMAIN checkpoints :
        checkpoints[e].attested_stake =
            SumFunctionOnSet([t \in DOMAIN attestations |-> StakeOf(attestations[t])],
                             {t \in DOMAIN attestations : t[1] = e})

\* INVARIANT-1 as the code has it: what is final was justified, and so was
\* the epoch after it, also when older epochs were pruned or voted on late.
FinalHasJustifiedSuccessor ==
    \A e \in DOMAIN checkpoints : checkpoints[e].state = "Finalized" => IsJustified(e + 1)

\* The validators with a vote on record for an epoch, and those among them
\* with votes for two blocks of it: two calls that race past the conflict
\* check, or a history cut at MaxHistory, let one validator in twice.
Voters(e) == UNION {attestations[t] : t \in {u \in DOMAIN attestations : u[1] = e}}
DoubleVoters(e) ==
    {v \in Validator : \E t, u \in DOMAIN attestations :
        /\ t # u /\ t[1] = e /\ u[1] = e
        /\ v \in attestations[t] /\ v \in attestations[u]}

\* What justification is worth, whatever calls interleave: different
\* validators with more than two thirds of the stake voted in the epoch, or
\* the votes on record convict one of them of voting twice.
QuorumOrDoubleVote ==
    \A e \in DOMAIN checkpoints :
        IsJustified(e) => 3 * StakeOf(Voters(e)) > 2 * TotalStake \/ DoubleVoters(e) # {}

\* Every vote of an epoch is counted once, a justified checkpoint has its
\* quorum of different validators or a double voter to blame, and the
\* checkpoint after a finalized one is justified.
FinalityIsEarned == StakeIsAccounted /\ QuorumOrDoubleVote /\ FinalHasJustifiedSuccessor

\* One call at a time: what check_slashable_conditions admits conflicts with
\* nothing the validator has on record.
HistoryIsConsistent ==
    \A v \in Validator : \A i, j \in DOMAIN attestation_history[v] :
        LET a == attestation_history[v][i]  b == attestation_history[v][j] IN
        /\ ~(a.epoch = b.epoch /\ a.hash /= b.hash)
        /\ ~(a.source < b.source /\ a.epoch > b.epoch)

\* A finalized checkpoint is never taken back: neither its state nor its
\* hash changes while it is kept.
FinalIsStable ==
    [][\A e \in DOMAIN checkpoints \cap DOMAIN checkpoints' :
          checkpoints[e].state = "Finalized" =>
              /\ checkpoints'[e].state = "Finalized"
              /\ checkpoints'[e].hash = checkpoints[e].hash]_vars

-----------------------------------------------------------------------------
(* What the documents say.                                                 *)

\* SPEC-09 INVARIANT-2: a justified checkpoint has the votes of more than two
\* thirds of the validators for that very checkpoint.
JustifiedByItsVotes ==
    \A e \in DOMAIN checkpoints :
        IsJustified(e) =>
            Cardinality(attestations[<<e, checkpoints[e].hash>>])
                >= (Cardinality(Validator) * 2) \div 3 + 1

\* SPEC-09 INVARIANT-1: the checkpoint before a finalized one is justified.
PreviousIsJustified ==
    \A e \in DOMAIN checkpoints : checkpoints[e].state = "Finalized" => e = 0 \/ IsJustified(e - 1)

\* IPC-MATRIX: finality is irreversible, so the last finalized epoch grows.
LastFinalizedGrows ==
    [][last_finalized /= None => last_finalized' /= None /\ last_finalized' >= last_finalized]_vars

\* lib.rs: the leak starts when finality has stalled for LeakEpochs epochs.
LeakStarts == Cardinality(quiet) >= LeakEpochs => epochs_without_finality >= LeakEpochs

\* circuit_breaker.rs: after MaxSyncAttempts failures the system halts.
HaltsAfterFailures == failed > MaxSyncAttempts => breaker.mode = "Halted"
=============================================================================
