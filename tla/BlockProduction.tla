-------------------------- MODULE BlockProduction --------------------------
(***************************************************************************)
(* The mining task of qc-17 (service.rs) and the calls that start and stop *)
(* it.  start_production spawns a task and stores its handle afterwards;   *)
(* stop_production aborts the task whose handle it finds.  An aborted task *)
(* ends at its next await, which is the sleep after a block or the compute *)
(* engine; the threads that replace the engine are not interrupted.  The   *)
(* wall clock may be set back, the monotonic clock may not.                *)
(***************************************************************************)
EXTENDS Integers, Sequences, FiniteSetsExt, SequencesExt

CONSTANTS
    TargetBlockTime, AdjustmentPeriod, UseDgw, DgwWindow,
    InitialDifficulty, MinDifficulty, MaxDifficulty, MaxAdjustmentFactor,
    MaxU256,             \* arithmetic on U256 saturates here
    Task,                \* mining tasks that may be spawned
    Zero,                \* H256::zero()
    HistoryLimit,        \* recent_blocks kept by the task
    StartingHeight, Histories, LastDifficulty,     \* what the runtime may have read from storage
    GasLimits,
    ClockSteps,          \* changes of the wall clock in one second
    MaxSkew,             \* seconds a block may be dated ahead
    MaxBlocks, MaxTime   \* bounds of the model: blocks published, both clocks

ASSUME DifficultyAssumption ==
    /\ {TargetBlockTime, AdjustmentPeriod, DgwWindow, InitialDifficulty, MinDifficulty,
        MaxDifficulty, MaxAdjustmentFactor, MaxU256} \subseteq Nat \ {0}
    /\ UseDgw \in BOOLEAN
    /\ MinDifficulty <= InitialDifficulty /\ InitialDifficulty <= MaxDifficulty
    /\ MaxDifficulty <= MaxU256

VARIABLES
    wall, mono,          \* SystemTime in seconds, Instant in seconds
    task,                \* task -> pc, mined, last hash and timestamp, recent, started, wake, template
    aborted,             \* tasks that were aborted
    mining_handle,       \* a set of at most one task
    starting,            \* tasks spawned by a start_production that has not stored its handle
    active, blocks_produced,     \* of the status
    gas_limit,           \* of the configuration
    published,           \* BlockProduced events, oldest first
    stopped,             \* history: blocks published when stop_production last returned, or -1
    late                 \* history: task -> blocks it published after it was aborted

clocks == <<wall, mono>>
service == <<mining_handle, starting, active, stopped>>
vars == <<clocks, task, aborted, service, blocks_produced, gas_limit, published, late>>

NoTemplate == [number |-> 0]

Unborn ==
    [pc |-> "none", mined |-> 0, last_block_hash |-> Zero, last_block_timestamp |-> 0,
     recent |-> <<>>, started |-> 0, wake |-> 0, gas_limit |-> 0, template |-> NoTemplate]

Init ==
    /\ wall \in {0, 2} /\ mono = 0
    /\ task = [t \in Task |-> Unborn]
    /\ aborted = {} /\ mining_handle = {} /\ starting = {}
    /\ active = FALSE /\ blocks_produced = 0
    /\ gas_limit \in GasLimits
    /\ published = <<>> /\ stopped = -1 /\ late = [t \in Task |-> 0]

-----------------------------------------------------------------------------
(* The DifficultyAdjuster (domain/difficulty.rs).  A difficulty is a target: *)
(* the higher, the easier.  Recent blocks are records with height, timestamp *)
(* and difficulty, newest first.                                             *)

Saturated(x) == IF x > MaxU256 THEN MaxU256 ELSE x

Within(x, low, high) == IF x < low THEN low ELSE IF x > high THEN high ELSE x

ClampDifficulty(d) == Within(d, MinDifficulty, MaxDifficulty)

\* Variant: the time is not limited.
UnclampedTime(actual, expected) == Max({actual, 1})

ClampedTime(actual, expected) ==
    Within(actual, Max({expected \div MaxAdjustmentFactor, 1}), expected * MaxAdjustmentFactor)

Elapsed(newest, oldest, fallback) ==
    IF newest.timestamp > oldest.timestamp THEN newest.timestamp - oldest.timestamp ELSE fallback

Average(window) ==
    FoldSeq(LAMBDA b, sum : Saturated(sum + b.difficulty), 0, window) \div Len(window)

(* avg * time / expected, without the product of avg and time. *)
Scaled(avg, time, expected) ==
    Saturated(Saturated((avg \div expected) * time)
              + Saturated((avg % expected) * time) \div expected)

CalculateDgwDifficulty(recent) ==
    LET window == SubSeq(recent, 1, Min({DgwWindow, Len(recent)}))
        expected == (Len(window) - 1) * TargetBlockTime
        actual == Elapsed(window[1], window[Len(window)], 1)
    IN  IF Len(window) < 2 THEN recent[1].difficulty
        ELSE ClampDifficulty(Scaled(Average(window), ClampedTime(actual, expected), expected))

CalculateEpochDifficulty(recent) ==
    LET expected == AdjustmentPeriod * TargetBlockTime
        actual == Elapsed(recent[1], recent[AdjustmentPeriod], TargetBlockTime)
    IN  IF recent[1].height % AdjustmentPeriod # 0 \/ Len(recent) < AdjustmentPeriod
        THEN recent[1].difficulty
        ELSE ClampDifficulty(Saturated(recent[1].difficulty * ClampedTime(actual, expected)) \div expected)

CalculateNextDifficulty(recent) ==
    IF Len(recent) <= 1 THEN InitialDifficulty
    ELSE IF UseDgw THEN CalculateDgwDifficulty(recent)
    ELSE CalculateEpochDifficulty(recent)

-----------------------------------------------------------------------------
(* The clocks, and the configuration. *)

Tick ==
    /\ mono < MaxTime
    /\ mono' = mono + 1
    /\ wall' \in {wall + step : step \in ClockSteps} \cap Nat
    /\ UNCHANGED <<task, aborted, service, blocks_produced, gas_limit, published, late>>

UpdateGasLimit(limit) ==
    /\ gas_limit' = limit
    /\ UNCHANGED <<clocks, task, aborted, service, blocks_produced, published, late>>

-----------------------------------------------------------------------------
(* start_production and stop_production. *)

StartProduction(t, history) ==
    /\ task[t].pc = "none"
    /\ active' = TRUE
    /\ blocks_produced' = StartingHeight
    /\ task' = [task EXCEPT ![t] = [Unborn EXCEPT
                    !.pc = "spawned", !.mined = StartingHeight, !.recent = history,
                    !.gas_limit = gas_limit]]
    /\ starting' = starting \cup {t}
    /\ stopped' = -1
    /\ UNCHANGED <<clocks, aborted, mining_handle, gas_limit, published, late>>

StoreHandle(t) ==
    /\ t \in starting
    /\ mining_handle' = {t}
    /\ starting' = starting \ {t}
    /\ UNCHANGED <<clocks, task, aborted, active, stopped, blocks_produced, gas_limit, published, late>>

StopProduction ==
    /\ active' = FALSE
    /\ aborted' = aborted \cup mining_handle
    /\ mining_handle' = {}
    /\ stopped' = Len(published)
    /\ UNCHANGED <<clocks, task, starting, blocks_produced, gas_limit, published, late>>

-----------------------------------------------------------------------------
(* The task is run for the first time.  Without a stored history it makes   *)
(* an entry of the last target and the present time.                        *)

Remembered(history) ==
    IF history # <<>> THEN history
    ELSE <<[height |-> StartingHeight, timestamp |-> wall, difficulty |-> LastDifficulty]>>

Begin(t) ==
    /\ task[t].pc = "spawned" /\ t \notin aborted
    /\ task' = [task EXCEPT ![t].pc = "ready", ![t].started = mono,
                            ![t].recent = Remembered(task[t].recent)]
    /\ UNCHANGED <<clocks, aborted, service, blocks_produced, gas_limit, published, late>>

-----------------------------------------------------------------------------
(* One round of the mining loop: the template, the search, the block.       *)

\* Variant: the timestamp of the clock is used as it is.
TimestampOf(m) == wall

BlockTimestamp(m) == Max({wall, m.last_block_timestamp + 1})

MakeTemplate(t) ==
    LET m == task[t] IN
    /\ m.pc = "ready"
    /\ task' = [task EXCEPT
                    ![t].pc = "mining",
                    ![t].template = [number |-> m.mined + 1, parent |-> m.last_block_hash,
                                     timestamp |-> BlockTimestamp(m),
                                     difficulty |-> CalculateNextDifficulty(m.recent)]]
    /\ UNCHANGED <<clocks, aborted, service, blocks_produced, gas_limit, published, late>>

(* What the task remembers of the block it has mined. *)
Linked(m, block) ==
    [m EXCEPT !.mined = @ + 1,
              !.last_block_hash = block.hash,
              !.last_block_timestamp = block.timestamp,
              !.recent = SubSeq(<<[height |-> block.number, timestamp |-> block.timestamp,
                                   difficulty |-> block.difficulty]>> \o @,
                                1, Min({HistoryLimit, Len(@) + 1}))]

(* The interval is measured from the start of the task. *)
MinBlockInterval == TargetBlockTime \div 2

WakeAfter(m) ==
    IF mono - m.started < MinBlockInterval THEN m.started + MinBlockInterval ELSE mono

Mined(t) ==
    LET m == task[t]
        block == [number |-> m.template.number, parent |-> m.template.parent,
                  timestamp |-> m.template.timestamp, difficulty |-> m.template.difficulty,
                  hash |-> Len(published) + 1, by |-> t, at |-> mono, seen |-> wall,
                  gas_limit |-> m.gas_limit]
    IN
    /\ m.pc = "mining"
    /\ Len(published) < MaxBlocks
    /\ published' = Append(published, block)
    /\ blocks_produced' = m.mined + 1
    /\ task' = [task EXCEPT ![t] = [Linked(m, block) EXCEPT
                    !.pc = "asleep", !.wake = WakeAfter(m), !.template = NoTemplate]]
    /\ late' = [late EXCEPT ![t] = @ + (IF t \in aborted THEN 1 ELSE 0)]
    /\ UNCHANGED <<clocks, aborted, service, gas_limit>>

(* No nonce was found, or the coinbase transaction could not be made. *)
NothingFound(t) ==
    /\ task[t].pc = "mining"
    /\ task' = [task EXCEPT ![t].pc = "asleep", ![t].wake = mono + 1, ![t].template = NoTemplate]
    /\ UNCHANGED <<clocks, aborted, service, blocks_produced, gas_limit, published, late>>

\* Variant: the task is not aborted.
WakeAlways(t) ==
    /\ task[t].pc = "asleep"
    /\ mono >= task[t].wake
    /\ task' = [task EXCEPT ![t].pc = "ready"]
    /\ UNCHANGED <<clocks, aborted, service, blocks_produced, gas_limit, published, late>>

Wake(t) ==
    /\ task[t].pc = "asleep" /\ t \notin aborted
    /\ mono >= task[t].wake
    /\ task' = [task EXCEPT ![t].pc = "ready"]
    /\ UNCHANGED <<clocks, aborted, service, blocks_produced, gas_limit, published, late>>

(* At the sleep, inside the compute engine, or before the task was ever run. *)
Cancelled(t) ==
    /\ t \in aborted /\ task[t].pc \in {"spawned", "asleep", "mining"}
    /\ task' = [task EXCEPT ![t].pc = "cancelled", ![t].template = NoTemplate]
    /\ UNCHANGED <<clocks, aborted, service, blocks_produced, gas_limit, published, late>>

Next ==
    \/ Tick
    \/ \E limit \in GasLimits : UpdateGasLimit(limit)
    \/ StopProduction
    \/ \E t \in Task :
        \/ \E history \in Histories : StartProduction(t, history)
        \/ StoreHandle(t) \/ Begin(t)
        \/ MakeTemplate(t) \/ Mined(t) \/ NothingFound(t) \/ Wake(t) \/ Cancelled(t)

Spec == Init /\ [][Next]_vars

-----------------------------------------------------------------------------

By(t) == SelectSeq(published, LAMBDA b : b.by = t)

(* The blocks of a task form a chain: each has the number after, the hash of *)
(* and a later timestamp than the one before, whatever the wall clock did    *)
(* and however many rounds found nothing.                                    *)
BlocksAreLinked ==
    \A t \in Task : \A i \in 2..Len(By(t)) :
        LET b == By(t)[i] p == By(t)[i-1] IN
        b.number = p.number + 1 /\ b.parent = p.hash /\ b.timestamp > p.timestamp

(* An aborted task publishes at most the block it was mining. *)
AbortedTaskEnds == \A t \in Task : late[t] <= 1

(* With Dark Gravity Wave the target of every block lies within the bounds,  *)
(* also when blocks of the stored history do not, and a target that is not   *)
(* at a bound moves by at most MaxAdjustmentFactor relative to the highest   *)
(* and the lowest target the task looked back to.                            *)
TargetsAreBounded ==
    /\ \A i \in 1..Len(published) : published[i].difficulty \in MinDifficulty..MaxDifficulty
    /\ \A t \in Task : task[t].pc = "mining" /\ Len(task[t].recent) > 1 =>
        LET seen == {task[t].recent[i].difficulty : i \in 1..Len(task[t].recent)}
            d == task[t].template.difficulty
        IN  /\ d <= Max({MinDifficulty, Max(seen) * MaxAdjustmentFactor})
            /\ d >= Min({MaxDifficulty, Min(seen) \div MaxAdjustmentFactor})

(* After stop_production returned, at most the block being mined appears. *)
StopIsFinal == stopped # -1 => Len(published) <= stopped + 1

(* Blocks of a task are at least half the target time apart. *)
MinimumInterval ==
    \A t \in Task : \A i \in 2..Len(By(t)) : By(t)[i].at - By(t)[i-1].at >= MinBlockInterval

(* No block is dated more than MaxSkew seconds after the clock that saw it. *)
TimestampNotAhead ==
    \A i \in 1..Len(published) : published[i].timestamp <= published[i].seen + MaxSkew

(* Only the first block of the chain has the zero hash as its parent. *)
ParentIsKnown ==
    \A i \in 1..Len(published) : published[i].number > 1 => published[i].parent # Zero

(* A template is made with the gas limit that is configured at that moment. *)
GasLimitIsCurrent ==
    [][\A t \in Task : MakeTemplate(t) => task[t].gas_limit = gas_limit]_vars

(* In epoch mode the target changes after every AdjustmentPeriod blocks that *)
(* took longer than they should.                                             *)
EpochAdjusts ==
    \A t \in Task : \A i \in AdjustmentPeriod+1..Len(By(t)) :
        LET last == By(t)[i-1] first == By(t)[i-AdjustmentPeriod] IN
        /\ last.number % AdjustmentPeriod = 0
        /\ last.timestamp - first.timestamp > AdjustmentPeriod * TargetBlockTime
        /\ last.difficulty < MaxDifficulty
        => By(t)[i].difficulty > last.difficulty

=============================================================================
