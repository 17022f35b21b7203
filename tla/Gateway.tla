------------------------------ MODULE Gateway ------------------------------
(***************************************************************************)
(* The request path of the API gateway (qc-16): ResilientIpcHandler asks   *)
(* the circuit breaker, IpcHandler registers a pending request, sends it   *)
(* over the bus and waits for the answer under a timeout, the listener     *)
(* completes it, a background task removes what has expired, and the layer *)
(* above may drop the future of a caller at any await.                     *)
(*                                                                         *)
(* All requests go to one subsystem, and so to one circuit.  A member of   *)
(* Request stands for a correlation id; it is used again once nothing      *)
(* refers to it any more.  Instants are kept as ages that stop growing     *)
(* when no comparison can tell them apart.                                 *)
(***************************************************************************)
EXTENDS Integers, FiniteSets, PartialMaps

CONSTANTS
    Request,
    Timeout,                           \* of a request
    OpenTimeout, FailureThreshold, SuccessThreshold

VARIABLES
    caller,        \* request -> where its future is
    timer,         \* request -> how long its caller has been waiting
    response,      \* request -> what its oneshot channel holds
    pending,       \* correlation id -> age of its entry
    outstanding,   \* total_registered - total_completed - total_timeouts - total_cancelled
    sent,          \* requests the bus or the subsystem has and that are not answered
    circuit,       \* state, failure_count, half_open_successes and age of opened_at
    streak         \* history: equal outcomes in a row since the circuit last changed

store == <<timer, response, pending, outstanding, sent>>
vars == <<caller, store, circuit, streak>>

Caller == {"none", "allowed", "sending", "waiting", "expiring", "expired", "succeeded", "failed"}
Empty == "empty"
NotOpened == -1

NoStreak == [failures |-> 0, successes |-> 0]

Init ==
    /\ caller = [r \in Request |-> "none"]
    /\ timer = [r \in Request |-> 0]
    /\ response = [r \in Request |-> Empty]
    /\ pending = [r \in {} |-> 0] /\ outstanding = 0
    /\ sent = {}
    /\ circuit = [state |-> "closed", failures |-> 0, successes |-> 0, opened |-> NotOpened]
    /\ streak = NoStreak

-----------------------------------------------------------------------------
(* CircuitBreakerManager, enabled as in the default configuration. *)

TimeoutElapsed == circuit.state = "open" /\ circuit.opened # NotOpened /\ circuit.opened >= OpenTimeout

ShouldAllow == circuit.state # "open" \/ circuit.opened = NotOpened \/ TimeoutElapsed

\* Variant: the successes of the last half-open period are kept.
ProbedKeeping == IF TimeoutElapsed THEN [circuit EXCEPT !.state = "half_open"] ELSE circuit

(* The circuit after should_allow returned true. *)
Probed == IF TimeoutElapsed THEN [circuit EXCEPT !.state = "half_open", !.successes = 0] ELSE circuit

Succeeded ==
    CASE circuit.state = "closed" -> [circuit EXCEPT !.failures = 0]
      [] circuit.state = "half_open" /\ circuit.successes + 1 < SuccessThreshold ->
            [circuit EXCEPT !.successes = @ + 1]
      [] circuit.state = "half_open" /\ circuit.successes + 1 >= SuccessThreshold ->
            [state |-> "closed", failures |-> 0, successes |-> circuit.successes + 1, opened |-> NotOpened]
      [] circuit.state = "open" -> circuit

Failed ==
    CASE circuit.state = "closed" /\ circuit.failures + 1 < FailureThreshold ->
            [circuit EXCEPT !.failures = @ + 1]
      [] circuit.state = "closed" /\ circuit.failures + 1 >= FailureThreshold ->
            [circuit EXCEPT !.state = "open", !.failures = @ + 1, !.opened = 0]
      [] circuit.state = "half_open" -> [circuit EXCEPT !.state = "open", !.successes = 0, !.opened = 0]
      [] circuit.state = "open" -> [circuit EXCEPT !.opened = 0]

AtMost(n, bound) == IF n > bound THEN bound ELSE n

(* The history after one more outcome. *)
Continued(ok) ==
    IF circuit'.state # circuit.state THEN NoStreak
    ELSE [failures |-> IF ok THEN 0 ELSE AtMost(streak.failures + 1, FailureThreshold),
          successes |-> IF ok THEN AtMost(streak.successes + 1, SuccessThreshold) ELSE 0]

(* The administrator resets the circuit. *)
Reset ==
    /\ circuit' = [state |-> "closed", failures |-> 0, successes |-> 0, opened |-> NotOpened]
    /\ streak' = NoStreak
    /\ UNCHANGED <<caller, store>>

-----------------------------------------------------------------------------
(* PendingRequestStore: a call takes the entry out of the map and then      *)
(* counts it, which is one step here.                                       *)

Alive(r) == caller[r] \in {"sending", "waiting", "expiring"}

\* Variant: a cancelled request is counted whether or not it was pending.
CancelCounted(r) ==
    /\ pending' = Without(pending, {r})
    /\ outstanding' = outstanding - 1

Cancel(r) ==
    /\ pending' = Without(pending, {r})
    /\ outstanding' = IF r \in DOMAIN pending THEN outstanding - 1 ELSE outstanding

(* The listener has an answer; completed or cancelled, it is counted once. *)
Complete(r, result) ==
    /\ r \in sent
    /\ sent' = sent \ {r}
    /\ pending' = Without(pending, {r})
    /\ outstanding' = IF r \in DOMAIN pending THEN outstanding - 1 ELSE outstanding
    /\ response' = IF r \in DOMAIN pending /\ Alive(r)
                   THEN [response EXCEPT ![r] = result] ELSE response
    /\ UNCHANGED <<caller, timer, circuit, streak>>

\* Variant: only entries that somebody still waits for.
ExpiredAwaited == {r \in DOMAIN pending : pending[r] > Timeout /\ Alive(r)}

Expired == {r \in DOMAIN pending : pending[r] > Timeout}

(* Taking the entry out drops its sender, which closes the channel. *)
RemoveExpired ==
    /\ Expired # {}
    /\ pending' = Without(pending, Expired)
    /\ outstanding' = outstanding - Cardinality(Expired)
    /\ response' = [r \in Request |-> IF r \in Expired /\ Alive(r) THEN "closed" ELSE response[r]]
    /\ UNCHANGED <<caller, timer, sent, circuit, streak>>

-----------------------------------------------------------------------------
(* ResilientIpcHandler::request around IpcHandler::request.  A refused      *)
(* request changes nothing.                                                 *)

Move(r, to) == caller' = [caller EXCEPT ![r] = to]

Begin(r) ==
    /\ caller[r] = "none" /\ r \notin DOMAIN pending /\ r \notin sent
    /\ ShouldAllow
    /\ circuit' = Probed
    /\ streak' = IF circuit'.state # circuit.state THEN NoStreak ELSE streak
    /\ Move(r, "allowed")
    /\ UNCHANGED store

Register(r) ==
    /\ caller[r] = "allowed"
    /\ pending' = Store(pending, r, 0) /\ outstanding' = outstanding + 1
    /\ Move(r, "sending")
    /\ UNCHANGED <<timer, response, sent, circuit, streak>>

Send(r) ==
    /\ caller[r] = "sending"
    /\ sent' = sent \cup {r}
    /\ timer' = [timer EXCEPT ![r] = 0]
    /\ Move(r, "waiting")
    /\ UNCHANGED <<response, pending, outstanding, circuit, streak>>

SendFails(r) ==
    /\ caller[r] = "sending"
    /\ Cancel(r)
    /\ response' = [response EXCEPT ![r] = Empty]
    /\ Move(r, "failed")
    /\ UNCHANGED <<timer, sent, circuit, streak>>

(* The channel is polled before the timer. *)
Receive(r) ==
    /\ caller[r] = "waiting" /\ response[r] # Empty
    /\ Move(r, IF response[r] = "ok" THEN "succeeded" ELSE "failed")
    /\ response' = [response EXCEPT ![r] = Empty]
    /\ UNCHANGED <<timer, pending, outstanding, sent, circuit, streak>>

(* The timer fires after the channel was found empty; an answer may still   *)
(* be put into the channel until the receiver is dropped ...                *)
Expire(r) ==
    /\ caller[r] = "waiting" /\ response[r] = Empty /\ timer[r] >= Timeout
    /\ Move(r, "expiring")
    /\ UNCHANGED <<store, circuit, streak>>

(* ... and the answer is lost with it. *)
DropReceiver(r) ==
    /\ caller[r] = "expiring"
    /\ response' = [response EXCEPT ![r] = Empty]
    /\ Move(r, "expired")
    /\ UNCHANGED <<timer, pending, outstanding, sent, circuit, streak>>

CancelExpired(r) ==
    /\ caller[r] = "expired"
    /\ Cancel(r)
    /\ Move(r, "failed")
    /\ UNCHANGED <<timer, response, sent, circuit, streak>>

RecordOutcome(r) ==
    /\ caller[r] \in {"succeeded", "failed"}
    /\ circuit' = IF caller[r] = "succeeded" THEN Succeeded ELSE Failed
    /\ streak' = Continued(caller[r] = "succeeded")
    /\ Move(r, "none")
    /\ UNCHANGED store

(* The TimeoutLayer gives up or the client goes away: the future is dropped  *)
(* at its await, and neither cancels its entry nor tells the breaker.        *)
DropFuture(r) ==
    /\ caller[r] \in {"sending", "waiting"}
    /\ response' = [response EXCEPT ![r] = Empty]
    /\ Move(r, "none")
    /\ UNCHANGED <<timer, pending, outstanding, sent, circuit, streak>>

-----------------------------------------------------------------------------

(* The bus drops the query or its answer, or the subsystem never answers. *)
Lose(r) ==
    /\ r \in sent
    /\ sent' = sent \ {r}
    /\ UNCHANGED <<caller, timer, response, pending, outstanding, circuit, streak>>

Tick ==
    /\ pending' = [r \in DOMAIN pending |-> AtMost(pending[r] + 1, Timeout + 1)]
    /\ timer' = [r \in Request |-> IF caller[r] = "waiting" THEN AtMost(timer[r] + 1, Timeout) ELSE 0]
    /\ circuit' = [circuit EXCEPT !.opened = IF @ = NotOpened THEN @ ELSE AtMost(@ + 1, OpenTimeout)]
    /\ UNCHANGED <<caller, response, outstanding, sent, streak>>

(* What the future of a caller does by itself. *)
Step(r) ==
    \/ Register(r) \/ Send(r) \/ SendFails(r) \/ Receive(r)
    \/ Expire(r) \/ DropReceiver(r) \/ CancelExpired(r) \/ RecordOutcome(r)

Next ==
    \/ \E r \in Request :
        \/ Begin(r) \/ Step(r) \/ DropFuture(r) \/ Lose(r)
        \/ \E result \in {"ok", "err"} : Complete(r, result)
    \/ RemoveExpired
    \/ Reset
    \/ Tick

(* Futures are polled when they can go on, cleanup_task runs every ten       *)
(* seconds, and time passes.  Nothing is assumed of the subsystem.           *)
Fairness == WF_vars(RemoveExpired) /\ WF_vars(Tick) /\ \A r \in Request : WF_vars(Step(r))

Spec == Init /\ [][Next]_vars /\ Fairness

-----------------------------------------------------------------------------

(* The counters of the admin panel account for every request exactly once:  *)
(* what was registered and neither completed nor timed out nor cancelled is  *)
(* what the store holds, whichever of the caller, the listener and the       *)
(* cleanup task was the first to take the entry out.                         *)
StatsBalance == outstanding = Cardinality(DOMAIN pending)

(* The circuit opens only after failure_threshold failures in a row, and     *)
(* without a reset closes only after success_threshold successes in a row    *)
(* since it last went half-open, whatever happened in the periods before.    *)
ThresholdsHonoured ==
    [][/\ circuit.state = "closed" /\ circuit'.state = "open"
            => streak.failures = FailureThreshold - 1
       /\ circuit.state = "half_open" /\ circuit'.state = "closed" /\ caller' # caller
            => streak.successes = SuccessThreshold - 1]_vars

(* Every request ends: its caller is given a result or went away, and its    *)
(* entry leaves the store, although answers may be lost and a dropped        *)
(* caller leaves its entry behind.                                           *)
RequestsEnd ==
    \A r \in Request :
        (caller[r] # "none" \/ r \in DOMAIN pending) ~> (caller[r] = "none" /\ r \notin DOMAIN pending)

=============================================================================
