------------------------- MODULE SubsystemRegistry -------------------------
(***************************************************************************)
(* The registry that starts and stops the subsystems of a node             *)
(* (shared-types, subsystem_registry.rs).  register takes the registry     *)
(* exclusively; start_all and stop_all share it and may overlap.  The lock *)
(* of an entry is held while its subsystem starts or stops, so either is   *)
(* one step, but it is not held from the check of the dependencies to the  *)
(* start.  Subsystems are registered while none of them runs, as the usage *)
(* in the module's documentation has it.                                   *)
(***************************************************************************)
EXTENDS Naturals, FiniteSets, SequencesExt, Functions

CONSTANTS
    Subsystem,
    Mandatory,           \* required
    Dependencies,        \* subsystem -> sequence of subsystems, without a cycle
    Caller               \* tasks that may be in start_all or stop_all

VARIABLES
    status,              \* of the registered subsystems
    init_order,
    call                 \* caller -> its call: what is left of the order, and the subsystem
                         \* whose dependencies it has checked (a set of at most one)

registry == <<status, init_order>>
vars == <<registry, call>>

Idle(answer) == [op |-> "idle", rest |-> <<>>, checked |-> {}, answer |-> answer]

Registered == DOMAIN status

Init ==
    /\ status = <<>> /\ init_order = <<>>
    /\ call = [c \in Caller |-> Idle("none")]

-----------------------------------------------------------------------------
(* The order of initialisation. *)

RECURSIVE Visit(_, _, _)

\* Variant: the dependencies are not visited.
VisitAlone(id, entries, walk) ==
    IF id \in walk.visited THEN walk
    ELSE [visited |-> walk.visited \cup {id}, order |-> Append(walk.order, id)]

Visit(id, entries, walk) ==
    LET dependencies == IF id \in entries THEN Dependencies[id] ELSE <<>>
        below == FoldLeft(LAMBDA w, d : Visit(d, entries, w),
                          [walk EXCEPT !.visited = @ \cup {id}], dependencies)
    IN  IF id \in walk.visited THEN walk ELSE [below EXCEPT !.order = Append(@, id)]

(* The keys of the map come in any order. *)
InitOrders(entries) ==
    {FoldLeft(LAMBDA w, id : Visit(id, entries, w), [visited |-> {}, order |-> <<>>], keys).order :
        keys \in SetToSeqs(entries)}

Register(s) ==
    /\ \A c \in Caller : call[c].op = "idle"
    /\ \A r \in Registered : status[r] # "Healthy"
    /\ status' = [r \in Registered \cup {s} |-> IF r = s THEN "Stopped" ELSE status[r]]
    /\ init_order' \in InitOrders(Registered \cup {s})
    /\ call' = [c \in Caller |-> Idle("none")]

-----------------------------------------------------------------------------
(* start_all: the dependencies of the next subsystem are checked, then it   *)
(* starts or fails to.                                                       *)

StartAll(c) ==
    /\ call[c].op = "idle"
    /\ call' = [call EXCEPT ![c] =
                  IF Mandatory \subseteq Registered
                  THEN [Idle("none") EXCEPT !.op = "start", !.rest = init_order]
                  ELSE Idle("failed")]
    /\ UNCHANGED registry

DependenciesServe(id) ==
    \A d \in Range(Dependencies[id]) \cap Mandatory : d \in Registered /\ status[d] = "Healthy"

CheckDependencies(c) ==
    /\ call[c].op = "start" /\ call[c].rest # <<>> /\ call[c].checked = {}
    /\ LET id == Head(call[c].rest)
       IN  call' = [call EXCEPT ![c] =
                      IF id \notin Registered THEN [@ EXCEPT !.rest = Tail(@)]
                      ELSE IF DependenciesServe(id) THEN [@ EXCEPT !.checked = {id}]
                      ELSE Idle("failed")]
    /\ UNCHANGED registry

\* Variant: a subsystem that fails to start is skipped, required or not.
FailureIgnored(id) == FALSE

FailureIsFatal(id) == id \in Mandatory

Started(c) ==
    /\ \E id \in call[c].checked : status' = [status EXCEPT ![id] = "Healthy"]
    /\ call' = [call EXCEPT ![c].rest = Tail(@), ![c].checked = {}]
    /\ UNCHANGED init_order

StartFailed(c) ==
    /\ \E id \in call[c].checked :
         /\ status' = [status EXCEPT ![id] = "Error"]
         /\ call' = [call EXCEPT ![c] = IF FailureIsFatal(id) THEN Idle("failed")
                                        ELSE [@ EXCEPT !.rest = Tail(@), !.checked = {}]]
    /\ UNCHANGED init_order

StartReturns(c) ==
    /\ call[c].op = "start" /\ call[c].rest = <<>>
    /\ call' = [call EXCEPT ![c] = Idle("started")]
    /\ UNCHANGED registry

-----------------------------------------------------------------------------
(* stop_all goes through the order from its end, and stops what runs. *)

StopAll(c) ==
    /\ call[c].op = "idle"
    /\ call' = [call EXCEPT ![c] = [Idle("none") EXCEPT !.op = "stop", !.rest = init_order]]
    /\ UNCHANGED registry

\* Variant: in the order of initialisation.
NextInOrder(rest) == Head(rest)

NextToStop(rest) == Last(rest)

StopSubsystem(c) ==
    /\ call[c].op = "stop" /\ call[c].rest # <<>>
    /\ LET id == NextToStop(call[c].rest)
       IN  /\ IF id \in Registered /\ status[id] \in {"Healthy", "Degraded"}
              THEN \E end \in {"Stopped", "Error"} : status' = [status EXCEPT ![id] = end]
              ELSE UNCHANGED status
           /\ call' = [call EXCEPT ![c].rest = SelectSeq(@, LAMBDA s : s # id)]
    /\ UNCHANGED init_order

StopReturns(c) ==
    /\ call[c].op = "stop" /\ call[c].rest = <<>>
    /\ call' = [call EXCEPT ![c] = Idle("stopped")]
    /\ UNCHANGED registry

Next ==
    \/ \E s \in Subsystem : Register(s)
    \/ \E c \in Caller :
         \/ StartAll(c) \/ CheckDependencies(c) \/ Started(c) \/ StartFailed(c) \/ StartReturns(c)
         \/ StopAll(c) \/ StopSubsystem(c) \/ StopReturns(c)

-----------------------------------------------------------------------------
(* A subsystem never runs on a dependency that was stopped or has yet to be *)
(* tried: whatever the order in which subsystems were registered, in which  *)
(* the map lists them and in which starts and stops fail, start_all comes   *)
(* to a dependency before its dependents and stop_all after them.            *)
DependenciesOutlive ==
    \A s \in Registered : \A d \in Range(Dependencies[s]) \cap Registered :
        status[s] = "Healthy" => status[d] # "Stopped"

(* If start_all returns Ok, every required subsystem serves; if stop_all    *)
(* returns, none does, those included that a failed start_all left behind.  *)
AnswersAreTrue ==
    \A c \in Caller :
        /\ call[c].answer = "started" =>
             \A s \in Mandatory : s \in Registered /\ status[s] = "Healthy"
        /\ call[c].answer = "stopped" =>
             \A s \in Registered : status[s] # "Healthy"

=============================================================================
