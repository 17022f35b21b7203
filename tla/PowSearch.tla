----------------------------- MODULE PowSearch -----------------------------
(***************************************************************************)
(* PoWMiner::mine_block of qc-17 (domain/services.rs): threads search      *)
(* their ranges of nonces, raise a flag and write the nonce they found,    *)
(* and the caller joins them all before it reads either.                   *)
(***************************************************************************)
EXTENDS Integers, FiniteSets

CONSTANTS
    NumThreads,
    MaxNonce,            \* u64::MAX
    LastThread           \* MAX_THREADS - 1, the only thread that searches up to MaxNonce

Thread == 0..NumThreads-1

VARIABLES
    valid,               \* nonces that meet the target
    pc, nonce,           \* of every thread
    found, result_nonce, \* the shared atomics
    outcome              \* of the caller: "searching", or the nonce, or -1 for None

vars == <<valid, pc, nonce, found, result_nonce, outcome>>

RangePerThread == MaxNonce \div NumThreads
StartNonce(t) == t * RangePerThread

EndNonce(t) == IF t = LastThread THEN MaxNonce ELSE (t + 1) * RangePerThread

Searching == -2
Nothing == -1

Init ==
    /\ valid \in SUBSET (0..MaxNonce)
    /\ pc = [t \in Thread |-> "search"]
    /\ nonce = [t \in Thread |-> StartNonce(t)]
    /\ found = FALSE /\ result_nonce = 0
    /\ outcome = Searching

\* Variant: a thread does not stop at the end of its range.
GiveWhenFound(t) ==
    /\ pc[t] = "search"
    /\ found
    /\ pc' = [pc EXCEPT ![t] = "done"]
    /\ UNCHANGED <<valid, nonce, found, result_nonce, outcome>>

(* The range is exhausted, or another thread has found a nonce. *)
Give(t) ==
    /\ pc[t] = "search"
    /\ nonce[t] >= EndNonce(t) \/ found
    /\ pc' = [pc EXCEPT ![t] = "done"]
    /\ UNCHANGED <<valid, nonce, found, result_nonce, outcome>>

(* The flag may be raised by another thread after this thread has read it. *)
Try(t) ==
    /\ pc[t] = "search" /\ nonce[t] < EndNonce(t)
    /\ ~found
    /\ pc' = [pc EXCEPT ![t] = "check"]
    /\ UNCHANGED <<valid, nonce, found, result_nonce, outcome>>

Miss(t) ==
    /\ pc[t] = "check" /\ nonce[t] \notin valid
    /\ nonce' = [nonce EXCEPT ![t] = @ + 1]
    /\ pc' = [pc EXCEPT ![t] = "search"]
    /\ UNCHANGED <<valid, found, result_nonce, outcome>>

Hit(t) ==
    /\ pc[t] = "check" /\ nonce[t] \in valid
    /\ found' = TRUE
    /\ pc' = [pc EXCEPT ![t] = "write"]
    /\ UNCHANGED <<valid, nonce, result_nonce, outcome>>

WriteResult(t) ==
    /\ pc[t] = "write"
    /\ result_nonce' = nonce[t]
    /\ pc' = [pc EXCEPT ![t] = "done"]
    /\ UNCHANGED <<valid, nonce, found, outcome>>

\* Variant: the caller waits for the flag and not for the threads.
ReturnWhenFound ==
    /\ outcome = Searching
    /\ found \/ \A t \in Thread : pc[t] = "done"
    /\ outcome' = IF found THEN result_nonce ELSE Nothing
    /\ UNCHANGED <<valid, pc, nonce, found, result_nonce>>

Return ==
    /\ outcome = Searching /\ \A t \in Thread : pc[t] = "done"
    /\ outcome' = IF found THEN result_nonce ELSE Nothing
    /\ UNCHANGED <<valid, pc, nonce, found, result_nonce>>

Next ==
    \/ Return
    \/ \E t \in Thread : Give(t) \/ Try(t) \/ Miss(t) \/ Hit(t) \/ WriteResult(t)

(* Every thread runs, and the caller too. *)
Fairness ==
    /\ WF_vars(Return)
    /\ \A t \in Thread : WF_vars(Give(t) \/ Try(t) \/ Miss(t) \/ Hit(t) \/ WriteResult(t))

Spec == Init /\ [][Next]_vars /\ Fairness

-----------------------------------------------------------------------------

(* A nonce mine_block returns meets the target, however the stores of        *)
(* several threads that found one interleave, and it reports failure only    *)
(* if no nonce of the ranges it hands out does.                              *)
SearchIsExact ==
    /\ outcome >= 0 => outcome \in valid
    /\ outcome = Nothing => valid \cap 0..(NumThreads * RangePerThread - 1) = {}

(* mine_block returns. *)
Terminates == <>(outcome # Searching)

=============================================================================
