------------------------ MODULE MCBlockProduction ------------------------
(***************************************************************************)
(* The mining task, the two computations of the block producer that are    *)
(* not part of its loop (the search for a nonce and the selection of       *)
(* transactions), and the registry that starts and stops the subsystems.   *)
(* They share no state: a behaviour is one of a single part, and the       *)
(* others stay as they are.                                                *)
(***************************************************************************)
EXTENDS BlockProduction

CONSTANTS
    t1, t2,
    NumThreads, MaxNonce, LastThread,
    MinGasPrice, GasLimit, Wrap, MaxCandidates

VARIABLES
    part,
    valid, pc, nonce, found, result_nonce, outcome,
    sender_txs, pq, selected, total_gas,
    status, init_order, call

Forward == {1}
BothWays == {1, -1}

(* A node that starts from its genesis block, and one that resumes at height *)
(* 2 with a stored target above the bound and a stored time ahead of ours.   *)
(* The history of a node whose blocks cannot be read is empty.               *)
FromGenesis == <<[height |-> 0, timestamp |-> 0, difficulty |-> InitialDifficulty]>>
Resumed ==
    <<[height |-> 2, timestamp |-> 6, difficulty |-> 2 * MaxDifficulty],
      [height |-> 1, timestamp |-> 3, difficulty |-> 40],
      [height |-> 0, timestamp |-> 0, difficulty |-> InitialDifficulty]>>

AnyHistory == {Resumed, <<>>}
OnlyResumed == {Resumed}
OnlyGenesis == {FromGenesis}

-----------------------------------------------------------------------------
Tx(id, from, number, price, limit, success, used) ==
    [id |-> id, from |-> from, nonce |-> number, gas_price |-> price,
     gas_limit |-> limit, success |-> success, gas_used |-> used]

(* Senders with gaps, a repeated nonce, a failing transaction, one whose     *)
(* limit makes the sum wrap and one below the price.                         *)
Candidate ==
    {Tx(1, "a", 0, 2, 2, TRUE, 2), Tx(2, "a", 1, 9, 2, TRUE, 2), Tx(3, "a", 1, 5, 2, TRUE, 3),
     Tx(4, "a", 3, 9, 2, TRUE, 2), Tx(5, "b", 0, 5, 3, TRUE, 2), Tx(6, "b", 1, 7, 31, TRUE, 3),
     Tx(7, "b", 2, 4, 2, FALSE, 0), Tx(8, "b", 2, 5, 2, TRUE, 2), Tx(9, "c", 4, 1, 2, TRUE, 2),
     Tx(10, "c", 5, 4, 6, TRUE, 2), Tx(11, "c", 6, 9, 2, TRUE, 2)}

Search == INSTANCE PowSearch
Selection == INSTANCE TxSelection

(* Two required subsystems, one of which depends on an optional one that      *)
(* itself depends on another; all of them may be registered or missing.       *)
Needs ==
    [storage |-> <<>>, state |-> <<>>, pool |-> <<"state">>,
     consensus |-> <<"pool", "storage">>, gateway |-> <<"consensus", "pool">>]

Registry == INSTANCE SubsystemRegistry WITH
    Subsystem <- DOMAIN Needs, Mandatory <- {"storage", "consensus"},
    Dependencies <- Needs, Caller <- {"runtime"}

searchVars == <<valid, pc, nonce, found, result_nonce, outcome>>
selectionVars == <<sender_txs, pq, selected, total_gas>>
registryVars == <<status, init_order, call>>

NothingToSearch ==
    /\ valid = {} /\ found = FALSE /\ result_nonce = 0 /\ outcome = 0
    /\ pc = [t \in Search!Thread |-> "done"] /\ nonce = [t \in Search!Thread |-> 0]

NothingToSelect ==
    /\ sender_txs = [s \in Selection!Sender |-> <<>>] /\ pq = [s \in Selection!Sender |-> 0]
    /\ selected = <<>> /\ total_gas = 0

MCInit ==
    /\ Init /\ Registry!Init
    /\ \/ part = "task" /\ NothingToSearch /\ NothingToSelect
       \/ part = "registry" /\ wall = 0 /\ NothingToSearch /\ NothingToSelect
       \/ part = "search" /\ Search!Init /\ NothingToSelect
       \/ part = "selection" /\ NothingToSearch /\ Selection!Init

MCNext ==
    /\ UNCHANGED part
    /\ \/ part = "task" /\ Next /\ UNCHANGED <<searchVars, selectionVars, registryVars>>
       \/ part = "search" /\ Search!Next /\ UNCHANGED <<vars, selectionVars, registryVars>>
       \/ part = "selection" /\ Selection!Next /\ UNCHANGED <<vars, searchVars, registryVars>>
       \/ part = "registry" /\ Registry!Next /\ UNCHANGED <<vars, searchVars, selectionVars>>

(* The threads of the search run, where it is the search that runs.          *)
MCSpec ==
    /\ MCInit /\ [][MCNext]_<<part, vars, searchVars, selectionVars, registryVars>>
    /\ part = "search" => Search!Fairness

(* A nonce mine_block returns meets the target, and it reports failure only *)
(* if none of the ranges it hands out has one; what the division by the      *)
(* number of threads leaves over is not searched (see PowSearch).            *)
SearchIsExact == part = "search" => Search!SearchIsExact

(* mine_block returns (see PowSearch).                                       *)
Terminates == part = "search" => Search!Terminates

(* What select_transactions selects fits in a block and has the nonces of    *)
(* every sender in sequence, a transaction comes after a cheaper one only if *)
(* its own sender held it back, and nothing that could follow is left out    *)
(* (see TxSelection).                                                        *)
SelectionIsRight ==
    /\ Selection!SelectionIsSequential /\ Selection!FeePriority
    /\ part = "selection" => Selection!NothingLeftOut

(* A mined block links to the one before it and meets a target within the   *)
(* bounds, and an aborted task mines no more (see BlockProduction).          *)
MinerIsSound == BlocksAreLinked /\ TargetsAreBounded /\ AbortedTaskEnds

(* No subsystem runs on a dependency that is stopped, and start_all and      *)
(* stop_all report what they did (see SubsystemRegistry).                    *)
NodeIsOrdered == Registry!DependenciesOutlive /\ Registry!AnswersAreTrue

=============================================================================
