----------------------------- MODULE MCMempool -----------------------------
(***************************************************************************)
(* The way of a transaction: the pool of qc-06, the ordering of a batch by *)
(* qc-12, the execution of a contract by qc-11 and the state of qc-04 it   *)
(* is applied to; and the policies qc-06 offers beside the pool.  They     *)
(* share no state: a behaviour is one of a single part.                    *)
(***************************************************************************)
EXTENDS Mempool

VARIABLES
    part,
    batch, phase, in_degree, queue, groups,
    contract_storage, warm, vm, result, stats, executions, before,
    accounts, storage, storage_counts, max_slots, nodes, root, state_roots, outcome,
    children, parents, sender_nonces, registered,
    current, previous, since_roll, rejections,
    min_fee, since_decay, pooled,
    pending, sender_counts, proposed

orderVars == <<batch, phase, in_degree, queue, groups>>
evmVars == <<contract_storage, warm, vm, result, stats, executions, before>>
stateVars == <<accounts, storage, storage_counts, max_slots, nodes, root, state_roots, outcome>>
policyVars ==
    <<children, parents, sender_nonces, registered, current, previous, since_roll, rejections,
      min_fee, since_decay, pooled, pending, sender_counts, proposed>>

(* The pool: two senders.  Transactions 1 and 2 compete for one nonce, 3 has *)
(* the next nonce and the highest price, 4 belongs to another sender.        *)
MCSenderOf == [t \in Tx |-> IF t = 4 THEN "bob" ELSE "alice"]
MCNonceOf == [t \in Tx |-> IF t = 3 THEN 1 ELSE 0]
\* Transaction 3 leaves a gap.
MCNonceGapOf == [t \in Tx |-> IF t = 3 THEN 2 ELSE 0]
MCPriceOf == [t \in Tx |-> CASE t = 1 -> 10 [] t = 2 -> 11 [] t = 3 -> 12 [] OTHER -> 10]
MCGasOf == [t \in Tx |-> 1]

-----------------------------------------------------------------------------
(* Batches: up to three transactions of two senders that read or write one   *)
(* location or none, and such three with a transaction of a third sender     *)
(* that has nothing to do with them.  A request from elsewhere, an empty     *)
(* one, one too large, one with too many edges and one whose lists are too   *)
(* short; and batches that have a hash twice, of one sender or of two.       *)
Entry == [sender : 1..2, nonce : 0..1, access : {"none", "read", "write"}]
Idler == [sender |-> 3, nonce |-> 0, access |-> "none"]
OneWriter ==
    [i \in 1..5 |-> [sender |-> i, nonce |-> 0, access |-> IF i = 3 THEN "write" ELSE "read"]]
Lists == UNION {[1..n -> Entry] : n \in 0..3} \cup {Append(l, Idler) : l \in [1..3 -> Entry]}

RequestFor(list, from) ==
    [sender_id |-> from, hashes |-> [i \in DOMAIN list |-> i],
     senders |-> [i \in DOMAIN list |-> list[i].sender],
     nonces |-> [i \in DOMAIN list |-> list[i].nonce],
     read_sets |-> [i \in DOMAIN list |-> IF list[i].access = "read" THEN {"l"} ELSE {}],
     write_sets |-> [i \in DOMAIN list |-> IF list[i].access = "write" THEN {"l"} ELSE {}]]

Requests ==
    {RequestFor(list, 8) : list \in Lists}
      \cup {RequestFor(<<Idler>>, 6), RequestFor([i \in 1..6 |-> Idler], 8), RequestFor(OneWriter, 8),
            [RequestFor(<<Idler, Idler>>, 8) EXCEPT !.nonces = <<>>, !.read_sets = <<>>]}
      \cup {[RequestFor(list \o rest, 8) EXCEPT !.hashes[2] = 1] :
               list \in [1..2 -> Entry], rest \in {<<>>, <<Idler>>}}

Ordering == INSTANCE TxOrdering
    WITH Request <- Requests, AuthorizedSender <- 8, MaxBatchSize <- 5, MaxEdgeCount <- 3,
         ConflictThresholdPercent <- 50

-----------------------------------------------------------------------------
(* A machine of words of six bits and bytes of two.  Programs: every         *)
(* operation on operands around zero, the sign bit, the width of a word and  *)
(* the largest word; and two or three units of jumps, pushes that hold the   *)
(* byte of JUMPDEST, loads and stores, with every way to end.                *)
Ops ==
    <<"STOP", "ADD", "MUL", "SUB", "DIV", "SDIV", "MOD", "SMOD", "ADDMOD", "MULMOD", "EXP",
      "SIGNEXTEND", "LT", "GT", "SLT", "SGT", "EQ", "ISZERO", "AND", "OR", "XOR", "NOT", "BYTE",
      "SHL", "SHR", "SAR", "PUSH0", "PUSH1", "ENV", "PC", "GAS", "MSIZE", "POP", "DUP1", "SWAP1",
      "MLOAD", "MSTORE", "JUMP", "JUMPI", "JUMPDEST", "SLOAD", "SSTORE", "LOG0", "RETURN",
      "REVERT", "INVALID", "OTHER">>
OpcodeOf == [b \in 0..63 |-> IF b + 1 \in DOMAIN Ops THEN Ops[b + 1] ELSE "INVALID"]
B(op) == (CHOOSE i \in DOMAIN Ops : Ops[i] = op) - 1
P(v) == <<B("PUSH1"), v>>
GasOf1 ==
    [o \in {Ops[i] : i \in DOMAIN Ops} |->
        IF o \in {"STOP", "SLOAD", "SSTORE", "RETURN", "REVERT", "INVALID", "OTHER", "LOG0"} THEN 0 ELSE 1]

Operand == {0, 1, 2, 5, 16, 31, 32, 33, 63}
Operators == {Ops[i] : i \in 2..26}
AluPrograms == {P(1) \o P(a) \o P(b) \o <<B(op)>> : a \in Operand, b \in Operand, op \in Operators}
Unit ==
    {P(0), P(3), P(4), P(31), <<B("JUMP")>>, <<B("JUMPI")>>, <<B("JUMPDEST")>>, P(B("JUMPDEST")),
     P(1) \o P(2) \o <<B("SSTORE")>>, P(0) \o P(2) \o <<B("SSTORE")>>, P(2) \o <<B("SLOAD")>>}
Ending ==
    {<<>>} \cup {<<B(op)>> : op \in {"STOP", "RETURN", "REVERT", "INVALID", "OTHER", "LOG0", "MSTORE",
                                      "MLOAD", "POP", "SWAP1", "DUP1", "MSIZE", "GAS", "PC", "ENV", "PUSH0"}}
FlowPrograms ==
    {a \o b \o c : a \in Unit, b \in Unit, c \in Unit \cup Ending}
      \cup {P(1) \o P(5) \o <<B("JUMPI"), B("JUMPDEST")>>}
MCPrograms == AluPrograms \cup FlowPrograms

Machine == INSTANCE Evm
    WITH WordBits <- 6, ByteBits <- 2, UsizeBits <- 5, Opcode <- OpcodeOf, Programs <- MCPrograms,
         GasLimits <- {6, 20}, MaxGasLimit <- 30, BaseGas <- GasOf1, ColdSload <- 2, WarmSload <- 1,
         SstoreSet <- 3, ExpByte <- 1, LogData <- 2, MaxStackSize <- 4, MaxMemorySize <- 9,
         ContextWord <- 7, MaxExecutions <- 1, storage <- contract_storage

-----------------------------------------------------------------------------
(* Four accounts whose keys share no, one and two nibbles; transfers of one, *)
(* transfers whose value has the top bit, a block of two that depend on each *)
(* other, and transactions without recipient or value.                       *)
Keys == [a \in {"a", "b", "c", "d"} |->
    CASE a = "a" -> <<0, 0, 0>> [] a = "b" -> <<0, 0, 1>> [] a = "c" -> <<0, 1, 0>> [] OTHER -> <<1, 1, 0>>]
Transfer(from, to, value, nonce) == [from |-> from, to |-> to, value |-> value, nonce |-> nonce]
BlocksApplied ==
    {<<Transfer(f, <<t>>, v, 0)>> : f \in {"a", "b"}, t \in {"b", "c"}, v \in {1, 3}}
      \cup {<<Transfer("a", <<"b">>, 1, 0), Transfer("b", <<"d">>, 1, n)>> : n \in {0, 1}}
      \cup {<<Transfer("b", <<>>, v, 0)>> : v \in {0, 2}}

State == INSTANCE StateTrie
    WITH KeyOf <- Keys, Nibble <- {0, 1}, Contract <- {"a"}, SlotKey <- {1, 2}, Value <- {"x"},
         Bits <- 2, NonceMax <- 1, Blocks <- BlocksApplied, Limit <- 1, DefaultLimit <- 2

-----------------------------------------------------------------------------
(* A chain of three nonces, the second of which two transactions compete     *)
(* for, and a transaction of another sender; caches of two entries; a pool   *)
(* of two transactions whose floor halves, and passes the base fee on its way *)
(* down.                                                                     *)
Policies == INSTANCE PoolPolicies
    WITH Tx <- 1..5, SenderOf <- [t \in 1..5 |-> IF t = 5 THEN "bob" ELSE "alice"],
         NonceOf <- [t \in 1..5 |-> CASE t \in {2, 3} -> 1 [] t = 4 -> 2 [] OTHER -> 0],
         MaxAncestors <- 2, MaxDescendants <- 2, RollInterval <- 2, MaxEntries <- 2,
         Rate <- 1..5, PoolSize <- 2, BaseFee <- 2, FeeBump <- 1, DecayInterval <- 1,
         MaxIntervals <- 2, DecayFixed <- 500, FixedOne <- 1000, MaxProposed <- 1,
         Heights <- 0..3, MaxReorgDepth <- 1

-----------------------------------------------------------------------------
MCInit ==
    /\ part \in {"pool", "ordering", "execution", "state", "families", "rejections", "fees", "typestate"}
    /\ Init /\ Ordering!Init /\ Machine!Init /\ State!Init /\ Policies!Init

Policy ==
    \/ part = "families" /\ Policies!FamilyNext
    \/ part = "rejections" /\ Policies!RejectionNext
    \/ part = "fees" /\ Policies!FeeNext
    \/ part = "typestate" /\ Policies!TypeStateNext

MCNext ==
    /\ UNCHANGED part
    /\ \/ part = "pool" /\ Next /\ UNCHANGED <<orderVars, evmVars, stateVars, policyVars>>
       \/ part = "ordering" /\ Ordering!Next /\ UNCHANGED <<vars, evmVars, stateVars, policyVars>>
       \/ part = "execution" /\ Machine!Next /\ UNCHANGED <<vars, orderVars, stateVars, policyVars>>
       \/ part = "state" /\ State!Next /\ UNCHANGED <<vars, orderVars, evmVars, policyVars>>
       \/ Policy /\ UNCHANGED <<vars, orderVars, evmVars, stateVars>>

MCSpec == MCInit /\ [][MCNext]_<<part, vars, orderVars, evmVars, stateVars, policyVars>>

(* The trie and the root follow from the accounts; no step and no property   *)
(* of the run reads the recorded roots and the last outcome.                 *)
WhatIsRead ==
    <<part, vars, orderVars, evmVars, policyVars, accounts, storage, storage_counts, max_slots>>

(* Transactions of a group are independent, and conflicting transactions of  *)
(* different senders keep their order unless the batch repeats a hash (see   *)
(* TxOrdering).                                                              *)
GroupsAreIndependent == Ordering!GroupsAreIndependent


(* The trie says what the accounts say, and a contract's slots are counted  *)
(* (see StateTrie).                                                          *)
TrieIsExact == State!TrieIsExact /\ State!CountsAreSlots

(* What stands beside the pool keeps its promises: families are linked,     *)
(* rejections remembered, the minimum fee and the counters per sender are   *)
(* right, and a pool is restored as it was saved or not at all (see         *)
(* PoolPolicies).                                                            *)
PoliciesHold ==
    /\ Policies!FamiliesAreLinked /\ Policies!RejectedAreRemembered /\ Policies!FloorIsFair
    /\ part = "typestate" => Policies!CountsArePending /\ Policies!RestoredAsSaved
====
