----------------------------- MODULE LightClient -----------------------------
(***************************************************************************)
(* qc-13: a client that keeps headers only and believes what two thirds of *)
(* the full nodes it asks agree on.  The nodes are external: an honest one *)
(* answers from the part of the chain it has, which grows between two      *)
(* questions; a faulty one answers anything; either may fail to answer.    *)
(* A hash is the tuple of what was hashed.                                 *)
(***************************************************************************)
EXTENDS Integers, Sequences, FiniteSets, FiniteSetsExt, SequencesExt

CONSTANTS
    NodeCount,                  \* the nodes are 1..NodeCount
    FaultySets,                 \* sets of nodes that may be the faulty ones
    MinFullNodes, HeaderBatchSize, RequiredConfirmations,
    Main,                       \* the chain: Main[h + 1] is the header of height h
    Forged,                     \* headers that are not on it
    Txs,                        \* block hash -> its transactions
    Checkpoints                 \* set of [height, hash]

Node == 1..NodeCount
Header == Range(Main) \cup Forged

VARIABLES
    chain,                      \* HeaderChain by height: sequence of headers
    synced, network_height,
    call,                       \* the operation that is executed
    responses,                  \* answers collected so far, and how many nodes were asked
    faulty,                     \* nodes that answer anything
    height,                     \* node -> height it has, if it is honest (external)
    verified                    \* <<tx, block>> pairs verify_transaction confirmed (history)

vars == <<chain, synced, network_height, call, responses, faulty, height, verified>>

Idle == [op |-> "idle"]
NoResponses == [asked |-> 0, answers |-> <<>>]

Init ==
    /\ chain = <<Main[1]>> /\ synced = FALSE /\ network_height = 0
    /\ call = Idle /\ responses = NoResponses
    /\ faulty \in FaultySets /\ height = [n \in Node |-> 0]
    /\ verified = {}

-----------------------------------------------------------------------------
(* Merkle trees: a level has half as many nodes, and the last one of an odd  *)
(* level is paired with itself.                                              *)

Pair(level, i) == IF i \in DOMAIN level THEN level[i] ELSE level[i - 1]

NextLevel(level) ==
    [i \in 1..((Len(level) + 1) \div 2) |-> <<level[2 * i - 1], Pair(level, 2 * i)>>]

Levels(txs) ==
    LET level[k \in 0..Len(txs)] == IF k = 0 THEN txs ELSE NextLevel(level[k - 1]) IN level

Depth(txs) == Min({k \in 0..Len(txs) : 2^k >= Len(txs)})

ComputeMerkleRoot(txs) == IF txs = <<>> THEN <<"zero">> ELSE Levels(txs)[Depth(txs)][1]

BuildMerkleProof(txs, index) ==
    [k \in 1..Depth(txs) |->
        LET level == Levels(txs)[k - 1]
            i == (index - 1) \div 2^(k - 1)
        IN  IF i % 2 = 1 THEN [hash |-> level[i], position |-> "Left"]
            ELSE [hash |-> Pair(level, i + 2), position |-> "Right"]]

MaxProofDepth == 32

(* Variant: any path is taken for a proof.                                   *)
VerifyMerkleProofGiven(tx, path, root) == path # <<>> \/ tx = root

VerifyMerkleProof(tx, path, root) ==
    LET Up(current, node) ==
            IF node.position = "Left" THEN <<node.hash, current>> ELSE <<current, node.hash>>
    IN  Len(path) <= MaxProofDepth /\ FoldLeft(Up, tx, path) = root

-----------------------------------------------------------------------------
(* check_consensus                                                           *)

Given == Range(responses.answers)

Count(answers, a) == Cardinality({i \in DOMAIN answers : answers[i] = a})

Threshold(n) == (2 * n + 2) \div 3

(* Variant: the answer most nodes give, however few they are.                *)
AgreedPlurality(answers) ==
    {a \in Range(answers) :
        Len(answers) >= MinFullNodes /\ \A b \in Range(answers) : Count(answers, a) >= Count(answers, b)}

(* The answer the nodes agree on, as a set of at most one.                   *)
Agreed(answers) ==
    {a \in Range(answers) :
        Len(answers) >= MinFullNodes /\ Count(answers, a) >= Threshold(Len(answers))}

-----------------------------------------------------------------------------
(* What nodes answer.                                                        *)

HeadersFrom(n, from, count) ==
    SubSeq(Main, from + 1, Min({from + count, height[n] + 1}))

Answers(n) ==
    CASE call.op = "tips" ->
            IF n \in faulty THEN 0..Len(Main) ELSE {height[n]}
      [] call.op = "headers" ->
            IF n \in faulty THEN {<<>>} \cup {<<h>> : h \in Header} \cup {<<g, h>> : g, h \in Forged}
            ELSE {HeadersFrom(n, call.from, call.count)}
      [] call.op = "proofs" ->
            IF n \in faulty
            THEN UNION {{BuildMerkleProof(Txs[b], i) : i \in DOMAIN Txs[b]} : b \in DOMAIN Txs}
            ELSE {BuildMerkleProof(Txs[call.block.hash], i) :
                     i \in {j \in DOMAIN Txs[call.block.hash] : Txs[call.block.hash][j] = call.tx}}

(* Nodes are asked one after the other; one that fails is left out.          *)
Ask ==
    LET n == responses.asked + 1 IN
    /\ call.op # "idle" /\ n <= NodeCount
    /\ \/ \E a \in Answers(n) : responses' = [asked |-> n, answers |-> Append(responses.answers, a)]
       \/ responses' = [responses EXCEPT !.asked = n]
    /\ UNCHANGED <<chain, synced, network_height, call, faulty, height, verified>>

Grow(n) ==
    /\ n \notin faulty /\ height[n] < Len(Main) - 1
    /\ height' = [height EXCEPT ![n] = @ + 1]
    /\ UNCHANGED <<chain, synced, network_height, call, responses, faulty, verified>>

-----------------------------------------------------------------------------
(* sync_headers                                                              *)

TipHeight == Len(chain) - 1

SyncHeaders ==
    /\ call = Idle
    /\ NodeCount >= MinFullNodes
    /\ call' = [op |-> "tips"] /\ responses' = NoResponses
    /\ UNCHANGED <<chain, synced, network_height, faulty, height, verified>>

NextBatch(from, target) ==
    [op |-> "headers", from |-> from, count |-> Min({HeaderBatchSize, target - from + 1})]

Answered(op) == call.op = op /\ responses.asked = NodeCount

ReceiveTips ==
    /\ Answered("tips")
    /\ responses' = NoResponses
    /\ \/ /\ Agreed(responses.answers) = {}
          /\ call' = Idle /\ UNCHANGED <<synced, network_height>>
       \/ \E h \in Agreed(responses.answers) :
            /\ network_height' = h
            /\ synced' = (synced \/ TipHeight >= h)
            /\ call' = IF TipHeight >= h THEN Idle ELSE NextBatch(TipHeight + 1, h)
    /\ UNCHANGED <<chain, faulty, height, verified>>

(* HeaderChain::append                                                       *)
MayAppend(c, header) ==
    /\ header.parent = Last(c).hash
    /\ header.height = Len(c)
    /\ header.timestamp > Last(c).timestamp

(* The headers are appended up to the first that does not fit, and stay.     *)
AppendAll(c, headers) ==
    LET Step(acc, h) == IF acc.ok /\ MayAppend(acc.chain, h)
                        THEN [acc EXCEPT !.chain = Append(@, h)] ELSE [acc EXCEPT !.ok = FALSE]
    IN  FoldLeft(Step, [chain |-> c, ok |-> TRUE], headers)

VerifyCheckpoints(c) ==
    \A cp \in Checkpoints : cp.height < Len(c) => c[cp.height + 1].hash = cp.hash

ReceiveHeaders ==
    /\ Answered("headers")
    /\ responses' = NoResponses
    /\ \/ /\ Agreed(responses.answers) = {}
          /\ call' = Idle /\ UNCHANGED <<chain, synced>>
       \/ \E headers \in Agreed(responses.answers) :
            LET result == AppendAll(chain, headers)
                from == call.from + Len(headers)
                done == result.ok /\ from > network_height
            IN  /\ chain' = result.chain
                /\ synced' = (synced \/ (done /\ VerifyCheckpoints(chain')))
                /\ call' = IF result.ok /\ ~done THEN NextBatch(from, network_height) ELSE Idle
    /\ UNCHANGED <<network_height, faulty, height, verified>>

-----------------------------------------------------------------------------
(* verify_transaction                                                        *)

VerifyTransaction(tx, header) ==
    /\ call = Idle
    /\ header \in Range(chain)
    /\ NodeCount >= MinFullNodes
    /\ call' = [op |-> "proofs", tx |-> tx, block |-> header] /\ responses' = NoResponses
    /\ UNCHANGED <<chain, synced, network_height, faulty, height, verified>>

ReceiveProofs ==
    /\ Answered("proofs")
    /\ call' = Idle /\ responses' = NoResponses
    /\ verified' = verified \cup
           {<<call.tx, call.block.hash>> :
               path \in {p \in Agreed(responses.answers) :
                            /\ VerifyMerkleProof(call.tx, p, call.block.merkle_root)
                            /\ TipHeight - call.block.height >= RequiredConfirmations}}
    /\ UNCHANGED <<chain, synced, network_height, faulty, height>>

Next ==
    \/ SyncHeaders \/ ReceiveTips \/ ReceiveHeaders
    \/ \E header \in Header : \E tx \in UNION {Range(Txs[b]) : b \in DOMAIN Txs} : VerifyTransaction(tx, header)
    \/ ReceiveProofs \/ Ask
    \/ \E n \in Node : Grow(n)

Spec == Init /\ [][Next]_vars

-----------------------------------------------------------------------------
(* The client's headers are a prefix of the chain, whatever the faulty nodes *)
(* answer, whichever nodes do not answer at all and however far the honest   *)
(* ones have got, as long as the faulty nodes are fewer than have to agree   *)
(* when MinFullNodes answer (check_consensus, HeaderChain::append).  That    *)
(* they are fewer than a third of the nodes is not enough: two thirds of the *)
(* answers decide, and the honest nodes may be those that fail to answer.    *)
HeadersAreOnChain ==
    Cardinality(faulty) < Threshold(MinFullNodes) => IsPrefix(chain, Main)

(* What the client confirms is true even if all nodes are faulty: the        *)
(* transaction is in the block, and the block is buried as deep as           *)
(* configured (verify_merkle_proof, verify_transaction).                     *)
VerifiedIsIncluded ==
    \A v \in verified :
        /\ v[1] \in Range(Txs[v[2]])
        /\ \E i \in DOMAIN chain : chain[i].hash = v[2] /\ Len(chain) - i >= RequiredConfirmations

-----------------------------------------------------------------------------
(* What the comments say, and the code does not do.                          *)

(* "Checkpoint enforcement: Reject chains missing trusted checkpoints": the  *)
(* headers of a chain that fails stay, and the next sync finds nothing to    *)
(* fetch and does not look at the checkpoints.                               *)
SyncedMeetsCheckpoints == synced => VerifyCheckpoints(chain)
=============================================================================
