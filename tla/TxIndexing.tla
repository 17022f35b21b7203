---------------------------- MODULE TxIndexing ----------------------------
(***************************************************************************)
(* Transaction indexing (qc-03-transaction-indexing): the Merkle tree kept  *)
(* in an array, its two constructions and its proofs (domain/entities.rs),  *)
(* the index of transaction locations with the bounded cache of trees, and  *)
(* the two ways into it: the IPC handler with its envelope checks           *)
(* (ipc/handler.rs) and the adapter of the node runtime                     *)
(* (node-runtime/src/adapters/transaction_indexing.rs), which has none.     *)
(*                                                                         *)
(* A hash is its preimage: <<tx>> is the hash of a transaction, <<l, r>> of *)
(* a pair, <<>> the sentinel.  Blocks with a common transaction, and blocks *)
(* that hold one twice, are among the inputs.                               *)
(***************************************************************************)
EXTENDS Integers, Sequences, SequencesExt, FiniteSetsExt, PartialMaps

CONSTANTS
    Block,              \* block hashes
    TxsOf,              \* TxsOf[b]: the transactions of block b, in order
    MaxCachedTrees,     \* IndexConfig::max_cached_trees
    ParallelThreshold,  \* PARALLEL_THRESHOLD
    Nonce,              \* nonces of the envelopes
    MaxIndexed          \* bound: put_location calls in a behaviour

VARIABLES
    locations,     \* TransactionIndex::locations: transaction -> location
    trees,         \* TransactionIndex::trees, most recently used first
    total,         \* IndexingStats::total_indexed_txs
    nonce_cache,   \* EnvelopeValidator::nonce_cache
    reply          \* the last answer to a request

vars == <<locations, trees, total, nonce_cache, reply>>

Sentinel == <<>>
HashPair(l, r) == <<l, r>>
Leaf(tx) == <<tx>>
Tx == UNION {ToSet(TxsOf[b]) : b \in Block}
NoReply == [kind |-> "none"]

-----------------------------------------------------------------------------
(* The tree: an array from 0, children of i at 2i+1 and 2i+2.               *)

NextPowerOfTwo(n) == CHOOSE p \in {2^k : k \in 0..n} : p >= n /\ \A k \in 0..n : 2^k >= n => p <= 2^k
PaddedCount(n) == IF n = 1 THEN 2 ELSE NextPowerOfTwo(n)
Padded(txs, n) == [i \in 0..(n - 1) |-> IF i < Len(txs) THEN Leaf(txs[i + 1]) ELSE Sentinel]

EmptyTree == [nodes |-> [i \in {0} |-> Sentinel], count |-> 0, padded |-> 0]

(* build: the internal nodes from the last to the first.                    *)
Build(txs) ==
    IF txs = <<>> THEN EmptyTree
    ELSE LET padded == PaddedCount(Len(txs))
             first == padded - 1
             leaves == Padded(txs, padded)
             bare == [i \in 0..(2 * padded - 2) |->
                         IF i < first THEN Sentinel ELSE leaves[i - first]]
             Parent(nodes, i) == [nodes EXCEPT ![i] = HashPair(nodes[2 * i + 1], nodes[2 * i + 2])]
         IN  [nodes |-> FoldLeft(Parent, bare, [k \in 1..first |-> first - k]),
              count |-> Len(txs), padded |-> padded]

(* Variant: a level reads its children from where the level itself starts.  *)
LevelChildrenShifted(start, size, i) == start + 2 * i
LevelChildren(start, size, i) == start + size + 2 * i

(* build_parallel: one level at a time, every pair of a level from the      *)
(* level below; short lists are left to build.                              *)
BuildParallel(txs) ==
    IF Len(txs) < ParallelThreshold \/ txs = <<>> THEN Build(txs)
    ELSE LET padded == NextPowerOfTwo(Len(txs))
             first == padded - 1
             leaves == Padded(txs, padded)
             bare == [i \in 0..(2 * padded - 2) |->
                         IF i < first THEN Sentinel ELSE leaves[i - first]]
             Level(nodes, size) ==
                 LET start == size - 1
                     Pair(i) == LET left == LevelChildren(start, size, i)
                                IN  HashPair(nodes[left], nodes[left + 1])
                 IN  [j \in DOMAIN nodes |->
                         IF j \in start..(start + size - 1) THEN Pair(j - start) ELSE nodes[j]]
             sizes == [k \in 1..Cardinality({j \in 1..padded : 2^j <= padded}) |-> padded \div 2^k]
         IN  [nodes |-> FoldLeft(Level, bare, sizes), count |-> Len(txs), padded |-> padded]

Root(tree) == tree.nodes[0]

(* Variant: the sibling is always the node before.                          *)
SiblingOnTheLeft(i) == i - 1
SiblingOf(i) == IF i % 2 = 0 THEN i - 1 ELSE i + 1

(* The indices generate_proof passes on its way from a leaf to the root.    *)
ParentIndex(i) == (i - 1) \div 2
Ascent(i) ==
    LET Up(path, k) == IF Last(path) = 0 THEN path ELSE Append(path, ParentIndex(Last(path)))
    IN  SelectSeq(FoldLeft(Up, <<i>>, [k \in 1..i |-> k]), LAMBDA j : j > 0)

GenerateProof(tree, tx_index) ==
    LET leaf == tree.padded - 1 + tx_index
        up == Ascent(leaf)
    IN  [leaf_hash |-> tree.nodes[leaf],
         root |-> Root(tree),
         path |-> [k \in 1..Len(up) |->
                      [hash |-> tree.nodes[SiblingOf(up[k])],
                       position |-> IF up[k] % 2 = 0 THEN "left" ELSE "right"]]]

VerifyProofStatic(leaf_hash, path, expected_root) ==
    LET Step(hash, node) == IF node.position = "left" THEN HashPair(node.hash, hash)
                            ELSE HashPair(hash, node.hash)
    IN  FoldLeft(Step, leaf_hash, path) = expected_root

(* A proof of several leaves at once, and what verify looks at.             *)
GenerateMultiProof(tree, indices) ==
    [leaf_indices |-> SetToSortSeq(indices, <),
     leaf_hashes |-> [k \in 1..Cardinality(indices) |->
                         tree.nodes[tree.padded - 1 + SetToSortSeq(indices, <)[k]]],
     root |-> Root(tree)]
MultiProofVerify(proof) ==
    /\ proof.leaf_indices # <<>> /\ proof.leaf_hashes # <<>>
    /\ Len(proof.leaf_indices) = Len(proof.leaf_hashes)
    /\ proof.root # Sentinel

-----------------------------------------------------------------------------
Init ==
    /\ locations = <<>>
    /\ trees = <<>>
    /\ total = 0
    /\ nonce_cache = {}
    /\ reply = NoReply

Cached(b) == \E k \in 1..Len(trees) : trees[k].block = b
TreeOf(b) == (CHOOSE k \in 1..Len(trees) : trees[k].block = b)

(* LruCache (the lru crate): put and get make an entry the most recent, and *)
(* put drops the least recent one of a full cache.                          *)
Refreshed(entry) == <<entry>> \o SelectSeq(trees, LAMBDA e : e.block # entry.block)
Bounded(entries) == IF Len(entries) > MaxCachedTrees THEN Front(entries) ELSE entries

(* put_location for every transaction, the last one wins; then cache_tree.  *)
Index(b) ==
    LET txs == TxsOf[b]
        tree == Build(txs)
        Put(map, k) == Store(map, txs[k], [block |-> b, index |-> k - 1, root |-> Root(tree)])
    IN  /\ total + Len(txs) <= MaxIndexed
        /\ locations' = FoldLeft(Put, locations, [k \in 1..Len(txs) |-> k])
        /\ total' = total + Len(txs)
        /\ trees' = Bounded(Refreshed([block |-> b, tree |-> tree]))

(* process_block_validated of the adapter; the index is updated before the  *)
(* root is published, and stays so when that fails.                         *)
ProcessBlockValidated(b) ==
    /\ Index(b)
    /\ UNCHANGED <<nonce_cache, reply>>

(* EnvelopeValidator::validate of a message that passes it.                 *)
Validate(nonce) ==
    /\ nonce \notin nonce_cache
    /\ nonce_cache' = nonce_cache \cup {nonce}

(* A message that is refused: for its signature, which is looked at after   *)
(* the nonce was recorded, or after the envelope for its sender.  Those     *)
(* refused earlier leave no trace.                                          *)
Refuse(nonce) ==
    /\ nonce \notin nonce_cache
    /\ nonce_cache' = nonce_cache \cup {nonce}
    /\ UNCHANGED <<locations, trees, total, reply>>

HandleBlockValidated(nonce, b) ==
    /\ Validate(nonce)
    /\ Index(b)
    /\ UNCHANGED reply

HandleMerkleProofRequest(nonce, tx) ==
    /\ Validate(nonce)
    /\ IF tx \notin DOMAIN locations
         THEN reply' = [kind |-> "not_found"] /\ UNCHANGED trees
         ELSE LET b == locations[tx].block
              IN  IF ~Cached(b) THEN reply' = [kind |-> "not_cached"] /\ UNCHANGED trees
                  ELSE /\ reply' = [kind |-> "proof", tx |-> tx, block |-> b,
                                    proof |-> GenerateProof(trees[TreeOf(b)].tree, locations[tx].index)]
                       /\ trees' = Refreshed(trees[TreeOf(b)])
    /\ UNCHANGED <<locations, total>>

HandleLocationRequest(nonce, tx) ==
    /\ Validate(nonce)
    /\ reply' = IF tx \in DOMAIN locations
                  THEN [kind |-> "location", tx |-> tx, location |-> locations[tx]]
                  ELSE [kind |-> "not_found"]
    /\ UNCHANGED <<locations, trees, total>>

Next ==
    \/ \E b \in Block : ProcessBlockValidated(b)
    \/ \E nonce \in Nonce :
           \/ Refuse(nonce)
           \/ \E b \in Block : HandleBlockValidated(nonce, b)
           \/ \E tx \in Tx : HandleMerkleProofRequest(nonce, tx) \/ HandleLocationRequest(nonce, tx)

Spec == Init /\ [][Next]_vars

-----------------------------------------------------------------------------
(* The root as the mathematics has it: a tree of the padded list, split in  *)
(* the middle.  reference[k] are the hashes of the subtrees of 2^k leaves.  *)
Reference(txs) ==
    LET padded == PaddedCount(Len(txs))
        leaves == [i \in 1..padded |-> Padded(txs, padded)[i - 1]]
        Halve(row, k) == [i \in 1..(Len(row) \div 2) |-> HashPair(row[2 * i - 1], row[2 * i])]
    IN  IF txs = <<>> THEN Sentinel
        ELSE FoldLeft(Halve, leaves, [k \in 1..Cardinality({j \in 1..padded : 2^j <= padded}) |-> k])[1]

(* The index can prove what it says: whichever blocks were indexed in which *)
(* order, and whatever was evicted, a location whose tree is cached yields  *)
(* a proof of just that transaction which verifies against the root the     *)
(* location carries, and that root is the one of the whole list (INVARIANT  *)
(* 2 of generate_proof, domain/entities.rs:128).  Any set of leaves of a    *)
(* cached tree also has a joint proof that verify accepts, with the hashes  *)
(* in the order of the indices.                                             *)
IndexProvesItself ==
    \A tx \in DOMAIN locations :
        LET at == locations[tx]
        IN  /\ TxsOf[at.block][at.index + 1] = tx
            /\ at.root = Reference(TxsOf[at.block])
            /\ Cached(at.block) =>
                   LET proof == GenerateProof(trees[TreeOf(at.block)].tree, at.index)
                   IN  /\ proof.leaf_hash = Leaf(tx)
                       /\ VerifyProofStatic(proof.leaf_hash, proof.path, at.root)
                       /\ \A indices \in {{at.index}, 0..at.index, at.index..(Len(TxsOf[at.block]) - 1)} :
                              LET joint == GenerateMultiProof(trees[TreeOf(at.block)].tree, indices)
                              IN  /\ MultiProofVerify(joint)
                                  /\ joint.leaf_hashes = [k \in DOMAIN joint.leaf_indices |->
                                                             Leaf(TxsOf[at.block][joint.leaf_indices[k] + 1])]

(* build_parallel builds the very tree that build builds, at and above the  *)
(* threshold (domain/entities.rs:277).                                      *)
ParallelIsSerial == \A k \in 1..Len(trees) : BuildParallel(TxsOf[trees[k].block]) = trees[k].tree

-----------------------------------------------------------------------------
(* What the comments say, and the code does not do.                         *)

(* domain/entities.rs:685 "Total transactions indexed."  A transaction that  *)
(* a second block holds is counted again.                                   *)
TotalCountsTransactions == total = Cardinality(DOMAIN locations)

=============================================================================
