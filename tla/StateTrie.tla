----------------------------- MODULE StateTrie ------------------------------
(***************************************************************************)
(* The Patricia Merkle trie of qc-04 and the IPC handler that applies a    *)
(* block to it.  The trie is rebuilt from the accounts after every change. *)
(* The hash of a node stands for its encoding: the hex-prefix code of its  *)
(* path, its value and the hashes of its children.  The handler holds the  *)
(* write lock of the trie for a whole message, so a block is one step.     *)
(***************************************************************************)
EXTENDS Integers, Sequences, FiniteSets, FiniteSetsExt, SequencesExt, PartialMaps

CONSTANTS
    KeyOf,          \* address -> the nibbles of its hash
    Nibble,         \* 0 .. n
    Contract,       \* addresses whose storage is written
    SlotKey,
    Value,
    Bits,           \* width of a balance; an i128 has the same width
    NonceMax,       \* u64::MAX
    Blocks,         \* sequences of transactions
    Limit,          \* max_storage_slots_per_contract as configured
    DefaultLimit    \* and as StateConfig::default() has it

Address == DOMAIN KeyOf
BalanceMax == 2^Bits - 1

VARIABLES
    accounts,       \* address -> balance, nonce, storage_root
    storage,        \* <<contract, slot>> -> value
    storage_counts, \* contract -> number of slots
    max_slots,      \* config.max_storage_slots_per_contract
    nodes,          \* the nodes of the trie, by hash
    root,
    state_roots,    \* roots recorded by handle_block_validated
    outcome         \* of the last message

vars == <<accounts, storage, storage_counts, max_slots, nodes, root, state_roots, outcome>>

-----------------------------------------------------------------------------
(* Nibbles *)

SliceFrom(key, start) == SubSeq(key, start + 1, Len(key))

CommonPrefixLen(a, b) ==
    Max({n \in 0..Len(a) : n <= Len(b) /\ \A i \in 1..n : a[i] = b[i]})

\* The first nibble of the code holds the kind of node and the parity of the path.
EncodeHexPrefix(path, is_leaf) ==
    LET flag == (IF is_leaf THEN 2 ELSE 0) + (Len(path) % 2)
    IN IF Len(path) % 2 = 1 THEN <<flag>> \o path ELSE <<flag, 0>> \o path

DecodeHexPrefix(code) ==
    [path |-> IF code[1] % 2 = 1 THEN SliceFrom(code, 1) ELSE SliceFrom(code, 2),
     is_leaf |-> code[1] >= 2]

-----------------------------------------------------------------------------
(* Nodes.  An optional value or child is a sequence of length at most one. *)

Leaf(path, value) == [code |-> EncodeHexPrefix(path, TRUE), value |-> <<value>>, children |-> <<>>]
Extension(path, child) == [code |-> EncodeHexPrefix(path, FALSE), value |-> <<>>, children |-> <<child>>]
Branch(children) == [code |-> <<>>, value |-> <<>>, children |-> children]

EmptyTrieRoot == <<>>
Hash(node) == <<node>>

DefaultAccount == [balance |-> 0, nonce |-> 0, storage_root |-> <<>>]

\* Variant: the prefix two neighbours share, taken for all of them.
CommonLenOfTwo(keys, depth) ==
    LET first == CHOOSE k \in keys : TRUE
        second == CHOOSE k \in keys \ {first} : TRUE
    IN CommonPrefixLen(SliceFrom(first, depth), SliceFrom(second, depth))

CommonLen(keys, depth) ==
    LET first == CHOOSE k \in keys : TRUE
    IN Min({CommonPrefixLen(SliceFrom(k, depth), SliceFrom(first, depth)) : k \in keys \ {first}})

(* All keys have one length, so no key ends at a branch and its value stays *)
(* empty.                                                                  *)
RECURSIVE BuildNode(_, _)
BuildNode(items, depth) ==
    LET keys == DOMAIN items
        key == CHOOSE k \in keys : TRUE
        common == CommonLen(keys, depth)
        Child(nibble) ==
            LET group == {k \in keys : Len(k) > depth /\ k[depth + 1] = nibble}
            IN BuildNode([k \in group |-> items[k]], depth + 1)
    IN CASE keys = {} -> EmptyTrieRoot
         [] Cardinality(keys) = 1 -> Hash(Leaf(SliceFrom(key, depth), items[key]))
         [] Cardinality(keys) > 1 /\ common > 0 ->
                Hash(Extension(SubSeq(key, depth + 1, depth + common), BuildNode(items, depth + common)))
         [] OTHER -> Hash(Branch([i \in 1..Cardinality(Nibble) |-> Child(i - 1)]))

RECURSIVE NodesOf(_)
NodesOf(hash) ==
    IF hash = EmptyTrieRoot THEN {EmptyTrieRoot}
    ELSE {hash, EmptyTrieRoot} \cup
         UNION {NodesOf(hash[1].children[i]) : i \in DOMAIN hash[1].children}

RootOf(accts) ==
    BuildNode([k \in {KeyOf[a] : a \in DOMAIN accts} |->
                 accts[CHOOSE a \in DOMAIN accts : KeyOf[a] = k]], 0)

\* rebuild_trie: always the last thing a change does
Rebuild(accts) ==
    /\ root' = RootOf(accts)
    /\ nodes' = NodesOf(RootOf(accts))

Init ==
    /\ accounts = <<>>
    /\ storage = <<>>
    /\ storage_counts = <<>>
    /\ max_slots = Limit
    /\ nodes = {EmptyTrieRoot}
    /\ root = EmptyTrieRoot
    /\ state_roots = {}
    /\ outcome = "none"

-----------------------------------------------------------------------------
(* Proofs *)

\* process_for_proof: where the walk goes from a node, or <<>> where it stops
ProcessForProof(node, key, depth) ==
    IF node.code = <<>>
    THEN IF depth >= Len(key) THEN <<>>
         ELSE LET child == node.children[key[depth + 1] + 1]
              IN IF child = EmptyTrieRoot THEN <<>> ELSE <<[hash |-> child, depth |-> depth + 1]>>
    ELSE LET decoded == DecodeHexPrefix(node.code)
         IN IF decoded.is_leaf \/ ~IsPrefix(decoded.path, SliceFrom(key, depth)) THEN <<>>
            ELSE <<[hash |-> node.children[1], depth |-> depth + Len(decoded.path)]>>

RECURSIVE ProofNodes(_, _, _)
ProofNodes(hash, key, depth) ==
    IF hash = EmptyTrieRoot THEN <<>>
    ELSE LET next == ProcessForProof(hash[1], key, depth)
         IN <<hash[1]>> \o (IF next = <<>> THEN <<>>
                           ELSE ProofNodes(next[1].hash, key, next[1].depth))

GenerateProof(address) ==
    [address |-> address,
     account_state |-> IF address \in DOMAIN accounts THEN <<accounts[address]>> ELSE <<>>,
     proof_nodes |-> ProofNodes(root, KeyOf[address], 0),
     state_root |-> root]

\* Only the root, the address and whether there are nodes are looked at.
VerifyProof(proof, address, expected_root) ==
    /\ proof.state_root = expected_root
    /\ proof.address = address
    /\ proof.proof_nodes = <<>> => proof.account_state = <<>>

-----------------------------------------------------------------------------
(* Accounts *)

BalanceOf(accts, address) == IF address \in DOMAIN accts THEN accts[address].balance ELSE 0
AccountNonce(accts, address) == IF address \in DOMAIN accts THEN accts[address].nonce ELSE 0
Entry(accts, address) == IF address \in DOMAIN accts THEN accts[address] ELSE DefaultAccount

SetBalance(accts, address, balance) ==
    Store(accts, address, [Entry(accts, address) EXCEPT !.balance = balance])

\* A u128 cast to an i128, and the negation of an i128, wrap around.
AsSigned(n) ==
    LET m == n % 2^Bits IN IF m >= 2^(Bits - 1) THEN m - 2^Bits ELSE m

\* Accounts and whether the step succeeded.
ApplyBalanceChange(accts, address, delta) ==
    LET current == BalanceOf(accts, address)
        required == AsSigned(-delta) % 2^Bits
    IN CASE delta >= 0 ->
              [accts |-> SetBalance(accts, address, Min({current + delta, BalanceMax})), ok |-> TRUE]
         [] delta < 0 /\ current < required -> [accts |-> accts, ok |-> FALSE]
         [] OTHER -> [accts |-> SetBalance(accts, address, current - required), ok |-> TRUE]

ApplyNonceIncrement(accts, address, expected) ==
    IF AccountNonce(accts, address) # expected \/ AccountNonce(accts, address) = NonceMax
    THEN [accts |-> accts, ok |-> FALSE]
    ELSE [accts |-> Store(accts, address, [Entry(accts, address) EXCEPT !.nonce = @ + 1]), ok |-> TRUE]

\* One transaction; the first error ends it, and what was done before stays.
ApplyTransaction(accts, tx) ==
    LET debit == ApplyBalanceChange(accts, tx.from, AsSigned(-AsSigned(tx.value)))
        credit == IF tx.to = <<>> THEN debit
                  ELSE ApplyBalanceChange(debit.accts, tx.to[1], AsSigned(tx.value))
    IN CASE tx.value = 0 -> ApplyNonceIncrement(accts, tx.from, tx.nonce)
         [] tx.value # 0 /\ ~debit.ok -> debit
         [] tx.value # 0 /\ debit.ok /\ ~credit.ok -> credit
         [] OTHER -> ApplyNonceIncrement(credit.accts, tx.from, tx.nonce)

ApplyAll(txs) ==
    FoldLeft(LAMBDA done, tx : IF done.ok THEN ApplyTransaction(done.accts, tx) ELSE done,
             [accts |-> accounts, ok |-> TRUE], txs)

HandleBlockValidated(txs) ==
    LET done == ApplyAll(txs) IN
    /\ accounts' = done.accts
    /\ Rebuild(done.accts)
    /\ state_roots' = IF done.ok THEN state_roots \cup {RootOf(done.accts)} ELSE state_roots
    /\ outcome' = IF done.ok THEN "applied" ELSE "refused"
    /\ UNCHANGED <<storage, storage_counts, max_slots>>

SetBalanceOf(address, balance) ==
    /\ accounts' = SetBalance(accounts, address, balance)
    /\ Rebuild(accounts')
    /\ outcome' = "set"
    /\ UNCHANGED <<storage, storage_counts, max_slots, state_roots>>

-----------------------------------------------------------------------------
(* Contract storage *)

\* compute_storage_root: a hash over the slots of the contract in key order
StorageRoot(slots, contract) ==
    {<<key[2], slots[key]>> : key \in {k \in DOMAIN slots : k[1] = contract}}

WithStorageRoot(slots, contract) ==
    IF contract \in DOMAIN accounts
    THEN [accounts EXCEPT ![contract].storage_root = SetToSeq(StorageRoot(slots, contract))]
    ELSE accounts

CountOf(contract) == IF contract \in DOMAIN storage_counts THEN storage_counts[contract] ELSE 0

SetStorage(contract, slot, value) ==
    LET fresh == <<contract, slot>> \notin DOMAIN storage
        slots == Store(storage, <<contract, slot>>, value)
    IN \/ /\ fresh /\ CountOf(contract) >= max_slots
          /\ storage_counts' = Store(storage_counts, contract, CountOf(contract))
          /\ outcome' = "limit"
          /\ UNCHANGED <<accounts, storage, max_slots, nodes, root, state_roots>>
       \/ /\ ~fresh \/ CountOf(contract) < max_slots
          /\ storage_counts' = Store(storage_counts, contract, CountOf(contract) + IF fresh THEN 1 ELSE 0)
          /\ storage' = slots
          /\ accounts' = WithStorageRoot(slots, contract)
          /\ Rebuild(accounts')
          /\ outcome' = "set"
          /\ UNCHANGED <<max_slots, state_roots>>

\* Variant: the slot goes and is still counted.
DeleteStorageKeepsCount(contract, slot) ==
    LET slots == Without(storage, {<<contract, slot>>}) IN
    /\ <<contract, slot>> \in DOMAIN storage
    /\ storage' = slots
    /\ accounts' = WithStorageRoot(slots, contract)
    /\ Rebuild(accounts')
    /\ outcome' = "deleted"
    /\ UNCHANGED <<storage_counts, max_slots, state_roots>>

DeleteStorage(contract, slot) ==
    LET slots == Without(storage, {<<contract, slot>>}) IN
    /\ <<contract, slot>> \in DOMAIN storage
    /\ storage' = slots
    /\ storage_counts' = [storage_counts EXCEPT ![contract] = Max({@ - 1, 0})]
    /\ accounts' = WithStorageRoot(slots, contract)
    /\ Rebuild(accounts')
    /\ outcome' = "deleted"
    /\ UNCHANGED <<max_slots, state_roots>>

-----------------------------------------------------------------------------
(* save_to_db and then load_from_db: the accounts and the slots are read back, *)
(* the counts and the trie are rebuilt from them, the configuration is the     *)
(* default one.  The heights and roots of the handler start anew.              *)

Reload ==
    /\ storage_counts' = [c \in {k[1] : k \in DOMAIN storage} |->
                            Cardinality({k \in DOMAIN storage : k[1] = c})]
    /\ max_slots' = DefaultLimit
    /\ Rebuild(accounts)
    /\ state_roots' = {}
    /\ outcome' = "loaded"
    /\ UNCHANGED <<accounts, storage>>

Next ==
    \/ \E txs \in Blocks : HandleBlockValidated(txs)
    \/ \E a \in Address, b \in 1..BalanceMax : accounts = <<>> /\ SetBalanceOf(a, b)
    \/ \E c \in Contract, s \in SlotKey, v \in Value : SetStorage(c, s, v)
    \/ \E c \in Contract, s \in SlotKey : DeleteStorage(c, s)
    \/ Reload

Spec == Init /\ [][Next]_vars

-----------------------------------------------------------------------------
(* Properties *)

\* The trie says what the accounts say (rebuild_trie, build_node and
\* generate_proof): the nodes a proof collects are stored, they end at a leaf
\* with the rest of the key and the account exactly when the account exists,
\* the path of every node survives its hex-prefix code, and verify_proof
\* accepts the proof.
TrieIsExact ==
    /\ root \in nodes
    /\ \A a \in Address :
         LET proof == GenerateProof(a)
             found == proof.proof_nodes
             Ends == /\ found # <<>>
                     /\ Last(found).value # <<>>
                     /\ IsSuffix(DecodeHexPrefix(Last(found).code).path, KeyOf[a])
         IN /\ \A i \in DOMAIN found : Hash(found[i]) \in nodes
            /\ (a \in DOMAIN accounts) = Ends
            /\ Ends => Last(found).value = <<accounts[a]>>
            /\ VerifyProof(proof, a, root)

\* A contract's count, which set_storage holds against the limit, is the number
\* of its slots, whatever was overwritten, deleted, refused or reloaded.
CountsAreSlots ==
    \A c \in Contract : CountOf(c) = Cardinality({k \in DOMAIN storage : k[1] = c})

(* What the comments say, and the code does not do. *)

\* trie.rs:24 "INVARIANT-5: Atomic transitions (all-or-nothing)"
BlocksAreAtomic == [][outcome' = "refused" => accounts' = accounts]_vars

\* trie.rs:230 "Update account's storage root"
StorageRootsAreCurrent ==
    \A c \in Contract \cap DOMAIN accounts :
        accounts[c].storage_root = SetToSeq(StorageRoot(storage, c))
=============================================================================
