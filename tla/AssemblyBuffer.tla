--------------------------- MODULE AssemblyBuffer ---------------------------
(***************************************************************************)
(* The block assembly buffer of qc-02 (domain/assembler.rs): a map from    *)
(* block hashes to partial assemblies that wait for three components.      *)
(* The methods of BlockAssemblyBuffer are operators from a buffer to the   *)
(* new buffer.  A root or a validated block is abstracted to its presence: *)
(* the record keeps the SET of components that have arrived.               *)
(***************************************************************************)
EXTENDS Integers, FiniteSets, Functions, PartialMaps

CONSTANTS
    AssemblyTimeout,   \* AssemblyConfig::assembly_timeout_secs
    MaxPending         \* AssemblyConfig::max_pending_assemblies

ASSUME BufferAssumption ==
    /\ AssemblyTimeout \in Nat
    /\ MaxPending \in Nat \ {0}

\* The three optional fields of PendingBlockAssembly, named by their events.
Component == {"BlockValidated", "MerkleRootComputed", "StateRootComputed"}

PendingBlockAssembly ==
    [block_height : Nat, started_at : Nat, have : SUBSET Component]

NewAssembly(now) == [block_height |-> 0, started_at |-> now, have |-> {}]

\* pending.entry(hash).or_insert_with(PendingBlockAssembly::new(hash, now))
Entry(pending, hash, now) ==
    IF hash \in DOMAIN pending THEN pending[hash] ELSE NewAssembly(now)

AddBlockValidated(pending, hash, height, now) ==
    Store(pending, hash,
          [Entry(pending, hash, now) EXCEPT !.block_height = height,
                                            !.have = @ \cup {"BlockValidated"}])

\* add_merkle_root and add_state_root: the height of the entry is left alone.
AddRoot(pending, hash, component, now) ==
    Store(pending, hash,
          [Entry(pending, hash, now) EXCEPT !.have = @ \cup {component}])

Missing(assembly) == Component \ assembly.have

\* Variant: the state root is not awaited.
IsCompleteWithoutState(pending, hash) ==
    /\ hash \in DOMAIN pending
    /\ Missing(pending[hash]) \subseteq {"StateRootComputed"}

IsComplete(pending, hash) ==
    /\ hash \in DOMAIN pending
    /\ Missing(pending[hash]) = {}

\* Variant: only assemblies with a validated block expire.
IsExpiredIfValidated(assembly, now) ==
    /\ "BlockValidated" \in assembly.have
    /\ now > assembly.started_at + AssemblyTimeout

\* now.saturating_sub(started_at) > timeout_secs
IsExpired(assembly, now) == now > assembly.started_at + AssemblyTimeout

Expired(pending, now) == {h \in DOMAIN pending : IsExpired(pending[h], now)}

\* enforce_max_pending: how many entries go, and the sets that may go.  The
\* entries are sorted by started_at only, and come from a HashMap: which of
\* two entries of the same age is the older one is not determined.
Excess(pending) ==
    LET size == Cardinality(DOMAIN pending)
    IN  IF size > MaxPending THEN size - MaxPending ELSE 0

OldestSets(pending) ==
    {S \in SUBSET DOMAIN pending :
        /\ Cardinality(S) = Excess(pending)
        /\ \A old \in S, young \in DOMAIN pending \ S :
              pending[old].started_at <= pending[young].started_at}
=============================================================================
