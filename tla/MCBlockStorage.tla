-------------------------- MODULE MCBlockStorage --------------------------
(***************************************************************************)
(* What a node stores of its chain: the block store of qc-02 with what      *)
(* surrounds it (the lock on its directory, the mountain range over the     *)
(* block hashes, pruning, the repair of the index), and the transaction     *)
(* index of qc-03.  They share no state: a behaviour is one of a single     *)
(* part.                                                                    *)
(***************************************************************************)
EXTENDS BlockStorage, TLC

CONSTANTS g0, a1, b1, a2, tx1, tx2

VARIABLES
    part,
    locations, trees, total, nonce_cache, answer,
    entry, locked_by, process, dropped, leaves, peaks, nodes, tip, pruned, repair

(* A genesis block, two siblings above it and a child of the first; two     *)
(* blocks share a transaction.                                              *)

MCHeightOf == [x \in Block |-> CASE x = g0 -> 0 [] x = a2 -> 2 [] OTHER -> 1]
MCParentOf == [x \in Block |-> IF x = a2 THEN a1 ELSE g0]
MCTxsOf == [x \in Block |-> CASE x = a1 -> <<tx1>> [] x = a2 -> <<tx2, tx1>> [] OTHER -> <<>>]

(* Blocks of no, one, three, two equal and five transactions, of which two  *)
(* trees are kept; levels of more than two hashes are computed in parallel. *)
IndexedTxs == ("b0" :> <<>>) @@ ("b1" :> <<"t1">>) @@ ("b2" :> <<"t2", "t1", "t3">>)
              @@ ("b3" :> <<"t3", "t3">>) @@ ("b4" :> <<"t4", "t5", "t1", "t2", "t3">>)
Indexing == INSTANCE TxIndexing
    WITH Block <- DOMAIN IndexedTxs, TxsOf <- IndexedTxs, MaxCachedTrees <- 2,
         ParallelThreshold <- 2, Nonce <- {1, 2}, MaxIndexed <- 11, reply <- answer

(* Three processes on one directory; up to seven leaves, which is three      *)
(* peaks; a chain that outgrows the recent blocks and has several anchors.   *)
Maintenance == INSTANCE StorageMaintenance
    WITH Process <- {"p", "q", "r"}, MaxInodes <- 3, Leaf <- {"x", "y"}, MaxLeaves <- 7,
         KeepRecent <- 3, AnchorBase <- 2, MaxHeight <- 7

indexVars == <<locations, trees, total, nonce_cache, answer>>
maintenanceVars == <<entry, locked_by, process, dropped, leaves, peaks, nodes, tip, pruned, repair>>

MCInit ==
    /\ part \in {"store", "index", "lock", "range", "pruning", "repair"}
    /\ Init /\ Indexing!Init /\ Maintenance!Init

MCNext ==
    /\ UNCHANGED part
    /\ \/ part = "store" /\ Next /\ UNCHANGED <<indexVars, maintenanceVars>>
       \/ part = "index" /\ Indexing!Next /\ UNCHANGED <<vars, maintenanceVars>>
       \/ /\ \/ part = "lock" /\ Maintenance!LockNext
             \/ part = "range" /\ Maintenance!MmrNext
             \/ part = "pruning" /\ Maintenance!PruningNext
             \/ part = "repair" /\ Maintenance!RepairNext
          /\ UNCHANGED <<vars, indexVars>>

MCSpec == MCInit /\ [][MCNext]_<<part, vars, indexVars, maintenanceVars>>

\* No action and no property of the run depends on the last replies.
WithoutReply == <<part, now, restarts, data, file, block_index, metadata, tx_index,
                  assembly_buffer, writing, acked, locations, trees, total, nonce_cache,
                  maintenanceVars>>

(* The index in memory describes the store, and a transaction is where its  *)
(* location says, whatever failed before (see BlockStorage).                *)
IndexesDescribeStore == IndexDescribesStore /\ LocationsResolve

(* The transaction index proves every transaction it locates with a tree it *)
(* keeps, and builds the same trees in parallel (see TxIndexing).           *)
IndexProvesItself == part = "index" => Indexing!IndexProvesItself /\ Indexing!ParallelIsSerial

(* The mountain range is that of its leaves, one process holds the          *)
(* directory until a lock is dropped, what may be pruned stays prunable and *)
(* a repair reports what it met (see StorageMaintenance).                   *)
MaintenanceIsSound ==
    part \in {"lock", "range", "pruning", "repair"} => Maintenance!MaintenanceIsSound
=============================================================================
