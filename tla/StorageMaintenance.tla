------------------------ MODULE StorageMaintenance ------------------------
(***************************************************************************)
(* What keeps the block database of qc-02 in order around the store of      *)
(* BlockStorage: the lock on the data directory (adapters/lock.rs), the     *)
(* Merkle mountain range over the block hashes (domain/mmr.rs), the choice  *)
(* of the bodies that may be pruned (domain/pruning.rs) and the report of   *)
(* an index repair (domain/repair.rs).  They share no state.                *)
(*                                                                         *)
(* The lock file is a directory entry for an inode; a process locks the     *)
(* inode it opened, which may no longer be the one of the entry.            *)
(***************************************************************************)
EXTENDS Integers, Sequences, SequencesExt, FiniteSetsExt, PartialMaps

CONSTANTS
    Process,      \* node processes started on one data directory
    MaxInodes,    \* bound: lock files created
    Leaf,         \* block hashes
    MaxLeaves,    \* bound: leaves appended
    KeepRecent,   \* PruningConfig::keep_recent
    AnchorBase,   \* PruningConfig::anchor_base
    MaxHeight     \* bound: chain height

VARIABLES
    entry,        \* the inode the name LOCK stands for, 0 if there is none
    locked_by,    \* for each inode: the process that locks it
    process,      \* for each process: where it is, and the inode it opened
    dropped,      \* a lock was released by drop, which removes the file
    leaves, peaks, nodes,   \* MmrStore, with the leaves appended so far
    tip, pruned,  \* the chain height, and the heights found prunable, with the tip then
    repair        \* RepairContext: block_index and the report's heights

lockVars == <<entry, locked_by, process, dropped>>
mmrVars == <<leaves, peaks, nodes>>
pruningVars == <<tip, pruned>>

Nobody == "nobody"
Unopened == [pc |-> "idle", inode |-> 0]
EmptyContext == [block_index |-> <<>>, recovered |-> 0, lowest |-> -1, highest |-> -1, seen |-> {}]

Init ==
    /\ entry = 0 /\ locked_by = <<>>
    /\ process = [p \in Process |-> Unopened]
    /\ dropped = FALSE
    /\ leaves = <<>> /\ peaks = <<>> /\ nodes = <<>>
    /\ tip = 0 /\ pruned = {}
    /\ repair = EmptyContext

-----------------------------------------------------------------------------
(* DatabaseLock.  acquire opens the file, tries to lock it and writes its   *)
(* PID, which may fail; drop unlocks the file and then removes it.          *)

At(p, pc) == process[p].pc = pc
Goto(p, pc) == process' = [process EXCEPT ![p].pc = pc]
Closed(p) == process' = [process EXCEPT ![p] = Unopened]

Open(p) ==
    /\ At(p, "idle")
    /\ entry = 0 => Len(locked_by) < MaxInodes
    /\ LET inode == IF entry = 0 THEN Len(locked_by) + 1 ELSE entry
       IN  /\ entry' = inode
           /\ locked_by' = IF entry = 0 THEN Append(locked_by, Nobody) ELSE locked_by
           /\ process' = [process EXCEPT ![p] = [pc |-> "opened", inode |-> inode]]
    /\ UNCHANGED dropped

(* Variant: a lock that is found taken is not refused.                      *)
MayLockAlways(inode) == TRUE
MayLock(inode) == locked_by[inode] = Nobody

TryLock(p) ==
    /\ At(p, "opened")
    /\ IF MayLock(process[p].inode)
         THEN Goto(p, "locked") /\ locked_by' = [locked_by EXCEPT ![process[p].inode] = p]
         ELSE Closed(p) /\ UNCHANGED locked_by        \* AlreadyLocked
    /\ UNCHANGED <<entry, dropped>>

WritePid(p) == At(p, "locked") /\ Goto(p, "held") /\ UNCHANGED <<entry, locked_by, dropped>>

Unlock(p) == locked_by' = [i \in DOMAIN locked_by |-> IF locked_by[i] = p THEN Nobody ELSE locked_by[i]]

DropUnlock(p) ==
    /\ At(p, "held")
    /\ Unlock(p) /\ Goto(p, "dropping")
    /\ dropped' = TRUE
    /\ UNCHANGED entry

DropRemove(p) ==
    /\ At(p, "dropping")
    /\ entry' = 0
    /\ Closed(p)
    /\ UNCHANGED <<locked_by, dropped>>

(* The process ends, or its PID cannot be written: the file is closed, with *)
(* it the lock is gone, and nothing is removed.                             *)
Crash(p) ==
    /\ ~At(p, "idle")
    /\ Unlock(p) /\ Closed(p)
    /\ UNCHANGED <<entry, dropped>>

LockNext ==
    /\ \E p \in Process : Open(p) \/ TryLock(p) \/ WritePid(p)
                          \/ DropUnlock(p) \/ DropRemove(p) \/ Crash(p)
    /\ UNCHANGED <<mmrVars, pruningVars, repair>>

-----------------------------------------------------------------------------
(* MmrStore: the peaks of the perfect trees, the last one smallest.         *)

HashLeaf(leaf) == [leaf |-> leaf]
HashPair(left, right) == [left |-> left, right |-> right]
ZeroHash == [leaf |-> "zero"]
LeafIndexToPos(i) == i * 2

(* One round of the loop of merge_peaks.                                    *)
MergeLast(list, k) ==
    LET n == Len(list)
    IN  IF n >= 2 /\ list[n].height = list[n - 1].height
          THEN Append(SubSeq(list, 1, n - 2),
                      [hash |-> HashPair(list[n - 1].hash, list[n].hash), height |-> list[n].height + 1])
          ELSE list

(* Variant: two peaks are merged once.                                      *)
MergePeaksOnce(list) == MergeLast(list, 1)
MergePeaks(list) == FoldLeft(MergeLast, list, [k \in 1..Len(list) |-> k])

AppendLeaf(leaf) ==
    /\ Len(leaves) < MaxLeaves
    /\ nodes' = Store(nodes, LeafIndexToPos(Len(leaves)), HashLeaf(leaf))
    /\ peaks' = MergePeaks(Append(peaks, [hash |-> HashLeaf(leaf), height |-> 0]))
    /\ leaves' = Append(leaves, leaf)

(* Bagged from the right.                                                   *)
Bag(hashes) ==
    IF hashes = <<>> THEN ZeroHash
    ELSE FoldLeft(LAMBDA root, peak : HashPair(peak, root), Last(hashes), Reverse(Front(hashes)))
PeakHashes == [k \in 1..Len(peaks) |-> peaks[k].hash]
GetProof(i) == [sibling |-> nodes[LeafIndexToPos(i)], peaks |-> PeakHashes]
VerifyProof(root, leaf, proof) == proof.sibling = HashLeaf(leaf) /\ Bag(proof.peaks) = root

MmrNext == (\E leaf \in Leaf : AppendLeaf(leaf)) /\ UNCHANGED <<lockVars, pruningVars, repair>>

-----------------------------------------------------------------------------
(* PruningService with pruning enabled.  interval is AnchorBase * 2^k.      *)

IsAnchorBlock(height) ==
    \/ height = 0
    \/ /\ height >= AnchorBase
       /\ \E k \in 0..MaxHeight :
              LET interval == AnchorBase * 2^k
              IN  interval <= height /\ height % interval = 0 /\ height % (interval * 2) # 0

(* Variant: one recent block fewer.                                         *)
IsRecentFewer(height, current) == current < height + KeepRecent - 1
(* saturating_sub                                                           *)
IsRecent(height, current) == (IF current < height THEN 0 ELSE current - height) < KeepRecent

ShouldPrune(height, current) == ~IsRecent(height, current) /\ ~IsAnchorBlock(height)
GetPrunableHeights(start, end, current) == {h \in start..end : ShouldPrune(h, current)}

(* The chain grows or is reorganised, then the pruned heights are chosen.   *)
Prune(height) ==
    /\ tip' = height
    /\ pruned' = pruned \cup {[height |-> h, at |-> height] : h \in GetPrunableHeights(0, height, height)}

PruningNext == (\E h \in 0..MaxHeight : h # tip /\ Prune(h)) /\ UNCHANGED <<lockVars, mmrVars, repair>>

-----------------------------------------------------------------------------
(* RepairContext::record_block, for blocks in the order of a scan.          *)

(* Variant: a block is either the lowest or the highest.                    *)
AddBlockElse(report, height) ==
    [report EXCEPT !.recovered = @ + 1,
                   !.lowest = IF @ = -1 \/ height < @ THEN height ELSE @,
                   !.highest = IF report.lowest # -1 /\ height > @ THEN height ELSE @]

AddBlock(report, height) ==
    [report EXCEPT !.recovered = @ + 1,
                   !.lowest = IF @ = -1 \/ height < @ THEN height ELSE @,
                   !.highest = IF @ = -1 \/ height > @ THEN height ELSE @]

(* record_block.  record_transaction and add_error, which add to a map and   *)
(* to a list that nothing reads, are left out.                               *)
RecordBlock(height, hash) ==
    /\ <<height, hash>> \notin repair.seen
    /\ repair.recovered < MaxLeaves
    /\ repair' = [AddBlock(repair, height) EXCEPT !.block_index = Store(@, height, hash),
                                                  !.seen = @ \cup {<<height, hash>>}]

RepairNext ==
    /\ \E height \in 0..2, hash \in Leaf : RecordBlock(height, hash)
    /\ UNCHANGED <<lockVars, mmrVars, pruningVars>>

-----------------------------------------------------------------------------
(* The perfect tree of height h over the leaves from position lo on.        *)
Tree[h \in 0..MaxLeaves, lo \in 1..(MaxLeaves + 1)] ==
    IF h = 0 THEN HashLeaf(leaves[lo]) ELSE HashPair(Tree[h - 1, lo], Tree[h - 1, lo + 2^(h - 1)])

(* Where peak k begins: after the leaves of the peaks before it.            *)
StartOf(k) == 1 + FoldLeft(LAMBDA sum, i : sum + 2^(peaks[i].height), 0, [i \in 1..(k - 1) |-> i])

(* The mountain range is the one its leaves determine, however many were    *)
(* appended: the peaks are the perfect trees of the binary digits of their  *)
(* number, highest first, in the order of the leaves, and every leaf has a  *)
(* proof that verifies against the root (domain/mmr.rs, merge_peaks).       *)
RangeIsItsLeaves ==
    /\ \A k \in 1..Len(peaks) :
           /\ k > 1 => peaks[k].height < peaks[k - 1].height
           /\ peaks[k].hash = Tree[peaks[k].height, StartOf(k)]
    /\ StartOf(Len(peaks) + 1) = Len(leaves) + 1
    /\ \A i \in 1..Len(leaves) : VerifyProof(Bag(PeakHashes), leaves[i], GetProof(i - 1))

Holders == {p \in Process : process[p].pc \in {"locked", "held"}}

(* Among processes that only start, fail and crash at most one holds the    *)
(* data directory, and who starts while one holds it is refused             *)
(* (adapters/lock.rs, acquire).                                             *)
OneHolderUntilDrop == ~dropped => Cardinality(Holders) <= 1

(* A height once found prunable stays prunable while the chain is at least  *)
(* as high, and no block that was recent or an anchor is ever among them    *)
(* (domain/pruning.rs, should_prune).                                       *)
PrunedStayPrunable ==
    \A h \in pruned : /\ h.height % AnchorBase # 0
                      /\ h.at - h.height >= KeepRecent
                      /\ \A later \in h.at..MaxHeight : ShouldPrune(h.height, later)

(* The report spans exactly the heights that the scan met, in whatever      *)
(* order, and the rebuilt index has one block of each (domain/repair.rs).   *)
ReportSpansTheScan ==
    LET heights == {s[1] : s \in repair.seen}
    IN  /\ DOMAIN repair.block_index = heights
        /\ heights # {} => /\ repair.lowest = Min(heights) /\ repair.highest = Max(heights)
                           /\ \A h \in heights : <<h, repair.block_index[h]>> \in repair.seen

MaintenanceIsSound == RangeIsItsLeaves /\ OneHolderUntilDrop /\ PrunedStayPrunable /\ ReportSpansTheScan

-----------------------------------------------------------------------------
(* What the comments say, and the code does not do.                         *)

(* adapters/lock.rs:62 "Exclusive lock on a database directory."  drop      *)
(* removes the file after it unlocked it, so a process that opened it in    *)
(* between locks an inode without a name, and the next one a new file.      *)
LockIsExclusive == Cardinality(Holders) <= 1

(* domain/pruning.rs:68 "Anchor blocks are kept fully at logarithmic        *)
(* intervals".  Every multiple of anchor_base is an anchor.                 *)
AnchorsAreLogarithmic ==
    \A h \in 1..tip : IsAnchorBlock(h) => \E k \in 0..MaxHeight : h = AnchorBase * 2^k

=============================================================================
