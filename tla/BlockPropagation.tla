-------------------------- MODULE BlockPropagation --------------------------
(***************************************************************************)
(* qc-05: the relay of blocks.  Calls of the service run concurrently and  *)
(* interleave wherever they release the lock of the seen cache or of the   *)
(* table of peers.  The network, the mempool, the signature verifier and   *)
(* consensus are external.                                                 *)
(***************************************************************************)
EXTENDS Integers, Sequences, FiniteSets, SequencesExt

CONSTANTS
    Hash, Peer, Task,
    Message,            \* what peers may send: kind, hash, fits, parses, genuine
    MaxAnnouncements, SeenCacheSize,
    MaxTime

VARIABLES
    cache,              \* SeenBlockCache: hash -> propagation_state, or "unseen"
    insertion_order,
    peer_states,        \* known peers -> [announcement_count, window_start]
    call,               \* task -> the handler it executes
    now,
    submitted,          \* hash -> times it was handed to consensus (history)
    propagated          \* blocks of its own the node has sent out (history)

vars == <<cache, insertion_order, peer_states, call, now, submitted, propagated>>

Idle == [pc |-> "idle", peer |-> "nobody", msg |-> [kind |-> "none"]]

Init ==
    /\ cache = [h \in Hash |-> "unseen"] /\ insertion_order = <<>>
    /\ peer_states = [p \in {} |-> [announcement_count |-> 0, window_start |-> 0]]
    /\ call = [t \in Task |-> Idle]
    /\ now = 0
    /\ submitted = [h \in Hash |-> 0] /\ propagated = {}

-----------------------------------------------------------------------------
(* SeenBlockCache                                                            *)

Seen == {h \in Hash : cache[h] # "unseen"}

(* Variant: the hash is appended although it is already there.               *)
MarkSeenAgain(h) ==
    LET full == Cardinality(Seen) >= SeenCacheSize /\ cache[h] = "unseen"
        evicted == IF full /\ insertion_order # <<>> THEN {Head(insertion_order)} ELSE {}
        kept == IF evicted # {} THEN Tail(insertion_order) ELSE insertion_order
    IN  /\ cache' = [g \in Hash |-> IF g \in evicted THEN "unseen"
                                    ELSE IF g = h /\ cache[h] = "unseen" THEN "Announced" ELSE cache[g]]
        /\ insertion_order' = Append(kept, h)

MarkSeen(h) ==
    LET full == Cardinality(Seen) >= SeenCacheSize /\ cache[h] = "unseen"
        evicted == IF full /\ insertion_order # <<>> THEN {Head(insertion_order)} ELSE {}
        kept == IF evicted # {} THEN Tail(insertion_order) ELSE insertion_order
    IN  /\ cache' = [g \in Hash |-> IF g \in evicted THEN "unseen"
                                    ELSE IF g = h /\ cache[h] = "unseen" THEN "Announced" ELSE cache[g]]
        /\ insertion_order' = IF cache[h] = "unseen" THEN Append(kept, h) ELSE kept

UpdateState(h, state) ==
    /\ cache' = [cache EXCEPT ![h] = IF @ = "unseen" THEN @ ELSE state]
    /\ UNCHANGED insertion_order

NoDuplicateProcessing(h) == cache[h] \notin {"Complete", "Validated"}

-----------------------------------------------------------------------------
(* The table of peers: filled when a block is propagated, never emptied.     *)
(* Reputations only choose whom the node sends to, and are left out.         *)

RefreshPeers ==
    peer_states' = [p \in Peer |-> IF p \in DOMAIN peer_states THEN peer_states[p]
                                   ELSE [announcement_count |-> 0, window_start |-> now]]

CheckRateLimit(p) == peer_states[p].announcement_count < MaxAnnouncements

RecordAnnouncement(p) ==
    peer_states' = [peer_states EXCEPT ![p] =
        IF now - @.window_start >= 1 THEN [window_start |-> now, announcement_count |-> 1]
        ELSE [@ EXCEPT !.announcement_count = @ + 1]]

-----------------------------------------------------------------------------
(* propagate_block: checked, marked, sent, completed.                        *)

Continue(t, pc) == call' = [call EXCEPT ![t].pc = pc]

Propagate(t, h) ==
    /\ call[t] = Idle
    /\ cache[h] = "unseen"
    /\ call' = [call EXCEPT ![t] = [pc |-> "mark", peer |-> "nobody", msg |-> [kind |-> "own", hash |-> h]]]
    /\ UNCHANGED <<cache, insertion_order, peer_states, now, submitted, propagated>>

Broadcast(t) ==
    /\ call[t].pc = "broadcast"
    /\ RefreshPeers
    /\ Continue(t, "complete")
    /\ propagated' = propagated \cup {call[t].msg.hash}
    /\ UNCHANGED <<cache, insertion_order, now, submitted>>

-----------------------------------------------------------------------------
(* handle_announcement, handle_compact_block, handle_full_block.             *)

ValidateSender(t, p, msg) ==
    /\ call[t] = Idle
    /\ p \in DOMAIN peer_states /\ CheckRateLimit(p)
    /\ call' = [call EXCEPT ![t] = [pc |-> "check", peer |-> p, msg |-> msg]]
    /\ UNCHANGED <<cache, insertion_order, peer_states, now, submitted, propagated>>

CheckPreliminaries(t) ==
    LET msg == call[t].msg IN
    /\ call[t].pc = "check"
    /\ call' = [call EXCEPT ![t] =
           IF \/ msg.kind = "announcement" /\ cache[msg.hash] # "unseen"
              \/ msg.kind # "announcement" /\ ~(msg.fits /\ NoDuplicateProcessing(msg.hash))
           THEN Idle ELSE [@ EXCEPT !.pc = "record"]]
    /\ UNCHANGED <<cache, insertion_order, peer_states, now, submitted, propagated>>

Record(t) ==
    /\ call[t].pc = "record"
    /\ RecordAnnouncement(call[t].peer)
    /\ Continue(t, "mark")
    /\ UNCHANGED <<cache, insertion_order, now, submitted, propagated>>

Mark(t) ==
    /\ call[t].pc = "mark"
    /\ MarkSeen(call[t].msg.hash)
    /\ Continue(t, CASE call[t].msg.kind = "own" -> "broadcast"
                     [] call[t].msg.kind = "full" -> "verify"
                     [] OTHER -> "received")
    /\ UNCHANGED <<peer_states, now, submitted, propagated>>

Received(t) ==
    LET msg == call[t].msg IN
    /\ call[t].pc = "received"
    /\ UpdateState(msg.hash, IF msg.kind = "announcement" THEN "Announced" ELSE "CompactReceived")
    /\ call' = [call EXCEPT ![t] = IF msg.kind = "announcement" THEN Idle ELSE [@ EXCEPT !.pc = "verify"]]
    /\ UNCHANGED <<peer_states, now, submitted, propagated>>


(* A compact block is put together from the mempool, which has all of its    *)
(* transactions or not, and its signature is verified after that.            *)
Verify(t) ==
    LET msg == call[t].msg IN
    /\ call[t].pc = "verify"
    /\ \/ ~msg.parses /\ call' = [call EXCEPT ![t] = Idle] /\ UNCHANGED <<cache, insertion_order>>
       \/ /\ msg.parses /\ msg.kind = "compact"
          /\ UpdateState(msg.hash, "Reconstructing") /\ call' = [call EXCEPT ![t] = Idle]
       \/ /\ msg.parses /\ ~msg.genuine
          /\ UpdateState(msg.hash, "Invalid") /\ call' = [call EXCEPT ![t] = Idle]
       \/ /\ msg.parses /\ msg.genuine
          /\ Continue(t, "complete") /\ UNCHANGED <<cache, insertion_order>>
    /\ UNCHANGED <<peer_states, now, submitted, propagated>>

Complete(t) ==
    /\ call[t].pc = "complete"
    /\ UpdateState(call[t].msg.hash, "Complete")
    /\ call' = [call EXCEPT ![t] = IF call[t].msg.kind = "own" THEN Idle ELSE [@ EXCEPT !.pc = "submit"]]
    /\ UNCHANGED <<peer_states, now, submitted, propagated>>

(* Whether consensus takes the block or refuses it, the handler returns.     *)
Submit(t) ==
    /\ call[t].pc = "submit"
    /\ submitted' = [submitted EXCEPT ![call[t].msg.hash] = @ + 1]
    /\ call' = [call EXCEPT ![t] = Idle]
    /\ UNCHANGED <<cache, insertion_order, peer_states, now, propagated>>

Tick ==
    /\ now < MaxTime
    /\ now' = now + 1
    /\ UNCHANGED <<cache, insertion_order, peer_states, call, submitted, propagated>>

Next ==
    \/ \E t \in Task :
        \/ \E h \in Hash : Propagate(t, h)
        \/ \E p \in Peer, msg \in Message : ValidateSender(t, p, msg)
        \/ Broadcast(t) \/ CheckPreliminaries(t) \/ Record(t) \/ Mark(t) \/ Received(t)
        \/ Verify(t) \/ Complete(t) \/ Submit(t)
    \/ Tick

Spec == Init /\ [][Next]_vars

-----------------------------------------------------------------------------
(* The seen cache and the order it evicts in describe the same blocks, each  *)
(* once, and no more than its size, however calls interleave (mark_seen).    *)
SeenCacheIsBounded ==
    /\ Range(insertion_order) = Seen
    /\ Len(insertion_order) = Cardinality(Seen)
    /\ Cardinality(Seen) <= SeenCacheSize


-----------------------------------------------------------------------------
(* What the comments say, and the code does not do.                          *)

(* "The same block hash is never processed/validated twice": the check and   *)
(* the mark are two steps, Reconstructing overwrites Complete, and a full    *)
(* cache forgets.                                                            *)
SubmittedOnce == \A h \in Hash : submitted[h] <= 1

(* "Maximum announcements per peer per second": the count is only reset      *)
(* after the check it fails.  A peer that used up its announcements is       *)
(* heard again a second later.                                               *)
RefusedAreHeardAgain ==
    \A p \in DOMAIN peer_states :
        ~CheckRateLimit(p) => now - peer_states[p].window_start < 1
=============================================================================
