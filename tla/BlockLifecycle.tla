--------------------------- MODULE BlockLifecycle ---------------------------
(***************************************************************************)
(* What the choreography promises of the blocks of a node, without its     *)
(* tasks, channels, caches and buffer.  A block is announced by one stage  *)
(* after the other: it is produced, validated by consensus, given its two  *)
(* roots, stored and finalized.  A stage may leave a block out, and never  *)
(* announces one before the stages it builds on did.  Within a run of the  *)
(* node blocks are stored in the order of their heights.                   *)
(***************************************************************************)
EXTENDS Naturals

VARIABLE announced       \* pairs of a stage and a block; a block is a record with the
                         \* run of the node that mined it, its height and its timestamp

BuildsOn ==
    [BlockProduced      |-> {},
     BlockValidated     |-> {"BlockProduced"},
     MerkleRootComputed |-> {"BlockValidated"},
     StateRootComputed  |-> {"BlockValidated"},
     BlockStored        |-> {"BlockValidated", "MerkleRootComputed", "StateRootComputed"},
     BlockFinalized     |-> {"BlockStored"}]

Stage == DOMAIN BuildsOn

Init == announced = {}

Announce(stage, block) ==
    /\ \A before \in BuildsOn[stage] : <<before, block>> \in announced
    /\ announced' = announced \cup {<<stage, block>>}

(* No block of this run that is as high was stored before. *)
InOrder(block) ==
    \A a \in announced : a[1] = "BlockStored" /\ a[2].run = block.run => a[2].height < block.height

Next ==
    \E a \in announced' \ announced :
        /\ Announce(a[1], a[2])
        /\ a[1] = "BlockStored" => InOrder(a[2])

Spec == Init /\ [][Next]_announced

(* The same without the order of heights. *)
NextStage == \E a \in announced' \ announced : Announce(a[1], a[2])

StagedSpec == Init /\ [][NextStage]_announced

=============================================================================
