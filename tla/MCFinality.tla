---------------------------- MODULE MCFinality ----------------------------
(***************************************************************************)
(* The finality gadget of qc-09, and the guards beside it: the reversion    *)
(* shield, the database of votes, the inactivity leak and the committees.   *)
(* They share no state: a behaviour is one of a single part.                *)
(***************************************************************************)
EXTENDS Finality, TLC

VARIABLES
    part,
    shielded, finalized_ancestors, block_tree,
    record, votes, evidence,
    leak_active, scores, missed, charged,
    members, committees, cache

(* Two validators, the first with two thirds of the stake: it takes both to *)
(* justify a checkpoint.                                                    *)

CallSymmetry == Permutations(Call)

Vote(v, s, e, h) == [validator |-> v, source |-> s, epoch |-> e, hash |-> h]

MCStake == [v \in Validator |-> IF v = 1 THEN 2 ELSE 1]

\* Validator 1 also votes for another block of epoch 3, and for epoch 4 around
\* its vote for epoch 3.  Epoch 0 falls out of the window when epoch 3 is final.
MCMixed == {Vote(1, 0, 0, "a"), Vote(1, 1, 3, "b"), Vote(1, 0, 4, "a")}
             \cup {Vote(v, 1, 3, "a") : v \in Validator}
             \cup {Vote(v, 3, 4, "a") : v \in Validator}
\* Epochs 3 and 4, and late votes for the epochs 1 and 2.
MCRegress == {Vote(v, e - 1, e, "a") : v \in Validator, e \in 1..4}
\* After the epochs 1 and 2 only one validator votes.
MCLeak == {Vote(v, e - 1, e, "a") : v \in Validator, e \in 1..2}
             \cup {Vote(1, e - 1, e, "a") : e \in 3..4}
\* The validators disagree on the block of epoch 1.
MCSplit == {Vote(1, 0, 1, "a"), Vote(2, 0, 1, "b"), Vote(2, 0, 1, "a")}

(* A chain of four blocks and a fork of two at its second block.  Walks end *)
(* after two steps.  Votes for epochs up to 4, pruned at any time.  Five  *)
(* validators in committees of two, drawn for three committees.             *)
TreeParent == ("g" :> "g") @@ ("a" :> "g") @@ ("b" :> "a") @@ ("c" :> "b")
              @@ ("x" :> "a") @@ ("y" :> "x")
TreeHeight == ("g" :> 0) @@ ("a" :> 1) @@ ("b" :> 2) @@ ("c" :> 3)
              @@ ("x" :> 2) @@ ("y" :> 3)
Guards == INSTANCE FinalityGuards
    WITH Block <- DOMAIN TreeParent, ParentOf <- TreeParent, HeightOf <- TreeHeight, MaxDepth <- 2,
         Epoch <- 0..4, VotedBlock <- {"p", "q"}, MaxVotes <- 3,
         Validator <- 1..5, Stake <- [v \in 1..5 |-> 10 * v],
         LeakThreshold <- 1, BasePenaltyBps <- 100, QuadraticFactor <- 1, BpsUnit <- 1000, MaxRecords <- 2,
         CommitteeSize <- 2, CommitteeCount <- 3,
         MaxDelay <- 5, Halflife <- 2, Threshold <- 3, Base <- 7, last_finalized <- shielded

guardVars == <<shielded, finalized_ancestors, block_tree, record, votes, evidence,
               leak_active, scores, missed, charged, members, committees, cache>>

MCInit ==
    /\ part \in {"gadget", "shield", "votes", "leak", "committees"}
    /\ Init /\ Guards!Init

MCNext ==
    /\ UNCHANGED part
    /\ \/ part = "gadget" /\ Next /\ UNCHANGED guardVars
       \/ /\ \/ part = "shield" /\ Guards!ShieldNext
             \/ part = "votes" /\ Guards!VoteNext
             \/ part = "leak" /\ Guards!LeakNext
             \/ part = "committees" /\ Guards!CommitteeNext
          /\ UNCHANGED vars

MCSpec == MCInit /\ [][MCNext]_<<part, vars, guardVars>>

(* Accepted blocks keep finality, evidence names two conflicting votes,     *)
(* only the absent pay and the committees partition the validators (see     *)
(* FinalityGuards).                                                         *)
GuardsHold == part # "gadget" => Guards!GuardsHold /\ Guards!EvidenceIsJust
=============================================================================
