----------------------------- MODULE MCPipeline -----------------------------
(***************************************************************************)
(* The pipeline under its fairness, in two sizes: with everything it needs *)
(* (the constants of the configuration), where nothing is lost, and with   *)
(* channels, buffer and timeouts that are exhausted, where assemblies are  *)
(* orphaned.                                                               *)
(***************************************************************************)
EXTENDS Choreography

VARIABLE scarce

Scarce == INSTANCE Choreography
    WITH Handler <- AllHandlers, Capacity <- 3, BusCapacity <- 2, AssemblyTimeout <- 0,
         MaxPending <- 1, MaxFutureDrift <- 1, MaxTime <- 2

Either(ample, small) == (~scarce /\ ample) \/ (scarce /\ small)

(* Fairness of Choreography, for the pipeline that runs.                     *)
MCFairness ==
    /\ WF_vars(Either(MineTemplate, Scarce!MineTemplate))
    /\ WF_vars(Either(MineBlock, Scarce!MineBlock))
    /\ WF_vars(Either(BridgeSubscribe, Scarce!BridgeSubscribe))
    /\ WF_vars(Either(BridgeBlockProduced, Scarce!BridgeBlockProduced))
    /\ WF_vars(Either(ConsensusBlockProduced \/ ConsensusBlockStored,
                      Scarce!ConsensusBlockProduced \/ Scarce!ConsensusBlockStored))
    /\ WF_vars(Either(ComputeMerkleRoot, Scarce!ComputeMerkleRoot))
    /\ WF_vars(Either(ComputeStateRoot, Scarce!ComputeStateRoot))
    /\ WF_vars(Either(OrderTransactions, Scarce!OrderTransactions))
    /\ WF_vars(Either(
          StoreBlockValidated \/ StoreMerkleRoot \/ StoreStateRoot \/ TryCompleteAssembly,
          \/ Scarce!StoreBlockValidated \/ Scarce!StoreMerkleRoot \/ Scarce!StoreStateRoot
          \/ Scarce!TryCompleteAssembly))
    /\ WF_vars(Either(FinalizeBlock, Scarce!FinalizeBlock))
    /\ WF_vars(Either(GcStaleAssemblies, Scarce!GcStaleAssemblies))
    /\ WF_vars(Either(GcAnnounce, Scarce!GcAnnounce))
    /\ WF_vars(Either(Tick, Scarce!Tick))

MCInit ==
    \/ scarce = FALSE /\ Init
    \/ scarce = TRUE /\ Scarce!Init

MCNext ==
    /\ UNCHANGED scarce
    /\ \/ ~scarce /\ Next
       \/ scarce /\ Scarce!Next

MCSpec == MCInit /\ [][MCNext]_<<scarce, vars>> /\ MCFairness

(* When nothing is lost, every block that reached the router is eventually  *)
(* stored and its height known to Consensus, again and again (see           *)
(* PipelineCatchesUp of Choreography).                                      *)
AmpleCatchesUp == ~scarce => PipelineCatchesUp

(* An assembly that is overdue leaves the buffer, also one whose other      *)
(* components were lost (gc_stale_assemblies; see Choreography).            *)
OverdueLeave == scarce => Scarce!OverdueAssembliesLeave
=============================================================================
