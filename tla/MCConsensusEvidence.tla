------------------------- MODULE MCConsensusEvidence -------------------------
(* Instances of ConsensusEvidence for TLC.                                  *)
EXTENDS ConsensusEvidence, TLC

CONSTANTS m1, m2

MCThreshold1 == [m \in Monitors |-> 1]
MCQuorumType == (m1 :> "majority") @@ (m2 :> "n_of_m")
MCQuorumN == (m1 :> 0) @@ (m2 :> 1)

MCSymmetry == Permutations(Nodes)
=============================================================================
