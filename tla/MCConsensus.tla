----------------------------- MODULE MCConsensus -----------------------------
(* Instances of Consensus for TLC.                                          *)
EXTENDS Consensus, TLC

MCThreshold1 == [m \in Monitors |-> 1]
MCMajority == [m \in Monitors |-> "majority"]
MCNofM == [m \in Monitors |-> "n_of_m"]
MCN0 == [m \in Monitors |-> 0]

MCSymmetry == Permutations(Nodes) \cup Permutations(Monitors)
=============================================================================
