------------------------------ MODULE MCSystem ------------------------------
(* Instances of System for TLC.                                             *)
EXTENDS System, TLC

MCThreshold1 == [m \in Monitors |-> 1]
MCNofM == [m \in Monitors |-> "n_of_m"]
MCN1 == [m \in Monitors |-> 1]
=============================================================================
