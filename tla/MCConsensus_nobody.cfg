\* n_of_m without quorum_n.
SPECIFICATION Spec
CONSTANTS
  Nodes = {n1, n2}
  Monitors = {m1}
  NoMonitor = NoMonitor
  FailureThreshold <- MCThreshold1
  RecoveryThreshold <- MCThreshold1
  QuorumType <- MCNofM
  QuorumN <- MCN0
  ResultLimit = 1
  CheckStatuses = {"up", "down"}
  MaxIncidents = 1
  MaxFaults = 0
INVARIANT ConfirmedBySomeNode
