\* Two monitors in one round, one asking for a majority of the two nodes, the
\* other for any one of them.
SPECIFICATION EvidenceSpec
CONSTANTS
  m1 = m1
  m2 = m2
  Nodes = {n1, n2}
  Monitors = {m1, m2}
  NoMonitor = NoMonitor
  FailureThreshold <- MCThreshold1
  RecoveryThreshold <- MCThreshold1
  QuorumType <- MCQuorumType
  QuorumN <- MCQuorumN
  ResultLimit = 1
  CheckStatuses = {"up", "down"}
  MaxIncidents = 1
  MaxFaults = 0
SYMMETRY MCSymmetry
INVARIANTS
  ConfirmedOnEvidence
  ResolvedOnEvidence
  RecoveryFollowsAlert
