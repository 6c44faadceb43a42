\* One monitor, three nodes, majority: crashes and failed queries anywhere.
SPECIFICATION Spec
CONSTANTS
  Nodes = {n1, n2, n3}
  Monitors = {m1}
  NoMonitor = NoMonitor
  FailureThreshold <- MCThreshold1
  RecoveryThreshold <- MCThreshold1
  QuorumType <- MCMajority
  QuorumN <- MCN0
  ResultLimit = 1
  CheckStatuses = {"up", "down"}
  MaxIncidents = 2
  MaxFaults = 1
SYMMETRY MCSymmetry
INVARIANTS
  TypeOK
  AtMostOneActive
  NoDuplicateNotices
  LoopKnowsItsIncident
  NoticesAreEarned
PROPERTIES
  ImplementsLifecycle
  ConfirmingNodesAreFinal
