\* The coordinator and one node, either of which is enough for a quorum: the
\* one may see an outage while the other sees a recovery, or is away.
SPECIFICATION FairSystem
CONSTANTS
  Nodes = {c, n1}
  Coordinator = c
  Monitors = {m1}
  NoMonitor = NoMonitor
  FailureThreshold <- MCThreshold1
  RecoveryThreshold <- MCThreshold1
  QuorumType <- MCNofM
  QuorumN <- MCN1
  ResultLimit = 1
  CheckStatuses = {"up", "down"}
  MaxIncidents = 2
  MaxFaults = 1
PROPERTIES
  OutageIsAlerted
  RecoveryIsAnnounced
