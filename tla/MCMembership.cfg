\* The coordinator and one other node; the timeout is three heartbeats.
SPECIFICATION FairSpec
CONSTANTS
  Nodes = {c, n1}
  Coordinator = c
  Timeout = 3
  MaxAge = 5
  MaxFaults = 1
INVARIANTS
  SteadyIsOnline
  CoordinatorIsOnline
PROPERTIES
  RemovedForGood
  SilentIsOffline
  ConnectedIsOnline
