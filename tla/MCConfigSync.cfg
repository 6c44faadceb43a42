\* One monitor, two PUTs that may overlap, a push that is still being applied
\* beside the pulls, and the node's own POST, PUT and DELETE at any moment.
SPECIFICATION FairSpec
CONSTANTS
  Nodes = {n1}
  Monitors = {m1}
  NoMonitor = NoMonitor
  Edits = {e1, e2}
  MaxPushes = 1
  MaxFaults = 1
INVARIANTS
  RowsAreGenuine
  EditsAreKept
PROPERTIES
  Converges
