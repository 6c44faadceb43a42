\* A heartbeat between the detector's SELECT and its UPDATE.
SPECIFICATION Spec
CONSTANTS
  Nodes = {c, n1}
  Coordinator = c
  Timeout = 3
  MaxAge = 5
  MaxFaults = 0
PROPERTY MarkedOnlyWhenSilent
