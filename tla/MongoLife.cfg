SPECIFICATION Spec
CONSTANTS
  Clients = {c1, c2, c3}
  BatchSizes = {1, 2}
  MaxDocs = 3
  MaxRetries = 1
  MaxFaults = 1
SYMMETRY Symmetric
INVARIANT Connected
INVARIANT OneConnection
INVARIANT Accounted
CHECK_DEADLOCK FALSE
