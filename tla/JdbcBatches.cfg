SPECIFICATION Spec
CONSTANTS
  MaxShards = 2
  BatchSizes = {0, 2, 3}
  MaxRows = 5
  MaxFaults = 2
INVARIANT RowsKept
INVARIANT OkMeansCommitted
INVARIANT BatchBounded
CHECK_DEADLOCK FALSE
