SPECIFICATION Spec
CONSTANTS
  Clients = {c1, c2, c3}
  Tables = {"t1", "t2"}
  NoOne = NoOne
  MaxRuns = 3
  MaxOpens = 4
  MaxFaults = 1
SYMMETRY Symmetric
INVARIANT NoUseAfterClose
INVARIANT OpenWhileReferenced
INVARIANT CreatedOnce
INVARIANT CleanRunsReopen
CHECK_DEADLOCK FALSE
