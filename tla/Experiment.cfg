SPECIFICATION ScriptSpec
CONSTANTS
  ExitAt = 3
  MaxStarts = 3
  MaxFailures = 2
INVARIANT ScriptTypeOK
INVARIANT RowsTell
INVARIANT PhasesComparable
INVARIANT EveryPhaseReported
INVARIANT DatabasesAsMeant
CHECK_DEADLOCK FALSE
