SPECIFICATION ScriptSpec
CONSTANTS
  ExitAt = 2
  MaxStarts = 1
  MaxFailures = 0
INVARIANT ReferenceUnchanging
CHECK_DEADLOCK FALSE
