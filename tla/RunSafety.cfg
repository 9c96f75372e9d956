SPECIFICATION FairSpec
CONSTANTS
  Clients = {c1, c2}
  ThreadCount = 2
  Quotas = {0, 2}
  OpCap = 3
  HasTerminator = TRUE
  HasStatus = TRUE
  ZeroInterval = FALSE
  InitMayFail = TRUE
  MayBlock = {c1}
INVARIANT TypeOK
INVARIANT TotalsAreFinal
INVARIANT StopIsPrompt
INVARIANT CleanBeforeExport
PROPERTY RunEnds
CHECK_DEADLOCK FALSE
