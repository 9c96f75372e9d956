SPECIFICATION FairSpec
CONSTANTS
  ThreadCount = 2
  RecordCount = 4
  InsertStart = 1
  InsertCount = 3
  Unset = Unset
  RetryLimit = 1
  OpCount = 4
  ExpectedNewKeys = 2
  Distributions = {"uniform", "zipfian", "latest", "exponential"}
  MaxFaults = 1
  FaultPhases = {"load", "run"}
INVARIANT ChosenKeyAttempted
INVARIANT LoadComplete
INVARIANT FreshKeys
PROPERTY PickEnds
CHECK_DEADLOCK FALSE
