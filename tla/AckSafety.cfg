SPECIFICATION FairSpec
CONSTANTS
  Threads = {t1, t2, t3}
  NoThread = NoThread
  NoKey = NoKey
  WindowSize = 4
  CountStart = 1
  MaxLead = 4
  MaxKeys = 6
INVARIANT LimitAcked
INVARIANT NoFalseOverflow
PROPERTY ScanStopsAtGap
PROPERTY ImplementsKeySequence
PROPERTY LockReleased
CHECK_DEADLOCK FALSE
