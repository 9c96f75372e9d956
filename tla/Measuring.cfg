SPECIFICATION MeasurementsSpec
CONSTANTS
  t1 = t1
  t2 = t2
  Threads = {t1, t2}
  NoOne = NoOne
  OpCount <- TwoAndOne
  MaxWindows = 1
INVARIANT MeasurementsTypeOK
INVARIANT ExactTotals
INVARIANT StatusBalance
INVARIANT WindowsPartition
CHECK_DEADLOCK FALSE
