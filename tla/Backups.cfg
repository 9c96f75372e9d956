SPECIFICATION Spec
CONSTANTS
  Dirs = {live, restored}
  NoDir = NoDir
  RestorePath = restored
  Tables = {"usertable", "other"}
  MaxWrites = 3
  MaxBackups = 2
  MaxFaults = 1
INVARIANT SuccessIsSaved
INVARIANT RestoredAsSaved
INVARIANT FamiliesFound
PROPERTY BackupsKept
CHECK_DEADLOCK FALSE
