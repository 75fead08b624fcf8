SPECIFICATION Spec
CONSTANTS
  StartSeq = 0
  RetryCount = 2
  PlaylistRetryCount = 2
  MaxWait = 1
  ListSize = 2
  Length <- MCLength
  WinSize = 2
  Capacity = 2
  MaxSegs = 4
  Reports = 1
INVARIANTS
  WindowAgrees
CHECK_DEADLOCK FALSE
