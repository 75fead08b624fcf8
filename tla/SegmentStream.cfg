SPECIFICATION FairSpec
CONSTANTS
  StartSeq = 0
  RetryCount = 2
  PlaylistRetryCount = 2
  MaxWait = 1
  ListSize = 2
  Length <- MCLength
  WinSize = 2
  Capacity = 3
  MaxSegs = 4
  Reports = 1
INVARIANTS
  AddedComplete
  WindowAgrees
  TimeoutMeansSilence
PROPERTIES
  SegmentingEnds
CHECK_DEADLOCK FALSE
