SPECIFICATION FairSpec
CONSTANTS
  Sessions <- MCAudioEarly
  Tick = 3
  Dur = 1
  Starts = {0, 3}
  Gaps <- MCGaps
  NoPts <- MCNoPts
  EncDelay = 1
  Runaway = 2
  MaxVideo = 3
  MaxAudio = 2
  MaxCalls = 2
  MaxFaults = 0
INVARIANT AudioAfterVideo
\* The session ends after its last call.
CHECK_DEADLOCK FALSE
