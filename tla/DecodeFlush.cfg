SPECIFICATION FairSpec
CONSTANTS
  Sessions <- MCDecoding
  Streams = {"video", "audio"}
  Delay = 2
  AudioDelay = 1
  SentinelMax = 1
  DiffMod = 8
  MaxPackets = 3
  MaxCalls = 2
  Faults = {"drop", "extra", "refuse", "error", "nokey"}
  MaxFaults = 2
INVARIANTS
  LoopTypeOK
  FlushReturnsAll
  VideoComplete
  AudioComplete
  EveryPacketCopied
PROPERTIES
  CallEnds
\* The session ends after its last call.
CHECK_DEADLOCK FALSE
