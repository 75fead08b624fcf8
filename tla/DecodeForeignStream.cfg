SPECIFICATION Spec
CONSTANTS
  Sessions <- MCSoftware
  Streams = {"video", "audio", "other"}
  Delay = 2
  AudioDelay = 1
  SentinelMax = 1
  DiffMod = 8
  MaxPackets = 3
  MaxCalls = 2
  Faults = {}
  MaxFaults = 2
INVARIANTS
  QueueTakesAll
\* The session ends after its last call.
CHECK_DEADLOCK FALSE
