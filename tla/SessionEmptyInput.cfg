SPECIFICATION Spec
CONSTANTS
  MaxOutputs = 2
  MaxCalls = 3
  Codecs = {"aac"}
  NoAudio = "none"
  Faults = {"empty", "noaudio"}
  Sessions <- MCCuda
INVARIANTS
  EofFlushes
\* A session ends: it is stopped or the process has crashed.
CHECK_DEADLOCK FALSE
