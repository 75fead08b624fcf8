SPECIFICATION Spec
CONSTANTS
  MaxOutputs = 2
  MaxCalls = 3
  Codecs = {"aac"}
  NoAudio = "none"
  Faults = {"count", "noaudio"}
  Sessions <- MCMp4
INVARIANTS
  OnlyMpegtsKeepsDemuxer
\* A session ends: it is stopped or the process has crashed.
CHECK_DEADLOCK FALSE
