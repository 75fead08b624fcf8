SPECIFICATION Spec
CONSTANTS
  MaxOutputs = 2
  MaxCalls = 3
  Codecs = {"aac"}
  NoAudio = "none"
  Faults = {"noaudio", "vdec", "adec"}
  Sessions <- MCTranscoding
INVARIANTS
  DecodingHasFrames
\* A session ends: it is stopped or the process has crashed.
CHECK_DEADLOCK FALSE
