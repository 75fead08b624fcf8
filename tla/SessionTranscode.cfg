SPECIFICATION Spec
CONSTANTS
  MaxOutputs = 2
  MaxCalls = 3
  Codecs = {"aac", "opus"}
  NoAudio = "none"
  Faults = {"noaudio", "probe", "io", "open", "reopen", "read", "encode"}
  Sessions <- MCTranscoding
INVARIANTS
  ReadsOwnInput
  OnlyMpegtsKeepsDemuxer
  InputNeverLeaks
  ProcessesRightly
  DemuxerKnowsAudio
\* A session ends: it is stopped or the process has crashed.
CHECK_DEADLOCK FALSE
