SPECIFICATION Spec
CONSTANTS
  MaxOutputs = 2
  MaxCalls = 3
  Codecs = {"aac"}
  NoAudio = "none"
  Faults = {"novideo", "noaudio", "probe", "params", "count", "demux", "info", "vdec", "adec", "io", "pixfmt", "open", "openlate", "reopen", "read", "empty", "audiofirst", "encode", "resize"}
  Sessions <- MCAll
INVARIANTS
  TypeOK
  IdleOutputsClosed
  OutputsNeverLeak
PROPERTIES
  HwEncoderKept
\* A session ends: it is stopped or the process has crashed.
CHECK_DEADLOCK FALSE
