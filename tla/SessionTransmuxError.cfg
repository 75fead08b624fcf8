SPECIFICATION Spec
CONSTANTS
  MaxOutputs = 2
  MaxCalls = 3
  Codecs = {"aac"}
  NoAudio = "none"
  Faults = {"read"}
  Sessions <- MCTransmuxing
PROPERTIES
  TransmuxClosedByStop
\* A session ends: it is stopped or the process has crashed.
CHECK_DEADLOCK FALSE
