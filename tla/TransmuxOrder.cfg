SPECIFICATION ClockSpec
CONSTANTS
  a1 = a1
  v1 = v1
  Streams = {a1, v1}
  Audio = {a1}
  Times = {}
  NoPts <- MCUnknown
  Strict = TRUE
  Padded = FALSE
  Horizon = 0
  Clocked = {a1, v1}
  Bases <- MCBases
  Unknown <- MCNotKnown
  Starts <- MCStarts
  Durations = {1, 2}
  Delays = {1}
  MaxSegments = 2
  MaxPackets <- MCMaxPackets
INVARIANTS
  InOrderKept
PROPERTIES
  ClockForward
  StaysAsCopied
