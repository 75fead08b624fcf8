SPECIFICATION MuxSpec
CONSTANTS
  Streams = {a1, v1}
  Audio = {a1}
  Times <- MCTimes
  NoPts <- MCUnknown
  Strict = TRUE
  Padded = TRUE
  Horizon = 5
INVARIANTS
  NeverLatePts
PROPERTIES
  DtsIncreases
  OrderedSpec
