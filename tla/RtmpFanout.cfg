SPECIFICATION FairSpec
CONSTANTS
  p1 = p1
  p2 = p2
  Players <- MCTwo
  Fragile <- MCFirst
  Cancellable <- MCFirst
  AppCloses = TRUE
  MaxPackets = 2
INVARIANTS
  EveryPacketSinceJoining
  NothingAfterRemoval
PROPERTIES
  CloseReachesAll
  BroadcastSpec
CHECK_DEADLOCK FALSE
