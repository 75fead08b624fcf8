SPECIFICATION Spec
CONSTANTS
  p1 = p1
  p2 = p2
  Players <- MCFirst
  Fragile <- MCNobody
  Cancellable <- MCNobody
  AppCloses = FALSE
  MaxPackets = 3
INVARIANTS
  EarlyListenersGetAll
CHECK_DEADLOCK FALSE
