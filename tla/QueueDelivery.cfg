SPECIFICATION FairSpec
CONSTANTS
  Clients = {c1, c2, c3}
  Ops = {"timeout", "dispose", "take"}
  Numbers = {1, 2}
  MaxItems = 3
  MaxPolls = 2
INVARIANTS
  InOrderOnce
  NoneWaitsForItems
PROPERTIES
  LockReleased
CHECK_DEADLOCK FALSE
