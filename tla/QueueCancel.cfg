SPECIFICATION FairSpec
CONSTANTS
  Clients = {c1, c2}
  Ops = {"cancel"}
  Numbers = {1, 2}
  MaxItems = 1
  MaxPolls = 1
PROPERTY LockReleased
CHECK_DEADLOCK FALSE
