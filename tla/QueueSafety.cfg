SPECIFICATION Spec
CONSTANTS
  Clients = {c1, c2, c3}
  Ops = {"timeout", "cancel", "dispose", "take", "execute"}
  Numbers = {1, 2}
  MaxItems = 2
  MaxPolls = 2
INVARIANTS
  TypeOK
  HandOff
SYMMETRY Interchangeable
CHECK_DEADLOCK FALSE
