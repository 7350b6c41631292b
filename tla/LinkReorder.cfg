CONSTANTS
  SeqSpace = 6
  Window = 3
  MaxLag = 2
  MaxInFlight = 2
  Reorder = {"client", "server"}
  Duplicate = {}
SPECIFICATION Spec
INVARIANTS
  NeverOutOfOrder
CHECK_DEADLOCK FALSE
