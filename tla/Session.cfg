CONSTANTS
  SeqSpace = 8
  Window = 2
  MaxLag = 3
  MaxInFlight = 2
  Reorder = {"client", "server"}
  Duplicate = {}
  Slots = 2
  Capacity = 4
  LossKinds = {{"client", "server"}}
  Delay = TRUE
  Follow = {"client", "server"}
  Linger = TRUE
SPECIFICATION Spec
INVARIANTS
  CriticalKept
  OneCopy
  ConfirmedHeard
  SessionInv
PROPERTIES
  LinkSpec
CHECK_DEADLOCK FALSE
