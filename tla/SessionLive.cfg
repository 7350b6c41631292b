CONSTANTS
  SeqSpace = 6
  Window = 3
  MaxLag = 2
  MaxInFlight = 1
  Reorder = {}
  Duplicate = {}
  Slots = 2
  Capacity = 4
  LossKinds = {{"client"}, {"server"}}
  Delay = FALSE
  Follow = {"server"}
  Linger = FALSE
SPECIFICATION FairSpec
PROPERTIES
  AuthArrives
  ReplyArrives
CHECK_DEADLOCK FALSE
