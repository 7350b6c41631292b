CONSTANTS
  SeqSpace = 4
  Window = 2
  Slots = 5
  Capacity = 9
  Overhead = 1
  Fragment = 2
  DataSizes = {1, 3}
  MaxCalls = 3
  Limits = {"end", "inWay", "space", "size"}
SPECIFICATION Spec
INVARIANTS
  SlotsInv
  CriticalKept
  OneCopy
  Survives
CHECK_DEADLOCK FALSE
