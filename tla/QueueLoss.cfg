CONSTANTS
  SeqSpace = 4
  Window = 2
  Slots = 8
  Capacity = 7
  Overhead = 1
  Fragment = 2
  DataSizes = {5}
  MaxCalls = 1
  Limits = {"end", "inWay", "space"}
SPECIFICATION InOrderSpec
INVARIANT
  CriticalKept
CHECK_DEADLOCK FALSE
