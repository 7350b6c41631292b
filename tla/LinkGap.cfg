CONSTANTS
  SeqSpace = 8
  Window = 2
  MaxLag = 3
  MaxInFlight = 2
  Reorder = {}
  Duplicate = {}
SPECIFICATION Spec
INVARIANTS
  GapSurvived
CHECK_DEADLOCK FALSE
