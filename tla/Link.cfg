CONSTANTS
  SeqSpace = 6
  Window = 3
  MaxLag = 2
  MaxInFlight = 2
  Reorder = {"server"}
  Duplicate = {"server"}
SPECIFICATION Spec
INVARIANTS
  NeverHalts
  RingExact
  LinkInv
  AcksCumulate
  AckSound
  AckNeverAhead
PROPERTIES
  AckMonotone
CHECK_DEADLOCK FALSE
