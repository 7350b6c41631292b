CONSTANTS
  a1 = a1
  a2 = a2
  a3 = a3
  a4 = a4
  a5 = a5
  k1 = k1
  k2 = k2
  Null = Null
  Addr = {a1, a2, a3, a4, a5}
  Key = {k1, k2}
  BucketCount = 5
  HashKey <- MCHashKey
SPECIFICATION Spec
INVARIANTS
  EntriesExact
  ChainsExact
  FreeNotInUse
  RoomForEntry
  SweepComplete
  RegistryInv
PROPERTIES
  VisitOnce
CHECK_DEADLOCK FALSE
