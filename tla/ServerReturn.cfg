CONSTANTS
  a1 = a1
  a2 = a2
  k1 = k1
  Null = Null
  Addr = {a1, a2}
  Key = {k1}
  BucketCount = 3
  HashKey <- MCHashKey
  SeqSpace = 8
  Window = 4
  Timeout = 1
  MaxSent <- MCMaxSent
  MaxReplies <- MCMaxReplies
  MaxInbox = 2
  MaxBacklog = 1
SPECIFICATION Spec
INVARIANTS
  AckRefersLower
CHECK_DEADLOCK FALSE
