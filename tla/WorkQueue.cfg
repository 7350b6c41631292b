CONSTANTS
  Main = Main
  w1 = w1
  w2 = w2
  Worker = {w1, w2}
  Size = 3
  MaxWork = 4
SPECIFICATION FairSpec
CONSTRAINT
  UntilLapped
INVARIANTS
  RunOnce
  CompleteMeansDone
  Accounted
  NoLostWakeup
  QueueInv
PROPERTIES
  OvertakenByLap
  EveryWorkRuns
  CompleteReturns
CHECK_DEADLOCK FALSE
