SPECIFICATION FairSpec
CONSTANTS
  t1 = t1
  t2 = t2
  t3 = t3
  Msg = {1, 2, 3, 4}
  Weight <- Weights
  Budget = 2
  Turn = {t1, t2, t3}
  End = {}
  Worker = worker
  TurnMessages <- ThreeTurns
  NoChunk = NoChunk
  MaxFailures = 0
  MaxIdle = 0
CHECK_DEADLOCK FALSE
INVARIANTS
  NothingForgotten
PROPERTIES
  FrozenGetsMerged
