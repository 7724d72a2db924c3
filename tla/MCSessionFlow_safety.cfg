SPECIFICATION Spec
CONSTANTS
  t1 = t1
  t2 = t2
  t3 = t3
  Msg = {1, 2, 3, 4}
  Weight <- Weights
  Budget = 2
  Turn = {t1, t2}
  End = {e1}
  Worker = worker
  TurnMessages <- LongTurn
  NoChunk = NoChunk
  MaxFailures = 2
  MaxIdle = 1
CHECK_DEADLOCK FALSE
INVARIANTS
  TypeOK
  MergedOnce
  ChunksBounded
  RangesExact
  IndexesExact
  ImmediateUntilMerged
PROPERTIES
  EndCoversSession
