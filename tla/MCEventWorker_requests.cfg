SPECIFICATION FairSpec
CONSTANTS
  Msg = {1, 2}
  Worker = {w1, w2}
  Request = {r1}
  None = None
  NoOwner = NoOwner
  Free = Free
  Scanning = Scanning
  KeyOf <- OneKey
  RequestOf <- OneRequest
  ParentOf <- NoParent
  MaxAttempts = 2
  StaleAfter = 1
  RetryDelay = 1
  LockedDelay = 1
  MaxFaults = 1
  MaxLapses = 0
  WatchIdle = FALSE
INVARIANTS
  TypeOK
  TrackerExact
  ReadyMeansIndexed
PROPERTIES
  EventuallySettled
  EventuallyAnswered
