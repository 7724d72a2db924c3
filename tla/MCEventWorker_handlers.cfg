SPECIFICATION Spec
CONSTANTS
  Msg = {1, 2}
  Worker = {w1, w2}
  Request = {}
  None = None
  NoOwner = NoOwner
  Free = Free
  Scanning = Scanning
  KeyOf <- OneKey
  RequestOf <- NoRequest
  ParentOf <- ChildOfFirst
  MaxAttempts = 2
  StaleAfter = 1
  RetryDelay = 1
  LockedDelay = 1
  MaxFaults = 1
  MaxLapses = 1
  WatchIdle = TRUE
SYMMETRY WorkerSymmetry
CONSTRAINT IdleOrLapse
INVARIANTS
  WaitIdleCovers
PROPERTIES
  QueueSpec
