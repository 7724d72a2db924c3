SPECIFICATION Spec
CONSTANTS
  Msg = {1, 2}
  Consumer = {c1, c2}
  Free = Free
  Scanning = Scanning
  NoOwner = NoOwner
  MaxAttempts = 2
  StaleAfter = 1
  Delays = {0, 1}
  MaxLapses = 1
  MaxOrphans = 1
  MaxPasses = 1
SYMMETRY ConsumerSymmetry
INVARIANTS
  TypeOK
  AttemptsAccounted
  HoldersBounded
  ExclusiveWithoutLapse
  RetryBudget
PROPERTIES
  LeasePromises
  DoneIsFinal
