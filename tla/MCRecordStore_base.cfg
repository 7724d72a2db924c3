SPECIFICATION Spec
CONSTANTS
  root = root
  section = section
  nested = nested
  k1 = k1
  k2 = k2
  k3 = k3
  NoUri = NoUri
  Uri = {root, section}
  Path <- TreePath
  Parent <- TreeParent
  Tree = {root}
  Call = {k1, k2}
  Doc <- TreeDoc
  Endings <- MCEndings
  MaxAttempts = 2
  MaxFaults = 1
CHECK_DEADLOCK FALSE
INVARIANTS
  TypeOK
  SettledFromOneDerivation
  QuietForgetIsFinal
