SPECIFICATION Spec
CONSTANTS
  root = root
  section = section
  nested = nested
  k1 = k1
  k2 = k2
  k3 = k3
  NoUri = NoUri
  Uri = {root, section, nested}
  Path <- TreePath
  Parent <- TreeParent
  Tree = {root}
  Call = {k1, k2, k3}
  Doc <- TreeDoc
  Endings <- MCEndings
  MaxAttempts = 2
  MaxFaults = 1
CHECK_DEADLOCK FALSE
CONSTRAINT NestedAlone
INVARIANTS
  TypeOK
  SettledFromOneDerivation
  QuietForgetIsFinal
