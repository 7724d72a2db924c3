SPECIFICATION Spec
CONSTANTS
  root = root
  section = section
  nested = nested
  k1 = k1
  k2 = k2
  k3 = k3
  NoUri = NoUri
  Uri = {root, section}
  Path <- TreePath
  Parent <- TreeParent
  Tree = {root}
  Call = {k1}
  Doc <- TreeDoc
  Endings <- ImportOnly
  MaxAttempts = 2
  MaxFaults = 0
CHECK_DEADLOCK FALSE
INVARIANTS
  RecordKeepsPoint
