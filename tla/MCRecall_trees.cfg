SPECIFICATION Spec
CONSTANTS
  Catalogue <- MCCatalogue
  Vector = {"v", "w"}
  Queries <- TreeQueries
  SeedLimit = 2
  FinalLimit = 3
  MaxTimeouts = 0
  MaxChanges = 1
CHECK_DEADLOCK FALSE
INVARIANTS
  TreesSearched
