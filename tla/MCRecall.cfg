SPECIFICATION Spec
CONSTANTS
  Catalogue <- MCCatalogue
  Vector = {"v", "w"}
  Queries <- MCQueries
  SeedLimit = 2
  FinalLimit = 3
  MaxTimeouts = 1
  MaxChanges = 1
CHECK_DEADLOCK FALSE
INVARIANTS
  TypeOK
  AnswersArePrimary
  AnswersFillLimit
  DominantFirst
  TimeOrdered
  RangeKept
