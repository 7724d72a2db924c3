SPECIFICATION Spec
CONSTANTS
  SectionsOf <- Sections
  Jobs <- MCJobs
  MaxParagraphs = 6
  Caller = {c1, c2}
  MaxFaults = 1
  MaxSection = 5
  MinSection = 2
  SmallDocument = 6
CHECK_DEADLOCK FALSE
SYMMETRY CallerSymmetry
INVARIANTS
  TypeOK
  ReadsAsDocument
  LeavesFit
  TreeFollowsSections
  ImportedOnce
  ImportComplete
