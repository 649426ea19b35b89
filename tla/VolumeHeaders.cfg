SPECIFICATION Spec
CONSTANTS
  Blocks = 7
  FatBlocks = 1
  FillBlocks = 2
  Passes = 2
  Password = {p1, p2, p3}
  p1 = p1
  p2 = p2
  p3 = p3
  MaxOperations = 2
  MaxFailures = 1
SYMMETRY Symmetry
INVARIANT HeaderSurvives
INVARIANT ReportHolds
PROPERTY OtherVolumeIntact
CHECK_DEADLOCK FALSE
