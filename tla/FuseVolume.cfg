SPECIFICATION Spec
CONSTANTS
  Thread = {t1, t2}
  SectorSize = 2
  Sectors = 6
  GroupSize = 2
  ReadLengths = {2, 3}
  WriteLengths = {2, 4}
  MaxRequests = 3
  t1 = t1
  t2 = t2
SYMMETRY Symmetry
INVARIANT WritesStayInside
INVARIANT RefusedOnceTriggered
INVARIANT TriggeredByOverlap
INVARIANT ReadExact
CHECK_DEADLOCK FALSE
