SPECIFICATION Spec
CONSTANTS
  Caller = {c1, c2}
  Worker = {w1, w2}
  MaxThreadCount = 2
  UnitCounts = {1, 3}
  SectorUnits = 1
  StopOnlyWhenIdle = FALSE
  CipherMayThrow = TRUE
  NoThread = NoThread
  NoItem = NoItem
SYMMETRY Symmetric
INVARIANTS RequestOutcome BufferLent FragmentAccounting ExclusiveItem
CHECK_DEADLOCK FALSE
