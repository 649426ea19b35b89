SPECIFICATION FairSpec
CONSTANTS
  Caller = {c1, c2}
  Worker = {w1, w2}
  MaxThreadCount = 2
  UnitCounts = {3}
  SectorUnits = 1
  StopOnlyWhenIdle = TRUE
  CipherMayThrow = FALSE
  NoThread = NoThread
  NoItem = NoItem
PROPERTIES ImplementsService AcceptedRequestCompletes StopTerminates
