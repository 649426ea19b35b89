SPECIFICATION Spec
CONSTANTS
  VolumeSize = 7
  DataOffset = 2
  MaxChunk = 3
  ConcealSize = 2
  HeaderUpdateInterval = 5
  WipePasses = 1
  Faults = {"header", "verify", "conceal", "read", "write", "undo", "update", "primary"}
  MaxFaults = 2
  MayCrash = TRUE
  MayExit = TRUE
INVARIANT HeaderNeverAhead
INVARIANT FinishedMeansEncrypted
CHECK_DEADLOCK FALSE
