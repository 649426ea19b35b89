SPECIFICATION FairSpec
CONSTANTS
  VolumeSize = 7
  DataOffset = 2
  MaxChunk = 3
  ConcealSize = 2
  HeaderUpdateInterval = 5
  WipePasses = 2
  Faults = {"read", "write", "update", "primary"}
  MaxFaults = 1
  MayCrash = FALSE
  MayExit = FALSE
INVARIANT DataRecoverable
CHECK_DEADLOCK FALSE
PROPERTY EncryptionFinishes
