SPECIFICATION Spec
CONSTANTS
  Size = 5
  BlockSize = 2
  HeaderUpdateThreshold = 3
  WipePasses = 1
  Faults = {"memory", "read", "write", "undo", "save"}
  MaxFaults = 2
  MaxCrashes = 1
INVARIANT LiveReadable
INVARIANT ErasedMeansPlain
INVARIANT CrashLossBounded
INVARIANT EndedMeansSaved
INVARIANT DismountExclusive
PROPERTY SetupEnds
CHECK_DEADLOCK FALSE
