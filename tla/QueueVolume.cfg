SPECIFICATION FairSpec
CONSTANTS
  Irp = {i1, i2}
  Request <- VolumeRequests
  IsFilterDevice = FALSE
  DeviceLength = 3
  DataOffset = 1
  RemappedAreaOffset = 0
  UnitOffset = 0
  AreaStart = 0
  AreaLengths = {0}
  ProtectedStart = 3
  ProtectedEnd = 3
  MaxFragment = 1
  Item = {x1}
  RequestCount = 1
  MayFail = TRUE
  MayCancel = FALSE
  MayControl = TRUE
  NoIrp = NoIrp
  NoItem = NoItem
INVARIANTS ProtectedIntact WritesReachDevice StoppedIsEmpty
PROPERTIES StopReturns QueuedIrpCompletes
CHECK_DEADLOCK FALSE
