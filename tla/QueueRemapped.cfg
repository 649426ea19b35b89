SPECIFICATION FairSpec
CONSTANTS
  Irp = {i1, i2}
  Request <- RemappedRequests
  IsFilterDevice = TRUE
  DeviceLength = 3
  DataOffset = 0
  RemappedAreaOffset = 3
  UnitOffset = 2
  AreaStart = 1
  AreaLengths = {1}
  ProtectedStart = 1
  ProtectedEnd = 0
  MaxFragment = 3
  Item = {x1}
  RequestCount = 2
  MayFail = FALSE
  MayCancel = FALSE
  MayControl = TRUE
  NoIrp = NoIrp
  NoItem = NoItem
INVARIANTS ReadSeesWrites
PROPERTIES HoldReturns
CHECK_DEADLOCK FALSE
