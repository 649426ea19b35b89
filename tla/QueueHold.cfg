SPECIFICATION Spec
CONSTANTS
  Irp = {i1, i2}
  Request <- DriveRequests
  IsFilterDevice = TRUE
  DeviceLength = 3
  DataOffset = 0
  RemappedAreaOffset = 0
  UnitOffset = 0
  AreaStart = 0
  AreaLengths = {0, 2}
  ProtectedStart = 1
  ProtectedEnd = 0
  MaxFragment = 2
  Item = {x1, x2}
  RequestCount = 2
  MayFail = FALSE
  MayCancel = TRUE
  MayControl = TRUE
  NoIrp = NoIrp
  NoItem = NoItem
SYMMETRY Symmetric
INVARIANTS HoldExcludesIo ReadSeesWrites
CHECK_DEADLOCK FALSE
