SPECIFICATION Spec
CONSTANTS
  Mounter = mounter
  Dismounter = {d1, d2}
  MaxCiphers = 2
  MaxFaults = 1
SYMMETRY Symmetric
INVARIANTS Controllable FailedMountLeavesNothing
PROPERTIES TriggerReported
CHECK_DEADLOCK FALSE
