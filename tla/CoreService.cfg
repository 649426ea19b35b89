SPECIFICATION FairSpec
CONSTANTS
  Caller = {c1, c2}
  Attempt = {a1, a2}
  MaxRequests = 3
  MayCrash = TRUE
  NoCaller = NoCaller
  NoAttempt = NoAttempt
INVARIANTS InStep ExecutedOnce
PROPERTIES Answered NoneLeft
CHECK_DEADLOCK FALSE
