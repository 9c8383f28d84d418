\* Any feedback, or none.
SPECIFICATION Spec
CONSTANTS
  Full = 6
  Small = 2
  kInitMss = 1
  kMinCwndMss = 3
  kMssUpdateInterval = 2
  Rto = 2
  maxRtpQueueDelay = 1
  kMinRtpQueueDiscardInterval = 2
  kRtpQueueSize = 4
  Headrooms = {3, 6}
  MaxFrame = 3
  MaxCwnd = 18
  MaxTime = 7
INVARIANTS
  TypeOK
  WindowAdmitsOne
  WaitIsBounded
CHECK_DEADLOCK FALSE
