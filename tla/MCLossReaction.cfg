\* Losses, CE marks and long queues in any order.
SPECIFICATION Spec
CONSTANTS
  kMinCongestionBackOffInterval = 2
  Rtts = {1, 3}
  Start = 1
  MaxTime = 9
INVARIANTS
  TypeOK
  LossAnswered
PROPERTY
  OneLossReaction
CHECK_DEADLOCK FALSE
