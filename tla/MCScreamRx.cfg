\* A receiver that starts late, and a stream of more than a round of numbers.
SPECIFICATION Spec
CONSTANTS
  SeqNrs = 8
  WrapGap = 3
  kRxHistorySize = 4
  Reported = 3
  AckDiff = 2
  MaxBlocks = 1
  First = 3
  MaxN = 17
  MaxJump = 2
  MaxLate = 2
INVARIANTS
  TypeOK
  HighestIsHighest
  NoFalseAck
  InOrderIsAcked
CHECK_DEADLOCK FALSE
