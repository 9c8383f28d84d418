\* A sender started again beside a receiver that goes on.
SPECIFICATION LinkSpec
CONSTANTS
  SeqNrs = 16
  Reported = 2
  kMaxTxPackets = 16
  AckWindow = 4
  OooDiff = 12
  OooSlack = 2
  WrapGap = 6
  ReorderTime = 0
  Rto = 1
  TsJump = 2
  MaxWindow = 8
  Starts = {0}
  MaxTx = 4
  MaxTime = 3
  MaxGap = 0
  MaxAhead = 4
  MaxBack = 0
  RxWrapGap = 4
  kRxHistorySize = 8
  AckDiff = 1
  MaxInTransit = 1
  MaxRestarts = 1
INVARIANT
  AllAcked
CHECK_DEADLOCK FALSE
