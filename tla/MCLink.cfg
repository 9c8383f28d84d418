\* One restart of either side, any loss and reordering.
SPECIFICATION FairSpec
CONSTANTS
  SeqNrs = 16
  Reported = 2
  kMaxTxPackets = 16
  AckWindow = 4
  OooDiff = 12
  OooSlack = 2
  WrapGap = 5
  ReorderTime = 0
  Rto = 1
  TsJump = 2
  MaxWindow = 3
  Starts = {0}
  MaxTx = 3
  MaxTime = 7
  MaxGap = 0
  MaxAhead = 3
  MaxBack = 0
  RxWrapGap = 4
  kRxHistorySize = 8
  AckDiff = 1
  MaxInTransit = 2
  MaxRestarts = 1
INVARIANTS
  LinkTypeOK
  AckedWereReceived
  NoSpuriousLoss
  FirstSessionAcked
PROPERTY
  NeverStuck
CHECK_DEADLOCK FALSE
