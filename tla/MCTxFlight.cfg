\* Losses, reordering, late and repeated feedback, and a timeout.
SPECIFICATION Spec
CONSTANTS
  SeqNrs = 64
  kMaxTxPackets = 32
  AckWindow = 1
  Reported = 6
  OooDiff = 60
  OooSlack = 2
  WrapGap = 20
  ReorderTime = 0
  Rto = 1
  MaxWindow = 4
  TsJump = 2
  Starts = {62}
  MaxTx = 3
  MaxTime = 3
  MaxGap = 1
  MaxAhead = 6
  MaxBack = 6
INVARIANTS
  TypeOK
  FlightAccounting
  UnreportedIsCounted
  AckedNeverLost
CHECK_DEADLOCK FALSE
