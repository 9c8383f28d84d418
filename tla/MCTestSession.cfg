\* Sessions started and stopped again and again.
SPECIFICATION FairSpec
CONSTANTS
  p1 = p1
  p2 = p2
  None = None
  Pollers = {p1, p2}
  MaxQueue = 2
INVARIANTS
  TypeOK
  WorkersSafe
  NothingLeftBehind
PROPERTIES
  ImplementsLife
  StopReturns
