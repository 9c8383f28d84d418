\* Sessions started and stopped again and again.
SPECIFICATION FairSpec
CONSTANTS
  p1 = p1
  p2 = p2
  None = None
  Pollers = {p1, p2}
INVARIANTS
  TypeOK
  NothingLeftBehind
PROPERTIES
  ImplementsLife
  StopReturns
