\* Taps in any order, faster than the service handles them.
SPECIFICATION Spec
CONSTANTS
  j1 = j1
  j2 = j2
  Polls = {j1, j2}
  MaxSessions = 2
  MaxInbox = 3
  MaxSession = 2
INVARIANTS
  TypeOK
  KeptAwake
  OnePoll
PROPERTY
  SamplesKept
CHECK_DEADLOCK FALSE
