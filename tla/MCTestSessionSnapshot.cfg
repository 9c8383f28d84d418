\* A poll in snapshot while stop() destroys the controller.
SPECIFICATION Spec
CONSTANTS
  p1 = p1
  p2 = p2
  None = None
  Pollers = {p1, p2}
  MaxQueue = 2
INVARIANT
  SnapshotSafe
