\* Finding: a signal before Serve has started makes Stop panic.
SPECIFICATION Spec
CONSTANTS
  None = None
  Conns = {c1}
  MinDelay = 5
  MaxDelay = 30
  MaxAcceptErrors = 0
SYMMETRY Symmetry
CHECK_DEADLOCK FALSE
INVARIANTS StopsCleanly
