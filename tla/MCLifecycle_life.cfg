\* Start-up, serving with accept errors, and shutdown, with three connections.
SPECIFICATION FairSpec
CONSTANTS
  None = None
  Conns = {c1, c2, c3}
  MinDelay = 5
  MaxDelay = 12
  MaxAcceptErrors = 3
CHECK_DEADLOCK FALSE
INVARIANTS TypeOK OneStragglerAtMost FatalErrReturned ReleasedOnExit BackoffDelay
PROPERTIES AlwaysEnds
