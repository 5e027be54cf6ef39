\* Two handlers race through the cache, the lock and the store, run a rule that
\* changes a tag and record it; two texts share a Message-ID, statements and
\* queries may fail and the daemon may crash.
SPECIFICATION Spec
CONSTANTS
  b1 = b1
  b2 = b2
  b3 = b3
  id = id
  None = None
  Conns = {c1, c2}
  Bodies = {b1, b2, b3}
  Malformed = {b3}
  MessageIDs = {id}
  MessageIDOf <- MCMessageIDOf
  GroupNames = {"inbox", "empty"}
  RuleNames = {"r1"}
  Groups <- MCOneRule
  TagKeys = {"k"}
  TagValues = {"x"}
  MaxTagOps = 1
  MaxCrashes = 1
  ReadsMayFail = TRUE
SYMMETRY Symmetry
CHECK_DEADLOCK FALSE
INVARIANTS SampledAgrees TypeOK SuccessIsRecorded
PROPERTIES NoDuplicateLoad
