\* Rules change tags, evaluations are recorded, and any statement may fail:
\* memory against the database.
SPECIFICATION TagSpec
CONSTANTS
  b1 = b1
  b2 = b2
  id = id
  None = None
  Conns = {c1, c2}
  Bodies = {b1, b2}
  Malformed = {}
  MessageIDs = {id}
  MessageIDOf <- MCMessageIDOf
  GroupNames = {"inbox"}
  RuleNames = {"r1"}
  Groups <- MCOneRule
  TagKeys = {"k"}
  TagValues = {"x"}
  MaxTagOps = 2
  MaxCrashes = 0
  ReadsMayFail = FALSE
SYMMETRY Symmetry
CHECK_DEADLOCK FALSE
INVARIANTS TagsCoherent InsertIsFresh
