\* Finding: the inserts of RecordEval are not one transaction.
SPECIFICATION Spec
CONSTANTS
  b1 = b1
  b2 = b2
  b3 = b3
  id = id
  None = None
  Conns = {c1}
  Bodies = {b1}
  Malformed = {}
  MessageIDs = {id}
  MessageIDOf <- MCMessageIDOf
  GroupNames = {"inbox"}
  RuleNames = {"r1"}
  Groups <- MCOneRule
  TagKeys = {"k"}
  TagValues = {"x"}
  MaxTagOps = 0
  MaxCrashes = 0
  ReadsMayFail = FALSE
SYMMETRY Symmetry
CHECK_DEADLOCK FALSE
INVARIANTS RecordAllOrNothing
