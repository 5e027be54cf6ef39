\* Two requests run up to two rules each and are answered; no group has r3.
\* The handlers are held against the service they promise.
SPECIFICATION FairSpec
CONSTANTS
  b1 = b1
  b2 = b2
  b3 = b3
  id = id
  None = None
  Conns = {c1, c2}
  Bodies = {b1, b2}
  Malformed = {b2}
  MessageIDs = {id}
  MessageIDOf <- MCMessageIDOf
  GroupNames = {"inbox", "gone"}
  RuleNames = {"r1", "r2", "r3"}
  Groups <- MCTwoRules
  TagKeys = {"k"}
  TagValues = {"x"}
  MaxTagOps = 0
  MaxCrashes = 1
  ReadsMayFail = FALSE
CHECK_DEADLOCK FALSE
INVARIANTS AnswerIsFirstMatch
PROPERTIES ImplementsService Answered
