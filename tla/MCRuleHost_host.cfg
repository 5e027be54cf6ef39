SPECIFICATION HostSpec
CONSTANTS
  b1 = b1
  b2 = b2
  b3 = b3
  b4 = b4
  NumScripts = 2
  NumGroups = 1
  RuleNames = {r1, r2}
  MaxCalls = 2
  MaxRules = 2
  Blank = Blank
  Keys = {b1, b2, b3, b4}
  Objects = {o1, o2, o3}
  Sizes = {1, 2, 5}
  MaxCount = 2
  MaxSize = 4
  MaxAge = 1
  Wrap = 16
  None = None
  storeID <- MCstoreID
  SizeOf <- MCSizeOf
  Props = {"subject"}
  TagKeys = {t}
  MaxTagOps = 2
  Workloads <- MCWorkloads
SYMMETRY Names
CHECK_DEADLOCK FALSE
INVARIANTS NamesUnique WholeUnlessCaught SizeIsSum LimitsHold
  ReadsOwnMessage TagsSurvive
PROPERTIES ImplementsObjectCache
