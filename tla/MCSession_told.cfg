\* What the client is told, and that both ends come to an end, when either may
\* die at any time.
SPECIFICATION FairSpec
CONSTANTS
  None = None
  MaxInput = 3
  MaxLogs = 5
  MaxRest = 2
  DataSize = 2
  SocketSize = 1
  BufferSize = 3
  MayDie = TRUE
INVARIANTS TypeOK ReportsVerdict LogsInOrder RulesSeeAllInput
PROPERTIES BothEnd
