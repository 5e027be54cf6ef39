\* A rule logs a message with a newline in it, and nobody dies.
SPECIFICATION Spec
CONSTANTS
  None = None
  MaxInput = 1
  MaxLogs = 4
  MaxRest = 1
  DataSize = 2
  SocketSize = 1
  BufferSize = 3
  MayDie = FALSE
INVARIANTS NoMatchMeansNone
