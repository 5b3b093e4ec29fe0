SPECIFICATION FairSpec

CONSTANTS
  CR = "cr"
  LF = "lf"
  Table <- MCTable
  Requests <- AllRequests
  Faults = {"close", "reset", "silence"}
  ReadLen = 4
  LineLimit = 4
  SocketBuffer = 2
  MaxIdle = 0
  MaxRequests = 3

CHECK_DEADLOCK FALSE

INVARIANT TypeOK
INVARIANT HandledAreSent
INVARIANT RepliesExact
INVARIANT WritableIffReplies
INVARIANT BulkPending
INVARIANT NothingLeftBehind
PROPERTY Answered
