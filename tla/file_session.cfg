SPECIFICATION FairSpec
CONSTANTS
  Names = {"a", "b"}
  Menu <- AnyRequest
  FirstFile = "a"
  FileLength = 3
  Big = 4
  RingSize = 10
  MaxCalls = 3
  MaxTrouble = 1
\* The program may stop calling.
CHECK_DEADLOCK FALSE
INVARIANTS
  ReplyIsMine
  ReadsFollow
  HeldHandlesOpen
  OkMeansDone
  ErrorMeansNotDone
PROPERTIES
  CallReturns
  ServerReturns
