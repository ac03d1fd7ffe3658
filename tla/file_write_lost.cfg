SPECIFICATION Spec
CONSTANTS
  Names = {"a", "b"}
  Menu <- PutRequest
  FirstFile = "a"
  FileLength = 3
  Big = 4
  RingSize = 10
  MaxCalls = 2
  MaxTrouble = 0
CHECK_DEADLOCK FALSE
INVARIANT OkMeansWritten
