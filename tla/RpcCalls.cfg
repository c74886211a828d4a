SPECIFICATION FairSpec
CONSTANTS
  RawL2 = TRUE
  MaxSeq = 5
  Patience = 2
  Retries = 1
  FaultBudget = 1
  Records = {"read", "write"}
  RecordBound = 3
INVARIANTS
  OkMeansDone
  NoDeadAR
PROPERTIES
  CallReturns
  TakeoverCompletes
\* A dropped connection is the end of the session.
CHECK_DEADLOCK FALSE
