CONSTANTS
  Order <- OrderValue
  Closable = {"first"}
  Passes = {timer, worker}
  Timer = timer
  RevisionLimit <- RevisionLimitValue
  MovedTo = {"another"}
  FaultLimit = 1
SPECIFICATION FairSpec
INVARIANTS
  TypeOK
  CommentsAreWrittenOnce
  ReceiptsAreObservations
PROPERTIES
  CompletionIsPublished
CHECK_DEADLOCK FALSE
