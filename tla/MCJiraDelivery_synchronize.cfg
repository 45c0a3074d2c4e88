CONSTANTS
  Order <- OrderValue
  Parent <- ParentValue
  Relations <- RelationsValue
  Callers = {timer, plan}
  Timer = timer
  IssueLimit = 2
  FaultLimit = 2
SPECIFICATION FairSpec
INVARIANTS
  TypeOK
  IssuesAreCreatedOnce
  CompletedReceiptsAreWhole
PROPERTIES
  SynchronizationCompletes
CHECK_DEADLOCK FALSE
