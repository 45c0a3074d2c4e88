CONSTANTS
  DesignLimit = 2
  PlanLimit = 1
  ReopenLimit = 1
  CrashLimit = 1
SPECIFICATION FairSpec
INVARIANTS
  TypeOK
  ImplementationIsApproved
  PendingRunsAreRemembered
PROPERTIES
  AcceptedPlansReachDelivery
  RunsGoOn
CHECK_DEADLOCK FALSE
