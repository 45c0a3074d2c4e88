CONSTANTS
  Controllers = {c1, c2}
  LeaseTicks = 1
  RevisionLimit = 2
  CrashLimit = 1
  FirstStages = {"delivery", "complete"}
  StagesTaken = {"complete"}
SPECIFICATION FairSpec
INVARIANTS
  TypeOK
  OneDispatcher
PROPERTIES
  StagesAreDispatched
CHECK_DEADLOCK FALSE
