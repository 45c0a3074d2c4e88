CONSTANTS
  Projects = {p1, p2}
  MaxConcurrentProjects = 2
  CrashLimit <- EndsOnceWithOneSlot
  Attended = {p1}
SPECIFICATION FairSpec
INVARIANTS
  TypeOK
  NoOrphanedRun
  OneRunPerProject
  CompletedIsTold
PROPERTIES
  WaitingRunsGoOn
