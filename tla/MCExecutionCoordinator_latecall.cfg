CONSTANTS
  Projects = {p1}
  MaxConcurrentProjects = 1
  CrashLimit <- NeverEnds
  Attended = {p1}
SPECIFICATION FairSpec
PROPERTIES
  LateCallsAreHeard
