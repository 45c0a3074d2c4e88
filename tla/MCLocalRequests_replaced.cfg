CONSTANTS
  r1 = r1
  r2 = r2
  Requests = {r1, r2}
  Habits <- HabitsValue
  Touches <- TouchesValue
  CommitLimit = 1
SPECIFICATION Spec
INVARIANT CommitsKeepTheirChange
CHECK_DEADLOCK FALSE
