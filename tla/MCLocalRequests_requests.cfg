CONSTANTS
  r1 = r1
  r2 = r2
  Requests = {r1, r2}
  Habits <- HabitsValue
  Touches <- TouchesValue
  CommitLimit = 2
SPECIFICATION Spec
INVARIANTS
  TypeOK
  StoreStaysReadable
  ReceiptsAreTrue
PROPERTIES
  OthersCommitsSurvive
CHECK_DEADLOCK FALSE
