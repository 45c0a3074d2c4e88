CONSTANTS
  TaskCount = 2
  DependsOn <- PairDependsOn
  AllowedFiles <- PairFiles
  UiTasks = {}
  Workers = {w1, w2}
  gemini = gemini
  groq = groq
  mistral = mistral
  Providers = {gemini, groq, mistral}
  Candidates = {gemini}
  Digests = {d1}
  Messages = {"plain"}
  Panels <- OnePanel
  Approvals = {}
  LeaseTicks = 2
  ImplementationLimit = 2
  ValidationLimit = 2
  ArchiveLimit = 1
  AttemptLimit = 1
  HealingBudget = 1
  Nobody = Nobody
SYMMETRY WorkerSymmetry
SPECIFICATION Spec
INVARIANTS
  FileExclusion
CHECK_DEADLOCK FALSE
