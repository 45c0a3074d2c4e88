CONSTANTS
  TaskCount = 3
  DependsOn <- ChainDependsOn
  AllowedFiles <- ChainFiles
  UiTasks = {}
  Workers = {w1}
  gemini = gemini
  groq = groq
  mistral = mistral
  Providers = {gemini, groq, mistral}
  Candidates = {gemini}
  Digests = {}
  Messages = {}
  Panels <- OnePanel
  Approvals = {a1}
  LeaseTicks = 1
  ImplementationLimit = 1
  ValidationLimit = 3
  ArchiveLimit = 1
  AttemptLimit = 1
  HealingBudget = 0
  Nobody = Nobody
SPECIFICATION Spec
INVARIANTS
  StateReflectsTasks
  DependencyOrder
PROPERTIES
  ImplementsTaskBoard
CHECK_DEADLOCK FALSE
