CONSTANTS
  TaskCount = 1
  DependsOn <- SingleDependsOn
  AllowedFiles <- SingleFiles
  UiTasks = {1}
  Workers = {w1}
  gemini = gemini
  groq = groq
  mistral = mistral
  Providers = {gemini, groq, mistral}
  Candidates = {gemini}
  Digests = {d1, d2}
  Messages = {"plain", "contract", "dependency", "workspace", "integration"}
  Panels <- AllPanels
  Approvals = {a1, a2}
  LeaseTicks = 1
  ImplementationLimit = 4
  ValidationLimit = 4
  ArchiveLimit = 1
  AttemptLimit = 2
  HealingBudget = 1
  Nobody = Nobody
SPECIFICATION Spec
PROPERTY RepairRunsImplementation
CHECK_DEADLOCK FALSE
