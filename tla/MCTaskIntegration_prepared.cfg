CONSTANTS
  TaskCount = 1
  DependsOn <- SingleDependsOn
  AllowedFiles <- SingleFiles
  UiTasks = {}
  Workers = {w1}
  gemini = gemini
  groq = groq
  mistral = mistral
  Providers = {gemini, groq, mistral}
  Candidates = {gemini}
  Digests = {d1}
  Messages = {"plain", "dependency", "integration"}
  Panels <- PassOrFail
  Approvals = {a1}
  LeaseTicks = 1
  ImplementationLimit = 2
  ValidationLimit = 3
  ArchiveLimit = 1
  AttemptLimit = 2
  HealingBudget = 1
  Nobody = Nobody
  EditLimit = 1
SPECIFICATION IntegrationSpec
INVARIANT QueuedWorkCanBePrepared
CHECK_DEADLOCK FALSE
